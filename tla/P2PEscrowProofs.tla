--------------------------- MODULE P2PEscrowProofs ---------------------------
(***************************************************************************)
(* Proofs that native P2P trades are settled as P2PEscrow's properties     *)
(* say, for any number of trades and of concurrent calls and any number of *)
(* lost answers, aborts and replaced or reverted transactions, and that    *)
(* they implement the accounts of EscrowAccounts.                          *)
(***************************************************************************)
EXTENDS P2PEscrow, TLAPS

-----------------------------------------------------------------------------
(* The inductive invariant, trade by trade.                                *)

\* A call has reserved t and has neither recorded nor given up.
Engaged(c, t) == call[c].trade = t /\ call[c].pc \in {"build", "send", "record", "revert"}

\* What the program counter of a call says of its operation.
WellFormed(x) ==
  /\ x.pc # "idle" => x.trade \in Trades
  /\ x.pc = "idle" => x = Idle
  /\ x.pc \in {"read", "overwrite"} => x.op = "cancel"
  /\ x.pc \in {"build", "send", "record", "revert"} => x.op \in Operations
  /\ x.pc = "record" => x.op # "cancel"
  /\ x.pc = "revert" => x.op \in Resolutions

\* An escrow on record is in the wallet, and was recorded once.
Locked(t) ==
  /\ opening[t] \in {"none", "locking", "received"} => ~trade[t].lockTx
  /\ opening[t] = "received" => deposit[t] = "in"
  /\ trade[t].lockTx => deposit[t] = "in"
  /\ ~trade[t].lockTx => trade[t].status \in {"none", "initiated", "fiat_sent", "cancelled"}
  /\ trade[t].lockTx => trade[t].status \notin {"none", "initiated", "fiat_pending"}

\* Before the first reservation nothing was paid and nobody is about to pay.
Untouched(t) ==
  ~trade[t].lockTx \/ trade[t].status \in {"escrow_locked", "fiat_sent"} =>
    /\ \A c \in Callers : ~Engaged(c, t)
    /\ Payouts(t) = 0 /\ Payees(t) = {}
    /\ points[t] = 0 /\ ~trade[t].releaseTx

\* The statuses of a trade while a call of the operation is engaged in it.
Standing(op) ==
  {"cancelled"} \cup (IF op = "release" THEN {"released", "completed"} ELSE {})
                \cup (IF op \in Resolutions THEN {"resolving"} ELSE {})

\* Reservations exclude each other, but for releases.
Exclusive(t) ==
  /\ \A c \in Callers : Engaged(c, t) => trade[t].status \in Standing(call[c].op)
  /\ \A c, d \in Callers : Engaged(c, t) /\ Engaged(d, t) /\ c # d =>
       call[c].op = "release" /\ call[d].op = "release" /\ "release" \in mishaps[t]

\* Without doubt about a payment, whoever may still pay finds nothing paid.
PaidOnce(t) ==
  mishaps[t] \cap {"release", "resolve"} = {} =>
    /\ Payouts(t) <= 1 /\ points[t] <= 1
    /\ \A c \in Callers : Engaged(c, t) =>
         /\ points[t] = 0 /\ ~trade[t].releaseTx
         /\ call[c].pc # "record" => Payouts(t) = 0
    /\ trade[t].status \in {"released", "disputed"} /\ ~trade[t].releaseTx
       /\ (\A c \in Callers : ~Engaged(c, t)) => Payouts(t) = 0 /\ points[t] = 0

\* Without doubt about a resolution, whoever may still pay finds nobody else paid.
OneParty(t) ==
  "resolve" \notin mishaps[t] =>
    /\ ~(Parties \subseteq Payees(t))
    /\ trade[t].status = "released" => Payees(t) \subseteq {"buyer"}
    /\ trade[t].status = "disputed" => Payees(t) = {}
    /\ \A c \in Callers : Engaged(c, t) =>
         /\ Payees(t) \subseteq {PayeeOf(call[c].op)}
         /\ call[c].op # "release" /\ call[c].pc # "record" => Payees(t) = {}

\* A payout about to be recorded was sent, and the ones on record were.
SentFirst(t) ==
  /\ \A c \in Callers : Engaged(c, t) /\ call[c].pc = "record" =>
       PayeeOf(call[c].op) \in Payees(t) \/ Lost(t)
  /\ trade[t].status = "completed" => "buyer" \in Payees(t) \/ Lost(t)
  /\ trade[t].status = "cancelled" /\ trade[t].lockTx =>
       \/ Payees(t) # {}
       \/ \E c \in Callers : Moving(c, t) /\ call[c].op = "cancel"
       \/ "unrefunded" \in mishaps[t]
       \/ Lost(t)

\* The pending transaction pays from a recorded escrow.
PoolIsLocked == pool \in Transactions => trade[pool.trade].lockTx

TradeInv(t) ==
  /\ Locked(t)
  /\ Untouched(t)
  /\ Exclusive(t)
  /\ PaidOnce(t)
  /\ OneParty(t)
  /\ SentFirst(t)

IInv ==
  /\ TypeOK
  /\ \A c \in Callers : WellFormed(call[c])
  /\ PoolIsLocked
  /\ \A t \in Trades : TradeInv(t)

-----------------------------------------------------------------------------
(* Trades that a step leaves alone.                                        *)

\* A step changes nothing of u but its conversation (a deposit, its receipt, the
\* end), what went wrong with it, and, by losing it, its pending payout.
Spared(u) ==
  /\ trade'[u] = trade[u]
  /\ \/ opening'[u] \in {opening[u], "over"}
     \/ opening[u] = "locking" /\ opening'[u] = "received" /\ deposit[u] = "in"
  /\ deposit[u] = "in" => deposit'[u] = "in"
  /\ points'[u] = points[u]
  /\ mishaps[u] \subseteq mishaps'[u]
  /\ \A c \in Callers :
       /\ Engaged(c, u)' <=> Engaged(c, u)
       /\ Engaged(c, u) => call'[c].op = call[c].op /\ call'[c].pc = call[c].pc
  /\ Payees(u)' \subseteq Payees(u)
  /\ Payouts(u)' \in 0..Payouts(u)
  /\ Payees(u)' = Payees(u) \/ Lost(u)'

\* The wallet's pending transaction is one of u's payouts.
Pending(u) == pool \in Transactions /\ pool.trade = u

\* Whom the mined payouts of u went to.
PaidTo(u) == {paid[u][i] : i \in DOMAIN paid[u]}

\* The payouts of a trade are the mined ones and the pending one.
LEMMA PayoutsNow ==
  ASSUME TypeOK, NEW u \in Trades
  PROVE  /\ Len(paid[u]) \in Nat
         /\ Pending(u) => Payouts(u) = Len(paid[u]) + 1 /\ Payees(u) = PaidTo(u) \cup {pool.to}
         /\ ~Pending(u) => Payouts(u) = Len(paid[u]) /\ Payees(u) = PaidTo(u)
<1>1. paid[u] \in Seq(Parties)
  BY DEF TypeOK
<1>2. Len(paid[u]) \in Nat
  BY <1>1
<1>3. ASSUME Pending(u)
      PROVE  Payouts(u) = Len(paid[u]) + 1 /\ Payees(u) = PaidTo(u) \cup {pool.to}
  BY <1>3, Zenon DEF Pending, Payouts, Payees, PaidTo
<1>4. ASSUME ~Pending(u)
      PROVE  Payouts(u) = Len(paid[u]) /\ Payees(u) = PaidTo(u)
  <2>1. Payouts(u) = Len(paid[u]) + 0 /\ Payees(u) = PaidTo(u) \cup {}
    BY <1>4, Zenon DEF Pending, Payouts, Payees, PaidTo
  <2> QED
    BY <1>2, <2>1
<1> QED
  BY <1>2, <1>3, <1>4

\* The same after a step.
LEMMA PayoutsNext ==
  ASSUME TypeOK', NEW u \in Trades
  PROVE  /\ Len(paid'[u]) \in Nat
         /\ Pending(u)' =>
              Payouts(u)' = Len(paid'[u]) + 1 /\ Payees(u)' = PaidTo(u)' \cup {pool'.to}
         /\ ~Pending(u)' => Payouts(u)' = Len(paid'[u]) /\ Payees(u)' = PaidTo(u)'
<1>1. paid'[u] \in Seq(Parties)
  BY DEF TypeOK
<1>2. Len(paid'[u]) \in Nat
  BY <1>1
<1>3. ASSUME Pending(u)'
      PROVE  Payouts(u)' = Len(paid'[u]) + 1 /\ Payees(u)' = PaidTo(u)' \cup {pool'.to}
  BY <1>3, Zenon DEF Pending, Payouts, Payees, PaidTo
<1>4. ASSUME ~Pending(u)'
      PROVE  Payouts(u)' = Len(paid'[u]) /\ Payees(u)' = PaidTo(u)'
  <2>1. Payouts(u)' = Len(paid'[u]) + 0 /\ Payees(u)' = PaidTo(u)' \cup {}
    BY <1>4, Zenon DEF Pending, Payouts, Payees, PaidTo
  <2> QED
    BY <1>2, <2>1
<1> QED
  BY <1>2, <1>3, <1>4

\* The number of a trade's payouts is one.
LEMMA PayoutsNat ==
  ASSUME TypeOK, NEW u \in Trades
  PROVE  Payouts(u) \in Nat
  BY PayoutsNow

\* A step that keeps the wallet keeps the payouts.
LEMMA PayoutsStay ==
  ASSUME TypeOK, UNCHANGED <<pool, paid>>, NEW u \in Trades
  PROVE  Payees(u)' = Payees(u) /\ Payouts(u)' = Payouts(u) /\ Payouts(u)' \in 0..Payouts(u)
<1>1. Payees(u)' = Payees(u) /\ Payouts(u)' = Payouts(u)
  BY DEF Payees, Payouts
<1> QED
  BY <1>1, PayoutsNat

\* What the node's taking the transaction of a call does to the payouts.
LEMMA PoolEffect ==
  ASSUME TypeOK, TypeOK', NEW c \in Callers, NEW kinds, Pool(c, kinds),
         NEW t \in Trades, NEW p, t = call[c].trade, p = PayeeOf(call[c].op)
  PROVE  /\ \A u \in Trades \ {t} :
              /\ Payees(u)' \subseteq Payees(u)
              /\ Payouts(u)' \in 0..Payouts(u)
              /\ Payees(u)' = Payees(u) \/ "replaced" \in mishaps'[u]
         /\ p \in Payees(t)' /\ Payees(t)' \subseteq Payees(t) \cup {p}
         /\ Payees(t) \subseteq Payees(t)' \/ "replaced" \in mishaps'[t]
         /\ Payouts(t) = 0 => Payouts(t)' = 1
<1>1. /\ paid' = paid /\ pool' = [trade |-> t, to |-> p]
      /\ \A u \in Trades : u \in Replaced(c) => "replaced" \in mishaps'[u]
  BY DEF Pool, TransferOf, When
<1>2. t \in Trades /\ p \in Parties /\ pool' \in Transactions
  BY <1>1 DEF PayeeOf, Parties, Transactions
<1>3. \A u \in Trades : Pending(u)' <=> u = t
  BY <1>1, <1>2 DEF Pending
<1>4. \A u \in Trades : PaidTo(u)' = PaidTo(u)
  BY <1>1 DEF PaidTo
<1>5. \A u \in Trades : Pending(u) /\ ~(u = t /\ pool.to = p) => "replaced" \in mishaps'[u]
  <2> SUFFICES ASSUME NEW u \in Trades, Pending(u), ~(u = t /\ pool.to = p)
               PROVE  u \in Replaced(c)
    BY <1>1
  <2>1. pool \in Transactions /\ pool.trade = u
    BY DEF Pending
  <2>2. TransferOf(c) = [trade |-> t, to |-> p]
    BY DEF TransferOf
  <2>3. pool # TransferOf(c)
    BY <2>1, <2>2
  <2> QED
    BY <2>1, <2>3 DEF Replaced
<1>6. ASSUME NEW u \in Trades \ {t}
      PROVE  /\ Payees(u)' \subseteq Payees(u)
             /\ Payouts(u)' \in 0..Payouts(u)
             /\ Payees(u)' = Payees(u) \/ "replaced" \in mishaps'[u]
  <2>1. Len(paid[u]) \in Nat /\ Payouts(u)' = Len(paid[u]) /\ Payees(u)' = PaidTo(u)
    BY <1>1, <1>3, <1>4, PayoutsNext
  <2>2. CASE Pending(u)
    BY <1>5, <2>1, <2>2, PayoutsNow
  <2>3. CASE ~Pending(u)
    BY <2>1, <2>3, PayoutsNow
  <2> QED
    BY <2>2, <2>3
<1>7. /\ p \in Payees(t)' /\ Payees(t)' \subseteq Payees(t) \cup {p}
      /\ Payees(t) \subseteq Payees(t)' \/ "replaced" \in mishaps'[t]
      /\ Payouts(t) = 0 => Payouts(t)' = 1
  <2>1. /\ Len(paid[t]) \in Nat /\ Payouts(t)' = Len(paid[t]) + 1
        /\ Payees(t)' = PaidTo(t) \cup {p}
    BY <1>1, <1>2, <1>3, <1>4, PayoutsNext
  <2>2. CASE Pending(t)
    <3>1. t \in Trades /\ Payouts(t) = Len(paid[t]) + 1 /\ Payees(t) = PaidTo(t) \cup {pool.to}
      BY <1>2, <2>2, PayoutsNow
    <3>2. pool.to = p \/ "replaced" \in mishaps'[t]
      BY <1>2, <1>5, <2>2
    <3> QED
      BY <2>1, <3>1, <3>2
  <2>3. CASE ~Pending(t)
    BY <1>2, <2>1, <2>3, PayoutsNow
  <2> QED
    BY <2>2, <2>3
<1> QED
  BY <1>6, <1>7

\* A transfer of another service replaces at most the pending payout.
LEMMA OtherEffect ==
  ASSUME TypeOK, TypeOK', OtherTransfer, NEW u \in Trades
  PROVE  /\ Payees(u)' \subseteq Payees(u)
         /\ Payouts(u)' \in 0..Payouts(u)
         /\ Payees(u)' = Payees(u) \/ "replaced" \in mishaps'[u]
<1>1. /\ paid' = paid /\ pool' = OtherTx
      /\ Pending(u) => "replaced" \in mishaps'[u]
  BY DEF OtherTransfer, When, Pending
<1>2. ~Pending(u)' /\ PaidTo(u)' = PaidTo(u)
  BY <1>1, P2PAssumption DEF Pending, PaidTo, Transactions, Parties
<1>3. Len(paid[u]) \in Nat /\ Payouts(u)' = Len(paid[u]) /\ Payees(u)' = PaidTo(u)
  BY <1>1, <1>2, PayoutsNext
<1>4. CASE Pending(u)
  BY <1>1, <1>3, <1>4, PayoutsNow
<1>5. CASE ~Pending(u)
  BY <1>3, <1>5, PayoutsNow
<1> QED
  BY <1>4, <1>5

\* Mining the pending transaction moves it from pending to paid.
LEMMA MineEffect ==
  ASSUME TypeOK, TypeOK', MinePayout, NEW u \in Trades
  PROVE  Payees(u)' = Payees(u) /\ Payouts(u)' = Payouts(u)
<1>1. pool' = NoTx /\ pool \in Transactions \cup {OtherTx}
  BY DEF TypeOK, MinePayout
<1>2. ~Pending(u)'
  BY <1>1, P2PAssumption DEF Pending, Transactions, Parties
<1>3. Len(paid'[u]) \in Nat /\ Payouts(u)' = Len(paid'[u]) /\ Payees(u)' = PaidTo(u)'
  BY <1>2, PayoutsNext
<1>4. CASE Pending(u)
  <2>1. pool \in Transactions /\ pool.trade = u /\ pool.to \in Parties /\ pool # OtherTx
    BY <1>4, P2PAssumption DEF Pending, Transactions, Parties
  <2>2. paid \in [Trades -> Seq(Parties)] /\ paid[u] \in Seq(Parties)
    BY DEF TypeOK
  <2>3. paid'[u] = Append(paid[u], pool.to)
    BY <2>1, <2>2 DEF MinePayout
  <2> DEFINE s == paid[u]
             x == pool.to
  <2>4. /\ Len(Append(s, x)) = Len(s) + 1 /\ DOMAIN s = 1..Len(s) /\ Len(s) \in Nat
        /\ DOMAIN Append(s, x) = 1..(Len(s) + 1)
        /\ \A i \in 1..Len(s) : Append(s, x)[i] = s[i]
        /\ Append(s, x)[Len(s) + 1] = x
    BY <2>1, <2>2
  <2>5. PaidTo(u)' = PaidTo(u) \cup {pool.to}
    <3>1. PaidTo(u)' = {Append(s, x)[i] : i \in 1..(Len(s) + 1)} /\ PaidTo(u) = {s[i] : i \in 1..Len(s)}
      BY <2>3, <2>4 DEF PaidTo
    <3> HIDE DEF s, x
    <3> QED
      BY <2>4, <3>1 DEF x
  <2> QED
    BY <1>3, <1>4, <2>3, <2>4, <2>5, PayoutsNow
<1>5. CASE ~Pending(u)
  <2>1. paid'[u] = paid[u]
    BY <1>1, <1>5 DEF MinePayout, Pending, TypeOK
  <2> QED
    BY <1>3, <1>5, <2>1, PayoutsNow DEF PaidTo
<1> QED
  BY <1>4, <1>5

\* A payout that reverts is gone, and the others stay.
LEMMA RevertEffect ==
  ASSUME TypeOK, TypeOK', RevertPayout, NEW u \in Trades
  PROVE  /\ Payees(u)' \subseteq Payees(u)
         /\ Payouts(u)' \in 0..Payouts(u)
         /\ Payees(u)' = Payees(u) \/ Lost(u)'
<1>1. /\ paid' = paid /\ pool' = NoTx /\ mishaps \in [Trades -> SUBSET Mishaps]
      /\ mishaps' = [mishaps EXCEPT ![pool.trade] = @ \cup {"reverted"}]
  BY DEF RevertPayout, Happens, TypeOK
<1>2. ~Pending(u)' /\ PaidTo(u)' = PaidTo(u)
  BY <1>1, P2PAssumption DEF Pending, PaidTo, Transactions, Parties
<1>3. Len(paid[u]) \in Nat /\ Payouts(u)' = Len(paid[u]) /\ Payees(u)' = PaidTo(u)
  BY <1>1, <1>2, PayoutsNext
<1>4. CASE Pending(u)
  <2>1. Lost(u)'
    BY <1>1, <1>4 DEF Pending, Lost
  <2> QED
    BY <1>3, <1>4, <2>1, PayoutsNow
<1>5. CASE ~Pending(u)
  BY <1>3, <1>5, PayoutsNow
<1> QED
  BY <1>4, <1>5

\* Such a step keeps the invariant of u.
LEMMA SparedKeeps ==
  ASSUME TypeOK, NEW u \in Trades, TradeInv(u), Spared(u)
  PROVE  TradeInv(u)'
<1>1. Payouts(u) \in Nat
  BY PayoutsNat
<1>2. Payouts(u)' \in Nat /\ Payouts(u)' <= Payouts(u)
  BY <1>1 DEF Spared
<1>3. Locked(u)'
  BY DEF TradeInv, Locked, Spared
<1>4. Untouched(u)'
  BY <1>1, <1>2 DEF TradeInv, Untouched, Spared
<1>5. Exclusive(u)'
  BY DEF TradeInv, Exclusive, Spared
<1>6. PaidOnce(u)'
  <2> SUFFICES ASSUME mishaps'[u] \cap {"release", "resolve"} = {}
               PROVE  PaidOnce(u)'
    BY DEF PaidOnce
  <2>1. mishaps[u] \cap {"release", "resolve"} = {}
    BY DEF Spared
  <2> QED
    BY <1>1, <1>2, <2>1 DEF TradeInv, PaidOnce, Spared
<1>7. OneParty(u)'
  <2> SUFFICES ASSUME "resolve" \notin mishaps'[u]
               PROVE  OneParty(u)'
    BY DEF OneParty
  <2>1. "resolve" \notin mishaps[u]
    BY DEF Spared
  <2> QED
    BY <2>1 DEF TradeInv, OneParty, Spared
<1>8. SentFirst(u)'
  BY DEF TradeInv, SentFirst, Lost, Spared, Engaged, Moving
<1> QED
  BY <1>3, <1>4, <1>5, <1>6, <1>7, <1>8 DEF TradeInv

-----------------------------------------------------------------------------
(* Steps of a call that leave the wallet alone.                            *)

Rows == [status : P2PTradeStatus \cup {"none"}, seller : BOOLEAN, lockTx : BOOLEAN,
         releaseTx : BOOLEAN]

Calls == [pc : {"idle", "read", "overwrite", "build", "send", "record", "revert"},
          op : Operations \cup {"none"}, trade : Trades \cup {NoTrade}, nonce : 0..MaxMined]

\* A step of c that changes only c, t's row, its points and its mishaps.
Local(c, t) ==
  /\ call' \in [Callers -> Calls] /\ WellFormed(call'[c])
  /\ call[c].trade \in {t, NoTrade} /\ call'[c].trade \in {t, NoTrade}
  /\ \A d \in Callers \ {c} : call'[d] = call[d]
  /\ trade' \in [Trades -> Rows] /\ trade'[t].lockTx = trade[t].lockTx
  /\ points' \in [Trades -> Nat]
  /\ mishaps' \in [Trades -> SUBSET Mishaps]
  /\ \A u \in Trades \ {t} :
       trade'[u] = trade[u] /\ points'[u] = points[u] /\ mishaps'[u] = mishaps[u]
  /\ UNCHANGED <<opening, deposit, pool, mined, paid>>

\* Only t's own invariant is left to show for such a step.
LEMMA LocalKeeps ==
  ASSUME IInv, NEW c \in Callers, NEW t \in Trades, Local(c, t), TradeInv(t)'
  PROVE  IInv'
<1>1. TypeOK'
  BY DEF IInv, TypeOK, Local, Rows, Calls
<1>2. \A d \in Callers : WellFormed(call'[d])
  BY DEF IInv, Local
<1>3. PoolIsLocked'
  BY DEF IInv, PoolIsLocked, Local, TypeOK, Transactions
<1>4. ASSUME NEW u \in Trades \ {t}
      PROVE  TradeInv(u)'
  <2>1. Payees(u)' = Payees(u) /\ Payouts(u)' \in 0..Payouts(u)
    BY PayoutsStay DEF IInv, Local
  <2>2. \A d \in Callers :
          /\ Engaged(d, u)' <=> Engaged(d, u)
          /\ Engaged(d, u) => call'[d].op = call[d].op /\ call'[d].pc = call[d].pc
    BY P2PAssumption DEF Local, Engaged
  <2>3. Spared(u)
    BY <2>1, <2>2 DEF Local, Spared
  <2> QED
    BY <2>3, SparedKeeps DEF IInv
<1> QED
  BY <1>1, <1>2, <1>3, <1>4 DEF IInv, WellFormed

\* Starting a call: every call has its form.
LEMMA EnterFacts ==
  ASSUME TypeOK, NEW c \in Callers, NEW t \in Trades, NEW op \in Operations,
         NEW pc \in {"read", "overwrite", "build"}, Enter(c, pc, op, t)
  PROVE  /\ call' \in [Callers -> Calls]
         /\ call'[c] = [pc |-> pc, op |-> op, trade |-> t, nonce |-> 0]
         /\ \A d \in Callers \ {c} : call'[d] = call[d]
<1>1. [pc |-> pc, op |-> op, trade |-> t, nonce |-> 0] \in Calls
  BY P2PAssumption DEF Calls
<1>2. call \in [Callers -> Calls]
  BY DEF TypeOK, Calls
<1> QED
  BY <1>1, <1>2 DEF Enter

\* What a step that sets the status of t does to the rows.
LEMMA StatusFacts ==
  ASSUME TypeOK, NEW t \in Trades, NEW s \in P2PTradeStatus,
         trade' = [trade EXCEPT ![t].status = s]
  PROVE  /\ trade' \in [Trades -> Rows]
         /\ trade'[t].status = s /\ trade'[t].seller = trade[t].seller
         /\ trade'[t].lockTx = trade[t].lockTx /\ trade'[t].releaseTx = trade[t].releaseTx
         /\ \A u \in Trades \ {t} : trade'[u] = trade[u]
<1>1. trade \in [Trades -> Rows]
  BY DEF TypeOK, Rows
<1> QED
  BY <1>1 DEF Rows

\* What a step that notes mishaps of t does to them.
LEMMA HappensFacts ==
  ASSUME TypeOK, NEW t \in Trades, NEW kinds \in SUBSET Mishaps, Happens(t, kinds)
  PROVE  /\ mishaps' \in [Trades -> SUBSET Mishaps]
         /\ mishaps'[t] = mishaps[t] \cup kinds
         /\ \A u \in Trades \ {t} : mishaps'[u] = mishaps[u]
  BY DEF TypeOK, Happens

\* A release: only other releases may be engaged, and then it is noted.
LEMMA ReserveForReleaseKeeps ==
  ASSUME IInv, NEW c \in Callers, NEW t \in Trades, ReserveForRelease(c, t)
  PROVE  IInv'
<1> DEFINE kinds == When(\E d \in Callers : Moving(d, t), "release")
<1>1. /\ call' \in [Callers -> Calls]
      /\ call'[c] = [pc |-> "build", op |-> "release", trade |-> t, nonce |-> 0]
      /\ \A d \in Callers \ {c} : call'[d] = call[d]
  BY EnterFacts DEF IInv, ReserveForRelease, Operations
<1>2. /\ trade' \in [Trades -> Rows]
      /\ trade'[t].status = "released"
      /\ trade'[t].lockTx = trade[t].lockTx /\ trade'[t].releaseTx = trade[t].releaseTx
      /\ \A u \in Trades \ {t} : trade'[u] = trade[u]
  BY StatusFacts DEF IInv, ReserveForRelease, P2PTradeStatus
<1>3. /\ mishaps' \in [Trades -> SUBSET Mishaps]
      /\ mishaps'[t] = mishaps[t] \cup kinds
      /\ \A u \in Trades \ {t} : mishaps'[u] = mishaps[u]
  BY HappensFacts DEF IInv, ReserveForRelease, When, Mishaps
<1>4. /\ call[c] = Idle /\ trade[t].lockTx /\ ~trade[t].releaseTx
      /\ trade[t].status \in {"escrow_locked", "fiat_sent", "released"}
      /\ UNCHANGED <<opening, deposit, pool, mined, paid, points>>
  BY DEF IInv, WellFormed, ReserveForRelease, At, Releasable, Escrowed, tradeVars, walletVars
<1>5. Local(c, t)
  BY <1>1, <1>2, <1>3, <1>4 DEF Local, WellFormed, Idle, Operations, IInv, TypeOK
<1>6. Payees(t)' = Payees(t) /\ Payouts(t)' = Payouts(t)
  BY <1>4, PayoutsStay DEF IInv
<1>7. /\ \A d \in Callers : Engaged(d, t)' <=> d = c \/ Engaged(d, t)
      /\ ~Engaged(c, t)
  BY <1>1, <1>4 DEF Engaged, Idle
<1>8. \A d \in Callers : Engaged(d, t) =>
        call[d].op = "release" /\ call[d].pc # "revert" /\ "release" \in mishaps'[t]
  <2> SUFFICES ASSUME NEW d \in Callers, Engaged(d, t)
               PROVE  call[d].op = "release" /\ call[d].pc # "revert" /\ "release" \in mishaps'[t]
    OBVIOUS
  <2>1. trade[t].status \in Standing(call[d].op) /\ trade[t].status \notin {"escrow_locked", "fiat_sent"}
    BY DEF IInv, TradeInv, Exclusive, Untouched
  <2>2. call[d].op = "release"
    BY <1>4, <2>1 DEF Standing
  <2>3. call[d].pc # "revert"
    BY <2>2 DEF IInv, WellFormed, Resolutions
  <2> QED
    BY <1>3, <2>2, <2>3 DEF When, Moving, Engaged
<1> HIDE DEF kinds
<1>9. Locked(t)' /\ Untouched(t)'
  BY <1>2, <1>4 DEF IInv, TradeInv, Locked, Untouched
<1>10. Exclusive(t)'
  BY <1>1, <1>2, <1>7, <1>8 DEF Exclusive, Standing
<1>11. PaidOnce(t)'
  BY <1>1, <1>2, <1>3, <1>4, <1>6, <1>7, <1>8 DEF IInv, TradeInv, PaidOnce, Untouched
<1>12. OneParty(t)'
  BY <1>1, <1>2, <1>3, <1>4, <1>6, <1>7, <1>8
  DEF IInv, TradeInv, OneParty, Untouched, PayeeOf
<1>13. SentFirst(t)'
  BY <1>1, <1>2, <1>3, <1>6, <1>7, <1>8 DEF IInv, TradeInv, SentFirst, Lost
<1> QED
  BY <1>5, <1>9, <1>10, <1>11, <1>12, <1>13, LocalKeeps DEF TradeInv

\* Reading a trade before cancelling it engages nobody.
LEMMA ReadForCancelKeeps ==
  ASSUME IInv, NEW c \in Callers, NEW t \in Trades, ReadForCancel(c, t)
  PROVE  IInv'
<1>1. PICK pc \in {"read", "overwrite"} : Enter(c, pc, "cancel", t)
  BY DEF ReadForCancel
<1>2. /\ call' \in [Callers -> Calls]
      /\ call'[c] = [pc |-> pc, op |-> "cancel", trade |-> t, nonce |-> 0]
      /\ \A d \in Callers \ {c} : call'[d] = call[d]
  BY <1>1, EnterFacts DEF IInv, Operations
<1>3. call[c] = Idle /\ UNCHANGED <<trade, mishaps, opening, deposit, pool, mined, paid, points>>
  BY DEF IInv, WellFormed, ReadForCancel, At, tradeVars, walletVars
<1>4. Local(c, t)
  BY <1>2, <1>3 DEF Local, WellFormed, Idle, IInv, TypeOK, Rows
<1>5. Spared(t)
  <2>1. Payees(t)' = Payees(t) /\ Payouts(t)' \in 0..Payouts(t)
    BY <1>3, PayoutsStay DEF IInv
  <2> QED
    BY <1>2, <1>3, <2>1 DEF Spared, Engaged, Idle
<1> QED
  BY <1>4, <1>5, SparedKeeps, LocalKeeps DEF IInv

\* What a step that moves c on within its operation does to the calls.
LEMMA GotoFacts ==
  ASSUME IInv, NEW c \in Callers, call[c].pc # "idle",
         NEW pc \in {"build", "send", "record", "revert"}, Goto(c, pc)
  PROVE  /\ call' \in [Callers -> Calls]
         /\ call'[c] = [call[c] EXCEPT !.pc = pc]
         /\ call'[c].pc = pc /\ call'[c].op = call[c].op /\ call'[c].trade = call[c].trade
         /\ \A d \in Callers \ {c} : call'[d] = call[d]
<1>1. call \in [Callers -> Calls]
  BY DEF IInv, TypeOK, Calls
<1> QED
  BY <1>1 DEF Goto, Calls

\* What the end of a call does to the calls.
LEMMA ReturnFacts ==
  ASSUME IInv, NEW c \in Callers, Return(c)
  PROVE  /\ call' \in [Callers -> Calls]
         /\ call'[c] = Idle
         /\ \A d \in Callers \ {c} : call'[d] = call[d]
         /\ WellFormed(call'[c])
<1>1. call \in [Callers -> Calls] /\ Idle \in Calls
  BY P2PAssumption DEF IInv, TypeOK, Calls, Idle
<1>2. call'[c] = Idle
  BY <1>1 DEF Return
<1>3. WellFormed(Idle)
  BY DEF WellFormed, Idle
<1> QED
  BY <1>1, <1>2, <1>3 DEF Return

\* A call of an engaged caller: its trade and operation.
LEMMA EngagedFacts ==
  ASSUME IInv, NEW c \in Callers, call[c].pc \in {"build", "send", "record", "revert"}
  PROVE  /\ call[c].trade \in Trades /\ call[c].op \in Operations
         /\ Engaged(c, call[c].trade)
         /\ trade[call[c].trade].lockTx
         /\ trade[call[c].trade].status \in Standing(call[c].op)
         /\ trade[call[c].trade].status \notin {"escrow_locked", "fiat_sent"}
<1>1. call[c].trade \in Trades /\ call[c].op \in Operations /\ Engaged(c, call[c].trade)
  BY DEF IInv, WellFormed, Engaged
<1> QED
  BY <1>1 DEF IInv, TradeInv, Untouched, Exclusive

\* A cancellation reserves a trade nobody was engaged in.
LEMMA ReserveForCancelKeeps ==
  ASSUME IInv, NEW c \in Callers, ReserveForCancel(c)
  PROVE  IInv'
<1>1. PICK t \in Trades : t = call[c].trade
  BY DEF IInv, WellFormed, ReserveForCancel, At
<1>2. /\ call[c].pc = "read" /\ call[c].op = "cancel"
      /\ UNCHANGED <<mishaps, opening, deposit, pool, mined, paid, points>>
  BY DEF IInv, WellFormed, ReserveForCancel, At, tradeVars, walletVars
<1>3. Payees(t)' = Payees(t) /\ Payouts(t)' = Payouts(t) /\ Payouts(t)' \in 0..Payouts(t)
  BY <1>2, PayoutsStay DEF IInv
<1>4. CASE Return(c) /\ UNCHANGED trade
  <2>1. /\ call' \in [Callers -> Calls] /\ call'[c] = Idle /\ WellFormed(call'[c])
        /\ \A d \in Callers \ {c} : call'[d] = call[d]
    BY <1>4, ReturnFacts
  <2>2. Local(c, t)
    BY <1>1, <1>2, <1>4, <2>1 DEF Local, Idle, IInv, TypeOK, Rows
  <2>3. Spared(t)
    BY <1>1, <1>2, <1>3, <1>4, <2>1 DEF Spared, Engaged, Idle
  <2> QED
    BY <2>2, <2>3, SparedKeeps, LocalKeeps DEF IInv
<1>5. CASE Cancellable(t) /\ trade' = [trade EXCEPT ![t].status = "cancelled"] /\ Goto(c, "build")
  <2>1. /\ call' \in [Callers -> Calls]
        /\ call'[c].pc = "build" /\ call'[c].op = "cancel" /\ call'[c].trade = t
        /\ \A d \in Callers \ {c} : call'[d] = call[d]
    BY <1>1, <1>2, <1>5, GotoFacts
  <2>2. /\ trade' \in [Trades -> Rows]
        /\ trade'[t].status = "cancelled"
        /\ trade'[t].lockTx = trade[t].lockTx /\ trade'[t].releaseTx = trade[t].releaseTx
        /\ \A u \in Trades \ {t} : trade'[u] = trade[u]
    BY <1>5, StatusFacts DEF IInv, P2PTradeStatus
  <2>3. Local(c, t)
    BY <1>1, <1>2, <2>1, <2>2 DEF Local, WellFormed, Operations, IInv, TypeOK
  <2>4. trade[t].status = "escrow_locked" /\ trade[t].lockTx
    BY <1>5 DEF Cancellable, IInv, TradeInv, Locked
  <2>5. /\ \A d \in Callers : ~Engaged(d, t)
        /\ Payouts(t) = 0 /\ Payees(t) = {} /\ points[t] = 0 /\ ~trade[t].releaseTx
    BY <2>4 DEF IInv, TradeInv, Untouched
  <2>6. \A d \in Callers : Engaged(d, t)' <=> d = c
    BY <2>1, <2>5 DEF Engaged
  <2>7. Locked(t)' /\ Untouched(t)'
    BY <1>2, <2>2, <2>4 DEF IInv, TradeInv, Locked, Untouched
  <2>8. Exclusive(t)' /\ PaidOnce(t)' /\ OneParty(t)'
    BY <1>2, <1>3, <2>1, <2>2, <2>5, <2>6
    DEF Exclusive, Standing, PaidOnce, OneParty, Parties
  <2>9. SentFirst(t)'
    BY <2>1, <2>2, <2>6 DEF SentFirst, Lost, Moving
  <2> QED
    BY <2>3, <2>7, <2>8, <2>9, LocalKeeps DEF TradeInv
<1> QED
  BY <1>1, <1>4, <1>5 DEF ReserveForCancel

\* The unconditional cancellation notes that it pays nothing back.
LEMMA OverwriteCancelledKeeps ==
  ASSUME IInv, NEW c \in Callers, OverwriteCancelled(c)
  PROVE  IInv'
<1>1. PICK t \in Trades : t = call[c].trade
  BY DEF IInv, WellFormed, OverwriteCancelled, At
<1>2. /\ call[c].pc = "overwrite" /\ Return(c)
      /\ trade' = [trade EXCEPT ![t].status = "cancelled"]
      /\ Happens(t, When(trade[t].lockTx, "unrefunded"))
      /\ UNCHANGED <<opening, deposit, pool, mined, paid, points>>
  BY <1>1 DEF OverwriteCancelled, At, tradeVars, walletVars
<1>3. /\ call' \in [Callers -> Calls] /\ call'[c] = Idle /\ WellFormed(call'[c])
      /\ \A d \in Callers \ {c} : call'[d] = call[d]
  BY <1>2, ReturnFacts
<1>4. /\ trade' \in [Trades -> Rows]
      /\ trade'[t].status = "cancelled"
      /\ trade'[t].lockTx = trade[t].lockTx /\ trade'[t].releaseTx = trade[t].releaseTx
      /\ \A u \in Trades \ {t} : trade'[u] = trade[u]
  BY <1>2, StatusFacts DEF IInv, P2PTradeStatus
<1>5. /\ mishaps' \in [Trades -> SUBSET Mishaps]
      /\ mishaps'[t] = mishaps[t] \cup When(trade[t].lockTx, "unrefunded")
      /\ \A u \in Trades \ {t} : mishaps'[u] = mishaps[u]
  BY <1>2, HappensFacts DEF IInv, When, Mishaps
<1>6. Local(c, t)
  BY <1>1, <1>2, <1>3, <1>4, <1>5 DEF Local, Idle, IInv, TypeOK
<1>7. Payees(t)' = Payees(t) /\ Payouts(t)' = Payouts(t)
  BY <1>2, PayoutsStay DEF IInv
<1>8. \A d \in Callers :
        /\ Engaged(d, t)' <=> Engaged(d, t)
        /\ Engaged(d, t) => call'[d] = call[d]
  BY <1>1, <1>2, <1>3 DEF Engaged, Idle
<1>9. Locked(t)' /\ Untouched(t)'
  BY <1>2, <1>4, <1>7, <1>8 DEF IInv, TradeInv, Locked, Untouched
<1>10. Exclusive(t)'
  BY <1>4, <1>5, <1>8 DEF IInv, TradeInv, Exclusive, Standing
<1>11. PaidOnce(t)' /\ OneParty(t)'
  BY <1>2, <1>4, <1>5, <1>7, <1>8 DEF IInv, TradeInv, PaidOnce, OneParty, When
<1>12. SentFirst(t)'
  BY <1>4, <1>5, <1>7, <1>8 DEF IInv, TradeInv, SentFirst, Lost, When
<1> QED
  BY <1>6, <1>9, <1>10, <1>11, <1>12, LocalKeeps DEF TradeInv

\* A resolution reserves a disputed trade, in which nobody is engaged.
LEMMA ReserveFromDisputeKeeps ==
  ASSUME IInv, NEW c \in Callers, NEW t \in Trades, NEW op \in Resolutions,
         ReserveFromDispute(c, t, op)
  PROVE  IInv'
<1>1. /\ call' \in [Callers -> Calls]
      /\ call'[c] = [pc |-> "build", op |-> op, trade |-> t, nonce |-> 0]
      /\ \A d \in Callers \ {c} : call'[d] = call[d]
  <2>1. TypeOK /\ op \in Operations /\ Enter(c, "build", op, t)
    BY DEF IInv, ReserveFromDispute, Operations, Resolutions
  <2> QED
    BY <2>1, EnterFacts
<1>2. /\ trade' \in [Trades -> Rows]
      /\ trade'[t].status = "resolving"
      /\ trade'[t].lockTx = trade[t].lockTx /\ trade'[t].releaseTx = trade[t].releaseTx
      /\ \A u \in Trades \ {t} : trade'[u] = trade[u]
  BY StatusFacts DEF IInv, ReserveFromDispute, P2PTradeStatus
<1>3. /\ call[c] = Idle /\ trade[t].lockTx /\ ~trade[t].releaseTx
      /\ trade[t].status = "disputed"
      /\ UNCHANGED <<mishaps, opening, deposit, pool, mined, paid, points>>
  BY DEF IInv, WellFormed, ReserveFromDispute, At, Resolvable, Escrowed, tradeVars, walletVars
<1>4. Local(c, t)
  BY <1>1, <1>2, <1>3
  DEF Local, WellFormed, Idle, Operations, Resolutions, IInv, TypeOK
<1>5. Payees(t)' = Payees(t) /\ Payouts(t)' = Payouts(t)
  BY <1>3, PayoutsStay DEF IInv
<1>6. \A d \in Callers : ~Engaged(d, t)
  BY <1>3 DEF IInv, TradeInv, Exclusive, Standing
<1>7. \A d \in Callers : Engaged(d, t)' <=> d = c
  BY <1>1, <1>6 DEF Engaged
<1>8. Locked(t)' /\ Untouched(t)'
  BY <1>2, <1>3 DEF IInv, TradeInv, Locked, Untouched
<1>9. Exclusive(t)'
  BY <1>1, <1>2, <1>7 DEF Exclusive, Standing
<1>10. PaidOnce(t)'
  BY <1>1, <1>2, <1>3, <1>5, <1>6, <1>7 DEF IInv, TradeInv, PaidOnce
<1>11. OneParty(t)'
  BY <1>1, <1>2, <1>3, <1>5, <1>7 DEF IInv, TradeInv, OneParty, Parties
<1>12. SentFirst(t)'
  BY <1>1, <1>2, <1>7 DEF SentFirst, Lost
<1> QED
  BY <1>4, <1>8, <1>9, <1>10, <1>11, <1>12, LocalKeeps DEF TradeInv

\* A call that has not sent anything goes on without sending: the transfer is
\* built, or fails and is about to be reverted.
LEMMA UnsentKeeps ==
  ASSUME IInv, NEW c \in Callers, NEW t \in Trades, t = call[c].trade,
         call[c].pc \in {"build", "send"},
         call' \in [Callers -> Calls], call'[c].pc \in {"send", "revert"},
         call'[c].pc = "revert" => call[c].op \in Resolutions,
         call'[c].op = call[c].op, call'[c].trade = t,
         \A d \in Callers \ {c} : call'[d] = call[d],
         UNCHANGED <<trade, mishaps, opening, deposit, pool, mined, paid, points>>
  PROVE  IInv'
<1>1. Local(c, t)
  BY DEF Local, WellFormed, Operations, Resolutions, IInv, TypeOK, Rows
<1>2. Payees(t)' = Payees(t) /\ Payouts(t)' = Payouts(t)
  BY PayoutsStay DEF IInv
<1>3. /\ \A d \in Callers :
           /\ Engaged(d, t)' <=> Engaged(d, t)
           /\ Engaged(d, t) => call'[d].op = call[d].op
           /\ call'[d].pc = "record" <=> call[d].pc = "record"
      /\ \A d \in Callers :
           Moving(d, t) /\ call[d].op = "cancel" => Moving(d, t)' /\ call'[d].op = "cancel"
  BY DEF Engaged, Moving, Resolutions
<1>4. Locked(t)' /\ Untouched(t)' /\ Exclusive(t)'
  BY <1>2, <1>3 DEF IInv, TradeInv, Locked, Untouched, Exclusive
<1>5. PaidOnce(t)'
  BY <1>2, <1>3 DEF IInv, TradeInv, PaidOnce
<1>6. OneParty(t)'
  BY <1>2, <1>3 DEF IInv, TradeInv, OneParty
<1>7. SentFirst(t)'
  BY <1>2, <1>3 DEF IInv, TradeInv, SentFirst, Lost
<1> QED
  BY <1>1, <1>4, <1>5, <1>6, <1>7, LocalKeeps DEF TradeInv

LEMMA BuildTransferKeeps ==
  ASSUME IInv, NEW c \in Callers, BuildTransfer(c)
  PROVE  IInv'
<1>1. PICK t \in Trades : t = call[c].trade
  BY DEF IInv, WellFormed, BuildTransfer, At
<1>2. /\ call[c].pc = "build"
      /\ call' = [call EXCEPT ![c].pc = "send", ![c].nonce = mined]
      /\ UNCHANGED <<trade, mishaps, opening, deposit, pool, mined, paid, points>>
  BY DEF BuildTransfer, At, NextNonce, tradeVars, walletVars
<1>3. call \in [Callers -> Calls] /\ mined \in 0..MaxMined
  BY DEF IInv, TypeOK, Calls
<1>4. /\ call' \in [Callers -> Calls]
      /\ call'[c].pc = "send" /\ call'[c].op = call[c].op /\ call'[c].trade = call[c].trade
      /\ \A d \in Callers \ {c} : call'[d] = call[d]
  BY <1>2, <1>3 DEF Calls
<1> QED
  BY <1>1, <1>2, <1>4, UnsentKeeps

\* A call ends with its trade's row as it is.
LEMMA GiveUpKeeps ==
  ASSUME IInv, NEW c \in Callers, NEW t \in Trades, t = call[c].trade, Return(c),
         NEW kinds \in SUBSET Mishaps, Happens(t, kinds),
         call[c].pc = "record" /\ call[c].op = "release" => "release" \in kinds,
         call[c].pc \in {"build", "send"} /\ call[c].op = "cancel" => "unrefunded" \in kinds,
         UNCHANGED <<trade, opening, deposit, pool, mined, paid, points>>
  PROVE  IInv'
<1>1. /\ call' \in [Callers -> Calls] /\ call'[c] = Idle /\ WellFormed(call'[c])
      /\ \A d \in Callers \ {c} : call'[d] = call[d]
  BY ReturnFacts
<1>2. /\ mishaps' \in [Trades -> SUBSET Mishaps]
      /\ mishaps'[t] = mishaps[t] \cup kinds
      /\ \A u \in Trades \ {t} : mishaps'[u] = mishaps[u]
  BY HappensFacts DEF IInv
<1>3. Local(c, t)
  BY <1>1, <1>2 DEF Local, Idle, IInv, TypeOK, Rows
<1>4. Payees(t)' = Payees(t) /\ Payouts(t)' = Payouts(t)
  BY PayoutsStay DEF IInv
<1>5. \A d \in Callers :
        /\ Engaged(d, t)' <=> Engaged(d, t) /\ d # c
        /\ Engaged(d, t)' => call'[d] = call[d]
  BY <1>1 DEF Engaged, Idle
<1>6. Locked(t)' /\ Untouched(t)' /\ Exclusive(t)'
  BY <1>2, <1>4, <1>5 DEF IInv, TradeInv, Locked, Untouched, Exclusive
<1>7. PaidOnce(t)'
  <2> SUFFICES ASSUME mishaps'[t] \cap {"release", "resolve"} = {}
               PROVE  PaidOnce(t)'
    BY DEF PaidOnce
  <2>1. mishaps[t] \cap {"release", "resolve"} = {} /\ "release" \notin kinds
    BY <1>2
  <2>2. ASSUME trade[t].status \in {"released", "disputed"}, ~trade[t].releaseTx,
               \A d \in Callers : ~Engaged(d, t)'
        PROVE  Payouts(t) = 0 /\ points[t] = 0
    <3>1. CASE Engaged(c, t)
      <4>1. call[c].op = "release"
        BY <2>2, <3>1, EngagedFacts DEF Engaged, Standing
      <4>2. call[c].pc # "record"
        BY <2>1, <4>1
      <4> QED
        BY <2>1, <3>1, <4>2 DEF IInv, TradeInv, PaidOnce
    <3>2. CASE ~Engaged(c, t)
      BY <1>5, <2>1, <2>2, <3>2 DEF IInv, TradeInv, PaidOnce
    <3> QED
      BY <3>1, <3>2
  <2> QED
    BY <1>4, <1>5, <2>1, <2>2 DEF IInv, TradeInv, PaidOnce
<1>8. OneParty(t)'
  BY <1>2, <1>4, <1>5 DEF IInv, TradeInv, OneParty
<1>9. SentFirst(t)'
  <2>1. \A d \in Callers : Moving(d, t) /\ call[d].op = "cancel" =>
          (Moving(d, t)' /\ call'[d].op = "cancel") \/ "unrefunded" \in mishaps'[t]
    BY <1>1, <1>2 DEF Moving, IInv, WellFormed
  <2> QED
    BY <1>2, <1>4, <1>5, <2>1 DEF IInv, TradeInv, SentFirst, Lost
<1> QED
  BY <1>3, <1>6, <1>7, <1>8, <1>9, LocalKeeps DEF TradeInv

LEMMA TransferFailsKeeps ==
  ASSUME IInv, NEW c \in Callers, TransferFails(c)
  PROVE  IInv'
<1>1. PICK t \in Trades : t = call[c].trade
  BY DEF IInv, WellFormed, TransferFails
<1> DEFINE kinds == When(call[c].op = "cancel", "unrefunded")
<1>2. /\ call[c].pc \in {"build", "send"} /\ call[c].pc # "idle"
      /\ Happens(t, kinds) /\ kinds \in SUBSET Mishaps
      /\ UNCHANGED <<trade, opening, deposit, pool, mined, paid, points>>
  BY <1>1 DEF TransferFails, tradeVars, walletVars, When, Mishaps
<1>3. CASE call[c].op \in Resolutions
  <2>1. kinds = {}
    BY <1>3 DEF When, Resolutions
  <2>2. UNCHANGED mishaps
    BY <1>2, <2>1 DEF Happens, IInv, TypeOK
  <2>3. call' = [call EXCEPT ![c] = [@ EXCEPT !.pc = "revert"]]
    BY <1>3 DEF TransferFails, Raise, Raised
  <2>4. call \in [Callers -> Calls]
    BY DEF IInv, TypeOK, Calls
  <2>5. /\ call' \in [Callers -> Calls]
        /\ call'[c].pc = "revert" /\ call'[c].op = call[c].op /\ call'[c].trade = call[c].trade
        /\ \A d \in Callers \ {c} : call'[d] = call[d]
    BY <2>3, <2>4 DEF Calls
  <2> QED
    BY <1>1, <1>2, <1>3, <2>2, <2>5, UnsentKeeps
<1>4. CASE call[c].op \notin Resolutions
  <2>1. Return(c)
    BY <1>4 DEF TransferFails, Raise, Raised, Return
  <2>2. call[c].op = "cancel" => "unrefunded" \in kinds
    BY DEF When
  <2> HIDE DEF kinds
  <2> QED
    BY <1>1, <1>2, <2>1, <2>2, GiveUpKeeps
<1> QED
  BY <1>3, <1>4

LEMMA AbortKeeps ==
  ASSUME IInv, NEW c \in Callers, Abort(c)
  PROVE  IInv'
<1>1. PICK t \in Trades : t = call[c].trade
  BY DEF IInv, WellFormed, Abort, At
<1> DEFINE kinds ==
      When(At(c, "record") /\ call[c].op = "release", "release")
      \cup When(call[c].pc \in {"build", "send"} /\ call[c].op = "cancel", "unrefunded")
      \cup When(call[c].op \in Resolutions, "abandoned")
<1>2. /\ Return(c) /\ Happens(t, kinds)
      /\ UNCHANGED <<trade, opening, deposit, pool, mined, paid, points>>
  BY <1>1 DEF Abort, tradeVars, walletVars
<1>3. /\ kinds \in SUBSET Mishaps
      /\ call[c].pc = "record" /\ call[c].op = "release" => "release" \in kinds
      /\ call[c].pc \in {"build", "send"} /\ call[c].op = "cancel" => "unrefunded" \in kinds
  BY DEF When, Mishaps, At
<1> HIDE DEF kinds
<1> QED
  BY <1>1, <1>2, <1>3, GiveUpKeeps

\* Recording a payout: the call found it sent, and is alone or one of several
\* releases.
LEMMA RecordPayoutKeeps ==
  ASSUME IInv, NEW c \in Callers, RecordPayout(c)
  PROVE  IInv'
<1>1. PICK t \in Trades : t = call[c].trade
  BY DEF IInv, WellFormed, RecordPayout, At
<1>2. PICK op \in Operations \ {"cancel"} : op = call[c].op
  BY DEF IInv, WellFormed, RecordPayout, At
<1>3. /\ call[c].pc = "record" /\ Return(c)
      /\ trade' = [trade EXCEPT ![t] = Settled(t, op)]
      /\ points' = IF PayeeOf(op) = "buyer" THEN [points EXCEPT ![t] = @ + 1] ELSE points
      /\ UNCHANGED <<mishaps, opening, deposit, pool, mined, paid>>
  BY <1>1, <1>2 DEF RecordPayout, At, walletVars
<1>4. /\ call' \in [Callers -> Calls] /\ call'[c] = Idle /\ WellFormed(call'[c])
      /\ \A d \in Callers \ {c} : call'[d] = call[d]
  BY <1>3, ReturnFacts
<1>5. /\ trade' \in [Trades -> Rows]
      /\ trade'[t].status = Settlement(op) /\ trade'[t].lockTx = trade[t].lockTx
      /\ trade'[t].releaseTx = TRUE
      /\ \A u \in Trades \ {t} : trade'[u] = trade[u]
  <2>1. trade \in [Trades -> Rows] /\ Settlement(op) \in P2PTradeStatus
    BY DEF IInv, TypeOK, Rows, Settlement, P2PTradeStatus
  <2> QED
    BY <1>3, <2>1 DEF Settled, Rows
<1>6. /\ points' \in [Trades -> Nat] /\ points'[t] \in {points[t], points[t] + 1}
      /\ points[t] \in Nat
      /\ \A u \in Trades \ {t} : points'[u] = points[u]
  <2>1. points \in [Trades -> Nat]
    BY DEF IInv, TypeOK
  <2>2. CASE PayeeOf(op) = "buyer"
    BY <1>3, <2>1, <2>2
  <2>3. CASE PayeeOf(op) # "buyer"
    BY <1>3, <2>1, <2>3
  <2> QED
    BY <2>2, <2>3
<1>7. Local(c, t)
  BY <1>1, <1>3, <1>4, <1>5, <1>6 DEF Local, Idle, IInv, TypeOK
<1>8. Payees(t)' = Payees(t) /\ Payouts(t)' = Payouts(t)
  BY <1>3, PayoutsStay DEF IInv
<1>9. /\ Engaged(c, t) /\ trade[t].lockTx
      /\ \A d \in Callers :
           /\ Engaged(d, t)' <=> Engaged(d, t) /\ d # c
           /\ Engaged(d, t)' => call'[d] = call[d]
  BY <1>1, <1>3, <1>4, EngagedFacts DEF Engaged, Idle
<1>10. \A d \in Callers : Engaged(d, t)' =>
         op = "release" /\ call[d].op = "release" /\ "release" \in mishaps[t]
  BY <1>2, <1>9 DEF IInv, TradeInv, Exclusive
<1>11. Settlement(op) \in {"completed", "cancelled"}
       /\ (op = "release" => Settlement(op) = "completed")
       /\ (PayeeOf(op) = "buyer" <=> Settlement(op) = "completed")
       /\ PayeeOf(op) \in {"buyer", "seller"}
  BY DEF Settlement, PayeeOf
<1>12. Locked(t)' /\ Untouched(t)'
  BY <1>3, <1>5, <1>9, <1>11 DEF IInv, TradeInv, Locked, Untouched
<1>13. Exclusive(t)'
  BY <1>3, <1>5, <1>9, <1>10, <1>11 DEF IInv, TradeInv, Exclusive, Standing
<1>14. PaidOnce(t)'
  BY <1>3, <1>5, <1>6, <1>8, <1>9, <1>10, <1>11 DEF IInv, TradeInv, PaidOnce
<1>15. OneParty(t)'
  BY <1>3, <1>5, <1>8, <1>9, <1>11 DEF IInv, TradeInv, OneParty
<1>16. SentFirst(t)'
  BY <1>2, <1>3, <1>5, <1>8, <1>9, <1>11 DEF IInv, TradeInv, SentFirst, Lost
<1> QED
  BY <1>7, <1>12, <1>13, <1>14, <1>15, <1>16, LocalKeeps DEF TradeInv

\* Reverting a resolution: it was alone, and sent nothing or is doubtful.
LEMMA RevertDisputeKeeps ==
  ASSUME IInv, NEW c \in Callers, RevertDispute(c)
  PROVE  IInv'
<1>1. PICK t \in Trades : t = call[c].trade
  BY DEF IInv, WellFormed, RevertDispute, At
<1>2. /\ call[c].pc = "revert" /\ call[c].op \in Resolutions /\ Return(c)
      /\ trade' = [trade EXCEPT ![t].status = "disputed"]
      /\ UNCHANGED <<mishaps, opening, deposit, pool, mined, paid, points>>
  BY <1>1 DEF IInv, WellFormed, RevertDispute, Reverted, At, tradeVars, walletVars
<1>3. /\ call' \in [Callers -> Calls] /\ call'[c] = Idle /\ WellFormed(call'[c])
      /\ \A d \in Callers \ {c} : call'[d] = call[d]
  BY <1>2, ReturnFacts
<1>4. /\ trade' \in [Trades -> Rows]
      /\ trade'[t].status = "disputed"
      /\ trade'[t].lockTx = trade[t].lockTx /\ trade'[t].releaseTx = trade[t].releaseTx
      /\ \A u \in Trades \ {t} : trade'[u] = trade[u]
  BY <1>2, StatusFacts DEF IInv, P2PTradeStatus
<1>5. Local(c, t)
  BY <1>1, <1>2, <1>3, <1>4 DEF Local, Idle, IInv, TypeOK
<1>6. Payees(t)' = Payees(t) /\ Payouts(t)' = Payouts(t)
  BY <1>2, PayoutsStay DEF IInv
<1>7. Engaged(c, t) /\ trade[t].lockTx
  BY <1>1, <1>2, EngagedFacts
<1>8. \A d \in Callers : ~Engaged(d, t)'
  <2>1. \A d \in Callers \ {c} : ~Engaged(d, t)
    BY <1>2, <1>7 DEF IInv, TradeInv, Exclusive, Resolutions
  <2> QED
    BY <1>3, <2>1 DEF Engaged, Idle
<1>9. Locked(t)' /\ Untouched(t)' /\ Exclusive(t)'
  BY <1>2, <1>4, <1>7, <1>8 DEF IInv, TradeInv, Locked, Untouched, Exclusive
<1>10. PaidOnce(t)'
  BY <1>2, <1>4, <1>6, <1>7, <1>8 DEF IInv, TradeInv, PaidOnce
<1>11. OneParty(t)'
  BY <1>2, <1>4, <1>6, <1>7, <1>8 DEF IInv, TradeInv, OneParty, Resolutions
<1>12. SentFirst(t)'
  BY <1>4, <1>8 DEF SentFirst, Lost
<1> QED
  BY <1>5, <1>9, <1>10, <1>11, <1>12, LocalKeeps DEF TradeInv

-----------------------------------------------------------------------------
(* Steps that change the wallet.                                           *)

\* The node takes the transaction of a call, which then records it, reverts a
\* resolution it must doubt, or ends: as a refund, or in doubt about a release.
LEMMA PoolKeeps ==
  ASSUME IInv, NEW c \in Callers, NEW t \in Trades, t = call[c].trade,
         NEW kinds \in SUBSET Mishaps, Pool(c, kinds),
         call' \in [Callers -> Calls], WellFormed(call'[c]),
         \A d \in Callers \ {c} : call'[d] = call[d],
         call'[c].pc \in {"idle", "record", "revert"},
         call'[c].pc # "idle" => call'[c].trade = t /\ call'[c].op = call[c].op,
         call'[c].pc = "revert" => "resolve" \in kinds,
         call'[c].pc = "idle" => call[c].op = "cancel" \/ "release" \in kinds
  PROVE  IInv'
<1>1. PICK p \in Parties : p = PayeeOf(call[c].op)
  BY DEF PayeeOf, Parties
<1>2. /\ call[c].pc = "send" /\ pool' = [trade |-> t, to |-> p]
      /\ UNCHANGED <<trade, opening, deposit, mined, paid, points>>
  BY <1>1 DEF Pool, At, TransferOf
<1>3. /\ mishaps' \in [Trades -> SUBSET Mishaps]
      /\ \A u \in Trades : mishaps[u] \subseteq mishaps'[u]
      /\ kinds \subseteq mishaps'[t]
  <2>1. mishaps' = [u \in Trades |->
          mishaps[u] \cup When(u \in Replaced(c), "replaced")
                     \cup (IF u = t THEN kinds ELSE {})]
    BY DEF Pool
  <2>2. mishaps \in [Trades -> SUBSET Mishaps]
    BY DEF IInv, TypeOK
  <2> QED
    BY <2>1, <2>2 DEF When, Mishaps
<1>4. TypeOK'
  <2>1. pool' \in Transactions
    BY <1>1, <1>2 DEF Transactions
  <2> QED
    BY <1>2, <1>3, <2>1 DEF IInv, TypeOK, Calls
<1>5. /\ Engaged(c, t) /\ trade[t].lockTx /\ trade[t].status \in Standing(call[c].op)
      /\ trade[t].status \notin {"escrow_locked", "fiat_sent"} /\ call[c].op \in Operations
  BY <1>2, EngagedFacts
<1>6. PoolIsLocked'
  BY <1>2, <1>5 DEF PoolIsLocked
<1>7. /\ \A u \in Trades \ {t} :
           /\ Payees(u)' \subseteq Payees(u)
           /\ Payouts(u)' \in 0..Payouts(u)
           /\ Payees(u)' = Payees(u) \/ "replaced" \in mishaps'[u]
      /\ p \in Payees(t)' /\ Payees(t)' \subseteq Payees(t) \cup {p}
      /\ Payees(t) \subseteq Payees(t)' \/ "replaced" \in mishaps'[t]
      /\ Payouts(t) = 0 => Payouts(t)' = 1
  BY <1>1, <1>4, PoolEffect DEF IInv
<1>8. ASSUME NEW u \in Trades \ {t}
      PROVE  TradeInv(u)'
  <2>1. \A d \in Callers :
          /\ Engaged(d, u)' <=> Engaged(d, u)
          /\ Engaged(d, u) => call'[d].op = call[d].op /\ call'[d].pc = call[d].pc
    BY DEF Engaged
  <2>2. Spared(u)
    BY <1>2, <1>3, <1>7, <2>1 DEF Spared, Lost
  <2> QED
    BY <2>2, SparedKeeps DEF IInv
<1>9. \A d \in Callers :
        /\ Engaged(d, t)' => Engaged(d, t) /\ call'[d].op = call[d].op
        /\ Engaged(d, t)' /\ d # c => call'[d] = call[d]
  BY <1>5 DEF Engaged
<1>10. \A d \in Callers \ {c} : Engaged(d, t) =>
         call[c].op = "release" /\ call[d].op = "release" /\ "release" \in mishaps[t]
  BY <1>5 DEF IInv, TradeInv, Exclusive
<1>11. Locked(t)' /\ Untouched(t)'
  BY <1>2, <1>5 DEF IInv, TradeInv, Locked, Untouched
<1>12. Exclusive(t)'
  BY <1>2, <1>3, <1>9 DEF IInv, TradeInv, Exclusive
<1>13. PaidOnce(t)'
  <2> SUFFICES ASSUME mishaps'[t] \cap {"release", "resolve"} = {}
               PROVE  PaidOnce(t)'
    BY DEF PaidOnce
  <2>1. /\ mishaps[t] \cap {"release", "resolve"} = {}
        /\ "release" \notin kinds /\ "resolve" \notin kinds
    BY <1>3
  <2>2. Payouts(t) = 0 /\ points[t] = 0 /\ ~trade[t].releaseTx
    BY <1>2, <1>5, <2>1 DEF IInv, TradeInv, PaidOnce
  <2>3. \A d \in Callers : Engaged(d, t)' => d = c /\ call'[d].pc = "record"
    BY <1>9, <1>10, <2>1 DEF Engaged
  <2>4. ~Engaged(c, t)' => trade[t].status = "cancelled"
    <3>1. ~Engaged(c, t)' => call[c].op = "cancel"
      BY <2>1 DEF Engaged
    <3> QED
      BY <1>5, <3>1 DEF Standing, Resolutions
  <2> QED
    BY <1>2, <1>7, <2>2, <2>3, <2>4 DEF PaidOnce
<1>14. OneParty(t)'
  <2> SUFFICES ASSUME "resolve" \notin mishaps'[t]
               PROVE  OneParty(t)'
    BY DEF OneParty
  <2>1. "resolve" \notin mishaps[t] /\ "resolve" \notin kinds
    BY <1>3
  <2>2. Payees(t)' \subseteq {p}
    BY <1>1, <1>5, <1>7, <2>1 DEF IInv, TradeInv, OneParty
  <2>3. ~(Parties \subseteq {p})
    BY <1>1 DEF Parties
  <2>4. trade[t].status = "released" => p = "buyer"
    BY <1>1, <1>5 DEF Standing, PayeeOf
  <2>5. trade[t].status # "disputed"
    BY <1>5 DEF Standing
  <2>6. \A d \in Callers : Engaged(d, t)' =>
          p = PayeeOf(call'[d].op) /\ (call'[d].op # "release" => call'[d].pc = "record")
    BY <1>1, <1>9, <1>10, <2>1 DEF Engaged
  <2> QED
    BY <1>2, <2>2, <2>3, <2>4, <2>5, <2>6 DEF OneParty
<1>15. SentFirst(t)'
  <2>1. \A d \in Callers : Engaged(d, t)' => p = PayeeOf(call'[d].op)
    BY <1>1, <1>9, <1>10
  <2> QED
    BY <1>2, <1>3, <1>7, <2>1 DEF IInv, TradeInv, SentFirst, Lost
<1>16. \A d \in Callers : WellFormed(call'[d])
  BY DEF IInv
<1> QED
  BY <1>4, <1>6, <1>8, <1>11, <1>12, <1>13, <1>14, <1>15, <1>16 DEF IInv, TradeInv, WellFormed

LEMMA SendTransferKeeps ==
  ASSUME IInv, NEW c \in Callers, SendTransfer(c)
  PROVE  IInv'
<1>1. Pool(c, {}) /\ call[c].pc = "send"
  BY DEF SendTransfer, Pool, At
<1>2. PICK t \in Trades : t = call[c].trade
  BY <1>1 DEF IInv, WellFormed
<1>3. CASE call[c].op = "cancel" /\ Return(c)
  <2>1. /\ call' \in [Callers -> Calls] /\ WellFormed(call'[c]) /\ call'[c].pc = "idle"
        /\ \A d \in Callers \ {c} : call'[d] = call[d]
    BY <1>3, ReturnFacts DEF Idle
  <2> QED
    BY <1>1, <1>2, <1>3, <2>1, PoolKeeps
<1>4. CASE call[c].op # "cancel" /\ Goto(c, "record")
  <2>1. /\ call' \in [Callers -> Calls]
        /\ call'[c].pc = "record" /\ call'[c].op = call[c].op /\ call'[c].trade = call[c].trade
        /\ \A d \in Callers \ {c} : call'[d] = call[d]
    BY <1>1, <1>4, GotoFacts
  <2>2. WellFormed(call'[c])
    BY <1>1, <1>2, <1>4, <2>1 DEF IInv, WellFormed
  <2> QED
    BY <1>1, <1>2, <2>1, <2>2, PoolKeeps
<1> QED
  BY <1>3, <1>4 DEF SendTransfer

LEMMA LoseAnswerKeeps ==
  ASSUME IInv, NEW c \in Callers, LoseAnswer(c)
  PROVE  IInv'
<1> DEFINE kinds == When(call[c].op = "release", "release")
                    \cup When(call[c].op \in Resolutions, "resolve")
<1>1. /\ Pool(c, kinds) /\ call[c].pc = "send" /\ kinds \in SUBSET Mishaps
      /\ call[c].op = "release" => "release" \in kinds
      /\ call[c].op \in Resolutions => "resolve" \in kinds
  BY DEF LoseAnswer, Pool, At, When, Mishaps
<1>2. PICK t \in Trades : t = call[c].trade
  BY <1>1 DEF IInv, WellFormed
<1> HIDE DEF kinds
<1>3. CASE call[c].op \in Resolutions
  <2>1. call' = [call EXCEPT ![c] = [@ EXCEPT !.pc = "revert"]]
    BY <1>3 DEF LoseAnswer, Raise, Raised
  <2>2. call \in [Callers -> Calls]
    BY DEF IInv, TypeOK, Calls
  <2>3. /\ call' \in [Callers -> Calls]
        /\ call'[c].pc = "revert" /\ call'[c].op = call[c].op /\ call'[c].trade = call[c].trade
        /\ \A d \in Callers \ {c} : call'[d] = call[d]
    BY <2>1, <2>2 DEF Calls
  <2>4. WellFormed(call'[c])
    BY <1>2, <1>3, <2>3 DEF WellFormed, Resolutions, Operations
  <2> QED
    BY <1>1, <1>2, <1>3, <2>3, <2>4, PoolKeeps
<1>4. CASE call[c].op \notin Resolutions
  <2>1. Return(c)
    BY <1>4 DEF LoseAnswer, Raise, Raised, Return
  <2>2. /\ call' \in [Callers -> Calls] /\ WellFormed(call'[c]) /\ call'[c].pc = "idle"
        /\ \A d \in Callers \ {c} : call'[d] = call[d]
    BY <2>1, ReturnFacts DEF Idle
  <2>3. call[c].op \in {"cancel", "release"}
    BY <1>1, <1>4 DEF IInv, WellFormed, Operations, Resolutions
  <2> QED
    BY <1>1, <1>2, <2>2, <2>3, PoolKeeps
<1> QED
  BY <1>3, <1>4

\* What the network does and other services' transfers spare every trade.
LEMMA WalletKeeps ==
  ASSUME IInv, OtherTransfer \/ MinePayout \/ RevertPayout
  PROVE  IInv'
<1>1. UNCHANGED <<trade, opening, deposit, call, points>>
  BY DEF OtherTransfer, MinePayout, RevertPayout
<1>2. TypeOK' /\ PoolIsLocked' /\ \A u \in Trades : mishaps[u] \subseteq mishaps'[u]
  <2>1. CASE OtherTransfer
    <3>1. mishaps' \in [Trades -> SUBSET Mishaps]
          /\ \A u \in Trades : mishaps[u] \subseteq mishaps'[u]
      BY <2>1 DEF OtherTransfer, IInv, TypeOK, When, Mishaps
    <3>2. pool' = OtherTx /\ UNCHANGED <<mined, paid>>
      BY <2>1 DEF OtherTransfer
    <3> QED
      BY <1>1, <3>1, <3>2, P2PAssumption DEF IInv, TypeOK, PoolIsLocked, Transactions, Parties
  <2>2. CASE MinePayout
    <3>1. pool' = NoTx /\ mined' \in 0..MaxMined /\ mishaps' = mishaps
      BY <2>2, P2PAssumption DEF MinePayout, IInv, TypeOK
    <3>2. paid' \in [Trades -> Seq(Parties)]
      <4>1. paid \in [Trades -> Seq(Parties)] /\ pool \in Transactions \cup {OtherTx}
        BY <2>2 DEF MinePayout, IInv, TypeOK
      <4>2. CASE pool = OtherTx
        BY <2>2, <4>1, <4>2 DEF MinePayout
      <4>3. CASE pool # OtherTx
        <5>1. pool.trade \in Trades /\ pool.to \in Parties
          BY <4>1, <4>3 DEF Transactions
        <5>2. Append(paid[pool.trade], pool.to) \in Seq(Parties)
          BY <4>1, <5>1
        <5> QED
          BY <2>2, <4>1, <4>3, <5>1, <5>2 DEF MinePayout
      <4> QED
        BY <4>2, <4>3
    <3> QED
      BY <1>1, <3>1, <3>2, P2PAssumption DEF IInv, TypeOK, PoolIsLocked, Transactions, Parties
  <2>3. CASE RevertPayout
    <3>1. pool' = NoTx /\ mined' \in 0..MaxMined /\ paid' = paid
      BY <2>3, P2PAssumption DEF RevertPayout, IInv, TypeOK
    <3>2. mishaps' \in [Trades -> SUBSET Mishaps]
          /\ \A u \in Trades : mishaps[u] \subseteq mishaps'[u]
      BY <2>3 DEF RevertPayout, Happens, IInv, TypeOK, Mishaps
    <3> QED
      BY <1>1, <3>1, <3>2, P2PAssumption DEF IInv, TypeOK, PoolIsLocked, Transactions, Parties
  <2> QED
    BY <2>1, <2>2, <2>3
<1>3. ASSUME NEW u \in Trades
      PROVE  TradeInv(u)'
  <2>1. /\ Payees(u)' \subseteq Payees(u)
        /\ Payouts(u)' \in 0..Payouts(u)
        /\ Payees(u)' = Payees(u) \/ Lost(u)'
    <3>1. CASE OtherTransfer
      BY <1>2, <3>1, OtherEffect DEF IInv, Lost
    <3>2. CASE MinePayout
      BY <1>2, <3>2, MineEffect, PayoutsNat DEF IInv
    <3>3. CASE RevertPayout
      BY <1>2, <3>3, RevertEffect DEF IInv
    <3> QED
      BY <3>1, <3>2, <3>3
  <2>2. \A d \in Callers : Engaged(d, u)' <=> Engaged(d, u)
    BY <1>1 DEF Engaged
  <2>3. Spared(u)
    BY <1>1, <1>2, <2>1, <2>2 DEF Spared
  <2> QED
    BY <2>3, SparedKeeps DEF IInv
<1> QED
  BY <1>1, <1>2, <1>3 DEF IInv, WellFormed

-----------------------------------------------------------------------------
(* Steps of a conversation, its deposit, and disputes.                     *)

\* A step that changes only t's row, conversation and deposit.
Talk(t) ==
  /\ trade' \in [Trades -> Rows]
  /\ opening' \in [Trades -> {"none", "locking", "received", "open", "over"}]
  /\ deposit' \in [Trades -> {"none", "sent", "in", "reverted"}]
  /\ trade[t].lockTx => trade'[t].lockTx
  /\ \A u \in Trades \ {t} :
       trade'[u] = trade[u] /\ opening'[u] = opening[u] /\ deposit'[u] = deposit[u]
  /\ UNCHANGED <<call, pool, mined, paid, points, mishaps>>

\* Only t's own invariant is left to show for such a step.
LEMMA TalkKeeps ==
  ASSUME IInv, NEW t \in Trades, Talk(t), TradeInv(t)'
  PROVE  IInv'
<1>1. TypeOK'
  BY DEF IInv, TypeOK, Talk, Rows
<1>2. PoolIsLocked'
  BY DEF IInv, PoolIsLocked, Talk, TypeOK, Transactions
<1>3. ASSUME NEW u \in Trades \ {t}
      PROVE  TradeInv(u)'
  <2>1. Payees(u)' = Payees(u) /\ Payouts(u)' \in 0..Payouts(u)
    BY PayoutsStay DEF IInv, Talk
  <2>2. \A d \in Callers : Engaged(d, u)' <=> Engaged(d, u)
    BY DEF Talk, Engaged
  <2>3. Spared(u)
    BY <2>1, <2>2 DEF Talk, Spared
  <2> QED
    BY <2>3, SparedKeeps DEF IInv
<1>4. \A d \in Callers : WellFormed(call[d])'
  BY DEF IInv, Talk, WellFormed
<1> QED
  BY <1>1, <1>2, <1>3, <1>4 DEF IInv

\* A trade with which nothing has happened: its row moves on.
LEMMA QuietKeeps ==
  ASSUME IInv, NEW t \in Trades, Talk(t), Locked(t)',
         ~trade[t].lockTx \/ trade[t].status \in {"escrow_locked", "fiat_sent"},
         trade'[t].status \in {"initiated", "escrow_locked", "fiat_sent", "disputed"},
         trade'[t].releaseTx = trade[t].releaseTx
  PROVE  IInv'
<1>1. Payees(t)' = Payees(t) /\ Payouts(t)' = Payouts(t)
  BY PayoutsStay DEF IInv, Talk
<1>2. /\ \A d \in Callers : ~Engaged(d, t)
      /\ Payouts(t) = 0 /\ Payees(t) = {} /\ points[t] = 0 /\ ~trade[t].releaseTx
  BY DEF IInv, TradeInv, Untouched
<1>3. \A d \in Callers : ~Engaged(d, t)'
  BY <1>2 DEF Talk, Engaged
<1>4. Untouched(t)' /\ Exclusive(t)' /\ PaidOnce(t)' /\ OneParty(t)' /\ SentFirst(t)'
  BY <1>1, <1>2, <1>3
  DEF Talk, Untouched, Exclusive, PaidOnce, OneParty, SentFirst, Lost, Parties
<1> QED
  BY <1>4, TalkKeeps DEF TradeInv

\* The steps of the conversation, the mining of its deposit and open_dispute.
LEMMA ConversationKeeps ==
  ASSUME IInv, NEW t \in Trades, Conversation(t) \/ MineDeposit(t) \/ OpenDispute(t)
  PROVE  IInv'
<1>1. /\ trade \in [Trades -> Rows]
      /\ opening \in [Trades -> {"none", "locking", "received", "open", "over"}]
      /\ deposit \in [Trades -> {"none", "sent", "in", "reverted"}]
      /\ Locked(t)
  BY DEF IInv, TypeOK, Rows, TradeInv
<1>2. CASE StartTrade(t)
  <2>1. PICK known \in BOOLEAN, next \in {"locking", "open"} :
          /\ trade' = [trade EXCEPT ![t].status = "initiated", ![t].seller = known]
          /\ opening' = [opening EXCEPT ![t] = next]
    BY <1>2 DEF StartTrade
  <2>2. opening[t] = "none" /\ UNCHANGED <<deposit, call, pool, mined, paid, points, mishaps>>
    BY <1>2 DEF StartTrade, walletVars
  <2>3. /\ Talk(t) /\ trade'[t].status = "initiated"
        /\ trade'[t].lockTx = trade[t].lockTx /\ trade'[t].releaseTx = trade[t].releaseTx
    <3>1. /\ trade' \in [Trades -> Rows] /\ trade'[t].status = "initiated"
          /\ trade'[t].lockTx = trade[t].lockTx /\ trade'[t].releaseTx = trade[t].releaseTx
          /\ \A u \in Trades \ {t} : trade'[u] = trade[u]
      <4>1. /\ trade' = [u \in Trades |-> trade'[u]]
            /\ trade'[t] = [trade[t] EXCEPT !.status = "initiated", !.seller = known]
            /\ \A u \in Trades \ {t} : trade'[u] = trade[u]
        BY <1>1, <2>1
      <4>2. trade[t] \in Rows
        BY <1>1
      <4>3. /\ trade'[t] \in Rows
            /\ trade'[t].status = "initiated"
            /\ trade'[t].lockTx = trade[t].lockTx /\ trade'[t].releaseTx = trade[t].releaseTx
        BY <4>1, <4>2 DEF Rows, P2PTradeStatus
      <4>4. \A u \in Trades : trade'[u] \in Rows
        BY <1>1, <4>1, <4>3
      <4> QED
        BY <4>1, <4>3, <4>4
    <3>2. /\ opening' \in [Trades -> {"none", "locking", "received", "open", "over"}]
          /\ \A u \in Trades \ {t} : opening'[u] = opening[u]
      BY <1>1, <2>1
    <3> QED
      BY <1>1, <2>2, <3>1, <3>2 DEF Talk
  <2>4. ~trade[t].lockTx /\ Locked(t)'
    BY <1>1, <2>1, <2>2, <2>3 DEF Locked
  <2> QED
    BY <2>3, <2>4, QuietKeeps
<1>3. CASE RecordLock(t)
  <2>1. /\ opening[t] = "received"
        /\ trade' = [trade EXCEPT ![t].status = "escrow_locked", ![t].lockTx = TRUE]
        /\ opening' = [opening EXCEPT ![t] = "open"]
        /\ UNCHANGED <<deposit, call, pool, mined, paid, points, mishaps>>
    BY <1>3 DEF RecordLock, walletVars
  <2>2. /\ Talk(t) /\ trade'[t].status = "escrow_locked" /\ trade'[t].lockTx = TRUE
        /\ trade'[t].releaseTx = trade[t].releaseTx
    <3>1. /\ trade' \in [Trades -> Rows] /\ trade'[t].status = "escrow_locked"
          /\ trade'[t].lockTx = TRUE /\ trade'[t].releaseTx = trade[t].releaseTx
          /\ \A u \in Trades \ {t} : trade'[u] = trade[u]
      <4>1. /\ trade' = [u \in Trades |-> trade'[u]]
            /\ trade'[t] = [trade[t] EXCEPT !.status = "escrow_locked", !.lockTx = TRUE]
            /\ \A u \in Trades \ {t} : trade'[u] = trade[u]
        BY <1>1, <2>1
      <4>2. trade[t] \in Rows
        BY <1>1
      <4>3. /\ trade'[t] \in Rows
            /\ trade'[t].status = "escrow_locked"
            /\ trade'[t].lockTx = TRUE /\ trade'[t].releaseTx = trade[t].releaseTx
        BY <4>1, <4>2 DEF Rows, P2PTradeStatus
      <4>4. \A u \in Trades : trade'[u] \in Rows
        BY <1>1, <4>1, <4>3
      <4> QED
        BY <4>1, <4>3, <4>4
    <3>2. /\ opening' \in [Trades -> {"none", "locking", "received", "open", "over"}]
          /\ \A u \in Trades \ {t} : opening'[u] = opening[u]
      BY <1>1, <2>1
    <3> QED
      BY <1>1, <2>1, <3>1, <3>2 DEF Talk
  <2>3. ~trade[t].lockTx /\ Locked(t)'
    BY <1>1, <2>1, <2>2 DEF Locked
  <2> QED
    BY <2>2, <2>3, QuietKeeps
<1>4. CASE MarkFiatSent(t) /\ trade[t].status \in PreSettlement
  <2>1. /\ opening[t] = "open"
        /\ trade' = [trade EXCEPT ![t].status = "fiat_sent"]
        /\ opening' = [opening EXCEPT ![t] = "over"]
        /\ UNCHANGED <<deposit, call, pool, mined, paid, points, mishaps>>
    BY <1>4 DEF MarkFiatSent, walletVars
  <2>2. /\ Talk(t) /\ trade'[t].status = "fiat_sent" /\ trade'[t].lockTx = trade[t].lockTx
        /\ trade'[t].releaseTx = trade[t].releaseTx
    BY <1>1, <2>1 DEF Talk, Rows, P2PTradeStatus
  <2>3. Locked(t)' /\ (~trade[t].lockTx \/ trade[t].status = "escrow_locked")
    BY <1>1, <1>4, <2>1, <2>2 DEF Locked, PreSettlement
  <2> QED
    BY <2>2, <2>3, QuietKeeps
<1>5. CASE OpenDispute(t)
  <2>1. /\ trade[t].lockTx /\ trade[t].status \in {"escrow_locked", "fiat_sent"}
        /\ trade' = [trade EXCEPT ![t].status = "disputed"]
        /\ UNCHANGED <<opening, deposit, call, pool, mined, paid, points, mishaps>>
    BY <1>5 DEF OpenDispute, Disputable, Escrowed, tradeVars, walletVars
  <2>2. /\ Talk(t) /\ trade'[t].status = "disputed" /\ trade'[t].lockTx = trade[t].lockTx
        /\ trade'[t].releaseTx = trade[t].releaseTx
    BY <1>1, <2>1 DEF Talk, Rows, P2PTradeStatus
  <2>3. Locked(t)'
    BY <1>1, <2>1, <2>2 DEF Locked
  <2> QED
    BY <2>1, <2>2, <2>3, QuietKeeps
<1>6. CASE \/ SendDeposit(t) \/ DepositReceipt(t) \/ LockRaises(t) \/ MineDeposit(t)
           \/ MarkFiatSent(t) /\ trade[t].status \notin PreSettlement
  <2>1. UNCHANGED <<trade, call, pool, mined, paid, points, mishaps>>
    BY <1>6 DEF SendDeposit, DepositReceipt, LockRaises, MineDeposit, MarkFiatSent, walletVars
  <2>2. /\ opening' \in [Trades -> {"none", "locking", "received", "open", "over"}]
        /\ deposit' \in [Trades -> {"none", "sent", "in", "reverted"}]
        /\ \A u \in Trades \ {t} : opening'[u] = opening[u] /\ deposit'[u] = deposit[u]
        /\ deposit[t] = "in" => deposit'[t] = "in"
        /\ \/ opening'[t] \in {opening[t], "over"}
           \/ opening[t] = "locking" /\ opening'[t] = "received" /\ deposit[t] = "in"
    BY <1>1, <1>6 DEF SendDeposit, DepositReceipt, LockRaises, MineDeposit, MarkFiatSent
  <2>3. Talk(t)
    BY <1>1, <2>1, <2>2 DEF Talk
  <2>4. Payees(t)' = Payees(t) /\ Payouts(t)' \in 0..Payouts(t)
    BY <2>1, PayoutsStay DEF IInv
  <2>5. \A d \in Callers : Engaged(d, t)' <=> Engaged(d, t)
    BY <2>1 DEF Engaged
  <2>6. Spared(t)
    BY <2>1, <2>2, <2>4, <2>5 DEF Spared
  <2> QED
    BY <2>3, <2>6, SparedKeeps, TalkKeeps DEF IInv
<1> QED
  BY <1>2, <1>3, <1>4, <1>5, <1>6 DEF Conversation

-----------------------------------------------------------------------------
(* The theorems.                                                           *)

\* No trade has begun.
LEMMA InitIInv == Init => IInv
<1> SUFFICES ASSUME Init
             PROVE  IInv
  OBVIOUS
<1>1. TypeOK
  <2>1. NoRow \in Rows /\ Idle \in Calls /\ <<>> \in Seq(Parties) /\ 0 \in 0..MaxMined
    BY P2PAssumption DEF NoRow, Rows, Idle, Calls
  <2> QED
    BY <2>1 DEF Init, TypeOK, Rows, Calls
<1>2. pool \notin Transactions
  BY P2PAssumption DEF Init, Transactions, Parties
<1>3. ASSUME NEW t \in Trades
      PROVE  TradeInv(t)
  <2>1. /\ trade[t] = NoRow /\ opening[t] = "none" /\ paid[t] = <<>> /\ points[t] = 0
        /\ mishaps[t] = {} /\ \A c \in Callers : call[c] = Idle
    BY <1>3 DEF Init
  <2>2. \A c \in Callers : ~Engaged(c, t)
    BY <2>1, P2PAssumption DEF Engaged, Idle
  <2>3. PaidTo(t) = {} /\ Len(paid[t]) = 0
    BY <2>1 DEF PaidTo
  <2>4. Payees(t) = {} /\ Payouts(t) = 0
    BY <1>1, <1>2, <2>3, PayoutsNow DEF Pending
  <2>5. Locked(t) /\ Untouched(t) /\ Exclusive(t) /\ SentFirst(t)
    BY <2>1, <2>2, <2>4 DEF Locked, Untouched, Exclusive, SentFirst, Lost, NoRow
  <2>6. PaidOnce(t) /\ OneParty(t)
    BY <2>1, <2>2, <2>4 DEF PaidOnce, OneParty, NoRow, Parties
  <2> QED
    BY <2>5, <2>6 DEF TradeInv
<1>4. \A c \in Callers : WellFormed(call[c])
  BY DEF Init, WellFormed, Idle
<1> QED
  BY <1>1, <1>2, <1>3, <1>4 DEF IInv, PoolIsLocked

\* Stuttering.
LEMMA StutterIInv ==
  ASSUME IInv, UNCHANGED vars
  PROVE  IInv'
<1>1. TypeOK' /\ PoolIsLocked' /\ \A c \in Callers : WellFormed(call[c])'
  BY DEF IInv, vars, TypeOK, PoolIsLocked, WellFormed
<1>2. ASSUME NEW u \in Trades
      PROVE  TradeInv(u)'
  <2>1. Payees(u)' = Payees(u) /\ Payouts(u)' \in 0..Payouts(u)
    BY PayoutsStay DEF IInv, vars
  <2>2. \A d \in Callers : Engaged(d, u)' <=> Engaged(d, u)
    BY DEF vars, Engaged
  <2>3. Spared(u)
    BY <2>1, <2>2 DEF vars, Spared
  <2> QED
    BY <2>3, SparedKeeps DEF IInv
<1> QED
  BY <1>1, <1>2 DEF IInv

\* Every step keeps the invariant.
LEMMA NextIInv == IInv /\ [Next]_vars => IInv'
<1> SUFFICES ASSUME IInv, [Next]_vars
             PROVE  IInv'
  OBVIOUS
<1>1. CASE \E t \in Trades : Conversation(t) \/ MineDeposit(t) \/ OpenDispute(t)
  BY <1>1, ConversationKeeps
<1>2. CASE \E c \in Callers, t \in Trades : Command(c, t)
  BY <1>2, ReserveForReleaseKeeps, ReadForCancelKeeps, ReserveFromDisputeKeeps DEF Command
<1>3. CASE \E c \in Callers : Proceed(c)
  BY <1>3, ReserveForCancelKeeps, OverwriteCancelledKeeps, BuildTransferKeeps,
     TransferFailsKeeps, SendTransferKeeps, LoseAnswerKeeps, RecordPayoutKeeps,
     RevertDisputeKeeps DEF Proceed
<1>4. CASE \E c \in Callers : Abort(c)
  BY <1>4, AbortKeeps
<1>5. CASE OtherTransfer \/ MinePayout \/ RevertPayout
  BY <1>5, WalletKeeps
<1>6. CASE UNCHANGED vars
  BY <1>6, StutterIInv
<1> QED
  BY <1>1, <1>2, <1>3, <1>4, <1>5, <1>6 DEF Next

\* The invariant holds in every behaviour.
LEMMA EscrowInvariant == Spec => []IInv
  BY InitIInv, NextIInv, PTL DEF Spec

\* The rows, the calls, the wallet and the histories keep their types: no
\* interleaving of calls leaves a status or a caller outside its set.
THEOREM EscrowTypeCorrect == Spec => []TypeOK
<1>1. IInv => TypeOK
  BY DEF IInv
<1> QED
  BY <1>1, EscrowInvariant, PTL

\* A trade is paid out and rewarded once, unless two releases of it ran at once,
\* or a release or a resolution was sent and its answer lost or never recorded.
THEOREM EscrowSettledOnce == Spec => []SettledOnce
<1>1. IInv => SettledOnce
  BY DEF IInv, TradeInv, PaidOnce, SettledOnce
<1> QED
  BY <1>1, EscrowInvariant, PTL

\* Buyer and seller are both paid only after a doubtful resolution.
THEOREM EscrowOneParty == Spec => []OnePartyIsPaid
<1>1. IInv => OnePartyIsPaid
  BY DEF IInv, TradeInv, OneParty, OnePartyIsPaid
<1> QED
  BY <1>1, EscrowInvariant, PTL

\* While a trade is disputed or being resolved only a resolution moves its funds.
THEOREM EscrowDisputeFreezes == Spec => []DisputeFreezes
<1>1. IInv => DisputeFreezes
  <2> SUFFICES ASSUME IInv, NEW c \in Callers, NEW t \in Trades,
                      trade[t].status \in {"disputed", "resolving"}, Moving(c, t)
               PROVE  call[c].op \in Resolutions
    BY DEF DisputeFreezes
  <2>1. Engaged(c, t)
    BY DEF Moving, Engaged
  <2> QED
    BY <2>1 DEF IInv, TradeInv, Exclusive, Standing
<1> QED
  BY <1>1, EscrowInvariant, PTL

\* A completed row stands for a payout to the buyer, mined or pending, that was
\* not replaced and did not revert.
THEOREM EscrowCompletedIsPaid == Spec => []CompletedIsPaid
<1>1. IInv => CompletedIsPaid
  BY DEF IInv, TradeInv, SentFirst, Lost, CompletedIsPaid
<1> QED
  BY <1>1, EscrowInvariant, PTL

\* A cancelled trade with funds in escrow is refunded, is being refunded, or is
\* one of the known ways to leave the funds behind.
THEOREM EscrowCancelledIsRefunded == Spec => []CancelledIsRefunded
<1>1. IInv => CancelledIsRefunded
  BY DEF IInv, TradeInv, SentFirst, Lost, CancelledIsRefunded
<1> QED
  BY <1>1, EscrowInvariant, PTL

-----------------------------------------------------------------------------
(* The refinement of EscrowAccounts.                                       *)

\* The service has lost track of a payment of t.
InDoubt(t) == mishaps[t] \cap {"release", "resolve"} # {}

\* Steps that change no money and no doubt.
LEMMA AccountsStay ==
  ASSUME UNCHANGED paid,
         \A u \in Trades : (deposit'[u] = "in" <=> deposit[u] = "in")
                         /\ (InDoubt(u)' <=> InDoubt(u))
  PROVE  UNCHANGED Accounts!vars
  BY DEF Accounts!vars, InDoubt

\* Steps after which at most one trade, whose escrow is funded, is in doubt anew.
LEMMA AccountsDoubt ==
  ASSUME UNCHANGED <<paid, deposit>>, NEW t \in Trades, deposit[t] = "in",
         mishaps[t] \subseteq mishaps'[t],
         \A u \in Trades \ {t} : InDoubt(u)' <=> InDoubt(u)
  PROVE  [Accounts!Next]_(Accounts!vars)
<1>1. InDoubt(t) => InDoubt(t)'
  BY DEF InDoubt
<1>2. CASE InDoubt(t)' <=> InDoubt(t)
  BY <1>2, AccountsStay
<1>3. CASE InDoubt(t)' /\ ~InDoubt(t)
  <2>1. {u \in Trades : InDoubt(u)}' = {u \in Trades : InDoubt(u)} \cup {t}
    BY <1>3
  <2>2. Accounts!Doubt(t)
    BY <2>1 DEF Accounts!Doubt, InDoubt
  <2> QED
    BY <2>2 DEF Accounts!Next
<1> QED
  BY <1>1, <1>2, <1>3

\* The node's taking a transaction casts doubt only through the kinds it notes.
LEMMA PoolDoubt ==
  ASSUME IInv, NEW c \in Callers, NEW t \in Trades, t = call[c].trade,
         NEW kinds \in SUBSET Mishaps, Pool(c, kinds)
  PROVE  /\ UNCHANGED <<paid, deposit>> /\ deposit[t] = "in"
         /\ mishaps[t] \subseteq mishaps'[t]
         /\ \A u \in Trades \ {t} : InDoubt(u)' <=> InDoubt(u)
         /\ kinds = {} => (InDoubt(t)' <=> InDoubt(t))
<1>1. mishaps' = [u \in Trades |->
        mishaps[u] \cup When(u \in Replaced(c), "replaced")
                   \cup (IF u = t THEN kinds ELSE {})]
  BY DEF Pool
<1>2. trade[t].lockTx
  BY EngagedFacts DEF Pool, At
<1> QED
  BY <1>1, <1>2 DEF Pool, IInv, TradeInv, Locked, InDoubt, When

\* Mining a payout pays from a funded escrow, once unless in doubt.
LEMMA MinePays ==
  ASSUME IInv, IInv', MinePayout
  PROVE  [Accounts!Next]_(Accounts!vars)
<1>1. UNCHANGED <<deposit, mishaps>> /\ pool \in Transactions \cup {OtherTx}
  BY DEF MinePayout, IInv, TypeOK
<1>2. CASE pool = OtherTx
  BY <1>1, <1>2, AccountsStay DEF MinePayout, InDoubt
<1>3. CASE pool # OtherTx
  <2>1. PICK t \in Trades, p \in Parties : t = pool.trade /\ p = pool.to
    BY <1>1, <1>3 DEF Transactions
  <2>2. paid' = [paid EXCEPT ![t] = Append(@, p)]
    BY <1>3, <2>1 DEF MinePayout
  <2>3. deposit[t] = "in"
    BY <1>1, <1>3, <2>1 DEF IInv, PoolIsLocked, TradeInv, Locked
  <2>4. InDoubt(t) \/ paid[t] = <<>>
    <3> SUFFICES ASSUME ~InDoubt(t)
                 PROVE  paid[t] = <<>>
      OBVIOUS
    <3>1. Payouts(t) <= 1
      BY DEF IInv, TradeInv, PaidOnce, InDoubt
    <3>2. Pending(t)
      BY <1>1, <1>3, <2>1 DEF Pending
    <3>3. Len(paid[t]) \in Nat /\ Payouts(t) = Len(paid[t]) + 1 /\ paid[t] \in Seq(Parties)
      BY <3>2, PayoutsNow DEF IInv, TypeOK
    <3>4. Len(paid[t]) = 0
      BY <3>1, <3>3
    <3> QED
      BY <3>3, <3>4
  <2>5. Accounts!Pay(t, p)
    BY <1>1, <2>2, <2>3, <2>4 DEF Accounts!Pay, InDoubt
  <2> QED
    BY <2>1, <2>5 DEF Accounts!Next
<1> QED
  BY <1>1, <1>2, <1>3

\* Every step of a trade is a step of its account or changes nothing of it.
LEMMA StepImplements ==
  ASSUME IInv, IInv', [Next]_vars
  PROVE  [Accounts!Next]_(Accounts!vars)
<1>1. ASSUME NEW t \in Trades, MineDeposit(t)
      PROVE  [Accounts!Next]_(Accounts!vars)
  <2>1. /\ deposit[t] = "sent" /\ UNCHANGED <<paid, mishaps>>
        /\ \A u \in Trades \ {t} : deposit'[u] = deposit[u]
    BY <1>1 DEF MineDeposit, walletVars, IInv, TypeOK
  <2>2. CASE deposit'[t] = "in"
    <3>1. {u \in Trades : deposit'[u] = "in"} = {u \in Trades : deposit[u] = "in"} \cup {t}
      BY <2>1, <2>2
    <3>2. Accounts!Deposit(t)
      BY <2>1, <3>1 DEF Accounts!Deposit
    <3> QED
      BY <3>2 DEF Accounts!Next
  <2>3. CASE deposit'[t] # "in"
    BY <2>1, <2>3, AccountsStay DEF InDoubt
  <2> QED
    BY <2>2, <2>3
<1>2. ASSUME NEW t \in Trades, Conversation(t) \/ OpenDispute(t)
      PROVE  [Accounts!Next]_(Accounts!vars)
  <2>1. UNCHANGED <<paid, mishaps>>
    BY <1>2 DEF Conversation, StartTrade, SendDeposit, DepositReceipt, LockRaises, RecordLock,
                MarkFiatSent, OpenDispute, tradeVars, walletVars
  <2>2. \A u \in Trades : deposit'[u] = "in" <=> deposit[u] = "in"
    BY <1>2 DEF Conversation, StartTrade, SendDeposit, DepositReceipt, LockRaises, RecordLock,
                MarkFiatSent, OpenDispute, tradeVars, IInv, TypeOK
  <2> QED
    BY <2>1, <2>2, AccountsStay DEF InDoubt
<1>3. ASSUME NEW c \in Callers, NEW t \in Trades, ReserveForRelease(c, t)
      PROVE  [Accounts!Next]_(Accounts!vars)
  <2>1. trade[t].lockTx /\ UNCHANGED <<paid, deposit>>
    BY <1>3 DEF ReserveForRelease, Releasable, Escrowed, tradeVars, walletVars
  <2>2. deposit[t] = "in"
    BY <2>1 DEF IInv, TradeInv, Locked
  <2>3. /\ mishaps[t] \subseteq mishaps'[t]
        /\ \A u \in Trades \ {t} : mishaps'[u] = mishaps[u]
    <3>1. PICK kinds \in SUBSET Mishaps : Happens(t, kinds)
      BY <1>3 DEF ReserveForRelease, When, Mishaps
    <3> QED
      BY <3>1, HappensFacts DEF IInv
  <2> QED
    BY <2>1, <2>2, <2>3, AccountsDoubt DEF InDoubt
<1>4. ASSUME NEW c \in Callers, NEW t \in Trades,
             ReadForCancel(c, t) \/ \E op \in Resolutions : ReserveFromDispute(c, t, op)
      PROVE  [Accounts!Next]_(Accounts!vars)
  <2>1. UNCHANGED <<paid, deposit, mishaps>>
    BY <1>4 DEF ReadForCancel, ReserveFromDispute, tradeVars, walletVars
  <2> QED
    BY <2>1, AccountsStay DEF InDoubt
<1>5. ASSUME NEW c \in Callers,
             ReserveForCancel(c) \/ BuildTransfer(c) \/ RecordPayout(c) \/ RevertDispute(c)
      PROVE  [Accounts!Next]_(Accounts!vars)
  <2>1. UNCHANGED <<paid, deposit, mishaps>>
    BY <1>5 DEF ReserveForCancel, BuildTransfer, RecordPayout, RevertDispute, tradeVars,
                walletVars
  <2> QED
    BY <2>1, AccountsStay DEF InDoubt
<1>6. ASSUME NEW c \in Callers, OverwriteCancelled(c) \/ TransferFails(c)
      PROVE  [Accounts!Next]_(Accounts!vars)
  <2>1. UNCHANGED <<paid, deposit>>
    BY <1>6 DEF OverwriteCancelled, TransferFails, tradeVars, walletVars
  <2>2. \A u \in Trades : InDoubt(u)' <=> InDoubt(u)
    <3>1. PICK kinds \in {{}, {"unrefunded"}} : Happens(call[c].trade, kinds)
      BY <1>6 DEF OverwriteCancelled, TransferFails, When
    <3> QED
      BY <3>1 DEF Happens, InDoubt, IInv, TypeOK
  <2> QED
    BY <2>1, <2>2, AccountsStay
<1>7. ASSUME NEW c \in Callers, SendTransfer(c)
      PROVE  [Accounts!Next]_(Accounts!vars)
  <2>1. Pool(c, {}) /\ call[c].trade \in Trades
    BY <1>7 DEF SendTransfer, Pool, At, IInv, WellFormed
  <2> QED
    BY <2>1, PoolDoubt, AccountsStay
<1>8. ASSUME NEW c \in Callers, LoseAnswer(c)
      PROVE  [Accounts!Next]_(Accounts!vars)
  <2>1. PICK kinds \in SUBSET Mishaps : Pool(c, kinds)
    BY <1>8 DEF LoseAnswer, When, Mishaps
  <2>2. PICK t \in Trades : t = call[c].trade
    BY <2>1 DEF Pool, At, IInv, WellFormed
  <2> QED
    BY <2>1, <2>2, PoolDoubt, AccountsDoubt
<1>9. ASSUME NEW c \in Callers, Abort(c)
      PROVE  [Accounts!Next]_(Accounts!vars)
  <2>1. PICK t \in Trades : t = call[c].trade
    BY <1>9 DEF Abort, At, IInv, WellFormed
  <2>2. /\ UNCHANGED <<paid, deposit>>
        /\ mishaps[t] \subseteq mishaps'[t]
        /\ \A u \in Trades \ {t} : mishaps'[u] = mishaps[u]
    BY <1>9, <2>1 DEF Abort, Happens, tradeVars, walletVars, IInv, TypeOK
  <2>3. CASE call[c].pc = "record"
    <3>1. trade[t].lockTx
      BY <2>1, <2>3, EngagedFacts
    <3>2. deposit[t] = "in"
      BY <3>1 DEF IInv, TradeInv, Locked
    <3> QED
      BY <2>2, <3>2, AccountsDoubt DEF InDoubt
  <2>4. CASE call[c].pc # "record"
    <3>1. PICK kinds \in SUBSET {"unrefunded", "abandoned"} : Happens(t, kinds)
      BY <1>9, <2>1, <2>4 DEF Abort, When, At
    <3>2. InDoubt(t)' <=> InDoubt(t)
      BY <3>1 DEF Happens, InDoubt, IInv, TypeOK
    <3> QED
      BY <2>2, <3>2, AccountsStay DEF InDoubt
  <2> QED
    BY <2>3, <2>4
<1>10. ASSUME OtherTransfer
       PROVE  [Accounts!Next]_(Accounts!vars)
  <2>1. UNCHANGED <<paid, deposit>>
    BY <1>10 DEF OtherTransfer
  <2>2. \A u \in Trades : InDoubt(u)' <=> InDoubt(u)
    BY <1>10 DEF OtherTransfer, When, InDoubt
  <2> QED
    BY <2>1, <2>2, AccountsStay
<1>11. ASSUME RevertPayout
       PROVE  [Accounts!Next]_(Accounts!vars)
  <2>1. UNCHANGED <<paid, deposit>>
    BY <1>11 DEF RevertPayout
  <2>2. \A u \in Trades : InDoubt(u)' <=> InDoubt(u)
    BY <1>11 DEF RevertPayout, Happens, InDoubt, IInv, TypeOK
  <2> QED
    BY <2>1, <2>2, AccountsStay
<1>12. ASSUME UNCHANGED vars
       PROVE  [Accounts!Next]_(Accounts!vars)
  BY <1>12, AccountsStay DEF vars, InDoubt
<1> QED
  BY <1>1, <1>2, <1>3, <1>4, <1>5, <1>6, <1>7, <1>8, <1>9, <1>10, <1>11, <1>12,
     MinePays
  DEF Next, Command, Proceed

\* The escrow account of EscrowAccounts is implemented: money leaves a trade only
\* after it came in, and once unless the service lost track of a payout.
THEOREM EscrowImplementsAccounts == Spec => ImplementsAccounts
<1>1. Init => Accounts!Init
  BY DEF Init, Accounts!Init
<1>2. IInv /\ IInv' /\ [Next]_vars => [Accounts!Next]_(Accounts!vars)
  BY StepImplements
<1> QED
  BY <1>1, <1>2, EscrowInvariant, PTL DEF Spec, ImplementsAccounts, Accounts!Spec

=============================================================================
