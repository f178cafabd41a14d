---------------------------- MODULE OrdersProofs ----------------------------
(***************************************************************************)
(* Proofs that automated orders keep the promises of Orders for any number *)
(* of loops, executions, hours and faults: one broadcast per idempotency   *)
(* key whatever the number of loops, and, with a single loop, one swap of  *)
(* a limit order and an honest count of a DCA order's executions.          *)
(***************************************************************************)
EXTENDS Orders, FiniteSetTheorems, TLAPS

-----------------------------------------------------------------------------
(* The inductive invariant: any number of loops.                           *)

\* The program counters at which a loop has no order at hand.
Resting == {"idle", "prices", "dues"}

\* The program counters from which a swap may be recorded.
Past == {"submit", "refetch", "record", "stats"}

\* Between orders a loop remembers nothing; at an order it has one of the keys.
Shaped(x) ==
  /\ x.pc \in Resting => x.order = "none" /\ x.slot = 0 /\ x.hour = 0
  /\ x.pc \notin Resting => [order |-> x.order, slot |-> x.slot, hour |-> x.hour] \in Keys
  /\ x.pc = "stats" => x.order = "dca"

AtHand == \A l \in Loops : Shaped(loop[l])

\* A loop in front of the provider inserted the row of its key, alone, and
\* nothing was sent for it; nothing is sent without a row.
Provision ==
  /\ \A k \in Keys : sent[k] <= 1 /\ (swap[k] = "none" => sent[k] = 0)
  /\ \A l \in Loops : loop[l].pc = "provider" => swap[Key(l)] # "none" /\ sent[Key(l)] = 0
  /\ \A l, m \in Loops :
       loop[l].pc = "provider" /\ loop[m].pc = "provider" /\ Key(l) = Key(m) => l = m

\* What is about to be recorded, and what is called submitted, was sent.
SentFirst ==
  /\ \A l \in Loops : loop[l].pc \in Past => sent[Key(l)] > 0
  /\ \A k \in Keys : swap[k] \in Hashed => sent[k] > 0

-----------------------------------------------------------------------------
(* The inductive invariant: a single loop l.                               *)

NoneSent == \A k \in LimitKeys : sent[k] = 0

\* The limit order is taken up once: while it is pending, and until its swap is
\* in front of the provider, nothing was sent for it; what is sent is sent for
\* the key at hand.
LimitOnce(l) ==
  /\ limit = "pending" => NoneSent /\ loop[l].order # "limit"
  /\ loop[l].pc = "prices" => NoneSent /\ limit \in {"pending", "cancelled"}
  /\ loop[l].order = "limit" =>
       /\ limit \in {"triggered", "cancelled"}
       /\ loop[l].pc \in {"quote", "check", "insert", "provider"} => NoneSent
       /\ \A k \in LimitKeys : sent[k] > 0 => k = Key(l)
       /\ loop[l].pc = "raised" /\ sent[Key(l)] > 0 => swap[Key(l)] \in FailedStatus \/ faults > 0
  /\ \A k1, k2 \in LimitKeys : sent[k1] > 0 /\ sent[k2] > 0 => k1 = k2
  /\ limit = "failed" => \A k \in LimitKeys : sent[k] > 0 => swap[k] \in FailedStatus \/ faults > 0

\* The loop is between sending a DCA's swap and the end of its record.
Recording(l) ==
  loop[l].order = "dca" /\ loop[l].pc \in {"submit", "refetch", "markFailed", "record", "stats"}

\* Swaps that were sent, did not fail and will not be counted as things stand.
Lost(l) ==
  {k \in DcaKeys \ counted :
     sent[k] > 0 /\ swap[k] \notin FailedStatus /\ ~(Recording(l) /\ k = Key(l))}

\* The swap at hand was confirming too early and is about to be lost.
Early(l) == Recording(l) /\ loop[l].pc = "refetch" /\ swap[Key(l)] = "confirming"

\* The count at hand is the one in the key, and every lost swap cost a fault.
CountedOnce(l) ==
  /\ IsFiniteSet(counted) /\ dca.n = Cardinality(counted)
  /\ \A k \in counted : k.slot < dca.n
  /\ dca.n <= MaxExecutions
  /\ loop[l].order = "dca" => loop[l].slot = dca.n
  /\ loop[l].pc = "stats" => loop[l].count = dca.n
  /\ loop[l].pc = "refetch" => swap[Key(l)] \in {"submitted", "confirming"} \cup FailedStatus
  /\ IsFiniteSet(Lost(l))
  /\ Cardinality(Lost(l)) <= faults
  /\ Early(l) => Cardinality(Lost(l)) < faults

\* What holds of any number of loops, and what holds of a single one.
BInv == TypeOK /\ AtHand /\ Provision /\ SentFirst /\ ExecutedIsSent

IInv ==
  /\ BInv
  /\ \A l \in Loops : loops = {l} => LimitOnce(l) /\ (whole => CountedOnce(l))

-----------------------------------------------------------------------------
(* Steps of a loop.                                                        *)

PCs == {"idle", "prices", "dues", "quote", "check", "insert", "provider", "submit", "refetch",
        "markFailed", "record", "stats", "raised"}

LoopRecords == [pc : PCs, order : {"none", "limit", "dca"}, slot : 0..(MaxExecutions - 1),
                hour : Hours, count : Nat]

\* A step of l: the other loops stay.
Moves(l) ==
  /\ loop' \in [Loops -> LoopRecords]
  /\ \A m \in Loops \ {l} : loop'[m] = loop[m]

\* A step that replaces the record of l by another one.
LEMMA MovesFacts ==
  ASSUME TypeOK, NEW l \in Loops, NEW x \in LoopRecords, loop' = [loop EXCEPT ![l] = x]
  PROVE  Moves(l) /\ loop'[l] = x
<1>1. loop \in [Loops -> LoopRecords]
  BY DEF TypeOK, LoopRecords, PCs
<1> QED
  BY <1>1 DEF Moves

\* What Goto does to the loops.
LEMMA GotoFacts ==
  ASSUME TypeOK, NEW l \in Loops, NEW pc \in PCs, Goto(l, pc)
  PROVE  /\ Moves(l)
         /\ loop'[l].pc = pc /\ loop'[l].order = loop[l].order
         /\ loop'[l].slot = loop[l].slot /\ loop'[l].hour = loop[l].hour
         /\ loop'[l].count = loop[l].count
         /\ \A m \in Loops : Key(m)' = Key(m)
<1>1. loop \in [Loops -> LoopRecords]
  BY DEF TypeOK, LoopRecords, PCs
<1>2. /\ Moves(l)
      /\ loop'[l].pc = pc /\ loop'[l].order = loop[l].order
      /\ loop'[l].slot = loop[l].slot /\ loop'[l].hour = loop[l].hour
      /\ loop'[l].count = loop[l].count
  BY <1>1 DEF Goto, Moves, LoopRecords
<1> QED
  BY <1>2 DEF Key, Moves

\* What the end of an order does to the loops.
LEMMA LeaveFacts ==
  ASSUME TypeOK, NEW l \in Loops,
         Leave(l) \/ loop' = [loop EXCEPT ![l] = IdleLoop]
  PROVE  /\ Moves(l)
         /\ loop'[l].pc \in {"dues", "idle"} /\ loop'[l].order = "none"
         /\ loop'[l].slot = 0 /\ loop'[l].hour = 0 /\ loop'[l].count = 0
         /\ Shaped(loop'[l])
         /\ \A m \in Loops \ {l} : Key(m)' = Key(m)
<1>1. loop \in [Loops -> LoopRecords]
  BY DEF TypeOK, LoopRecords, PCs
<1>2. PICK pc \in {"dues", "idle"} : loop' = [loop EXCEPT ![l] = [IdleLoop EXCEPT !.pc = pc]]
  BY DEF Leave, IdleLoop
<1>3. [IdleLoop EXCEPT !.pc = pc] \in LoopRecords
  BY OrderAssumption DEF IdleLoop, LoopRecords, PCs, Hours
<1>4. loop'[l] = [IdleLoop EXCEPT !.pc = pc]
  BY <1>1, <1>2
<1>5. Moves(l)
  BY <1>1, <1>2, <1>3 DEF Moves
<1>6. Shaped(loop'[l])
  BY <1>4 DEF Shaped, IdleLoop, Resting
<1> QED
  BY <1>4, <1>5, <1>6 DEF Moves, IdleLoop, Key

\* Steps that neither insert a row nor send a transaction.
LEMMA CalmKeeps ==
  ASSUME BInv, TypeOK', UNCHANGED sent,
         \A m \in Loops : Shaped(loop'[m]),
         \A k \in Keys : swap'[k] = "none" => swap[k] = "none",
         \A k \in Keys : swap'[k] \in Hashed => sent[k] > 0,
         \A m \in Loops : loop'[m].pc = "provider" =>
           loop[m].pc = "provider" /\ Key(m)' = Key(m),
         \A m \in Loops : loop'[m].pc \in Past => sent[Key(m)'] > 0,
         limit' = "executed" => limit = "executed" \/ \E k \in LimitKeys : sent[k] > 0
  PROVE  BInv'
<1>1. AtHand'
  BY DEF AtHand, Shaped
<1>2. Provision'
  <2>1. \A m \in Loops : loop[m].pc = "provider" => Key(m) \in Keys
    BY DEF BInv, AtHand, Shaped, Key, Resting
  <2> QED
    BY <2>1 DEF BInv, Provision
<1>3. SentFirst'
  BY DEF SentFirst
<1>4. ExecutedIsSent'
  BY DEF BInv, ExecutedIsSent
<1> QED
  BY <1>1, <1>2, <1>3, <1>4 DEF BInv

\* The same for a step of l that leaves the swaps alone.
LEMMA LoopKeeps ==
  ASSUME BInv, NEW l \in Loops, Moves(l), Shaped(loop'[l]), UNCHANGED <<loops, whole, hour, swap, sent>>,
         limit' \in OrderStatus, dca' \in [status : DCAStatus, n : Nat, next : 0..(MaxHour + 1)],
         faults' \in 0..MaxFaults, counted' \subseteq DcaKeys,
         loop'[l].pc # "provider",
         loop'[l].pc \in Past => sent[Key(l)'] > 0,
         limit' = "executed" => limit = "executed" \/ \E k \in LimitKeys : sent[k] > 0
  PROVE  BInv'
<1>1. TypeOK'
  BY DEF BInv, TypeOK, Moves, LoopRecords, PCs
<1>2. /\ \A m \in Loops : Shaped(loop'[m])
      /\ \A m \in Loops \ {l} : Key(m)' = Key(m) /\ loop'[m] = loop[m]
  BY DEF BInv, AtHand, Moves, Key
<1>3. \A m \in Loops : loop'[m].pc = "provider" =>
        loop[m].pc = "provider" /\ Key(m)' = Key(m)
  BY <1>2
<1>4. \A m \in Loops : loop'[m].pc \in Past => sent[Key(m)'] > 0
  BY <1>2 DEF BInv, SentFirst
<1>5. \A k \in Keys : swap'[k] \in Hashed => sent[k] > 0
  BY DEF BInv, SentFirst
<1> QED
  BY <1>1, <1>2, <1>3, <1>4, <1>5, CalmKeeps

-----------------------------------------------------------------------------
(* Every action keeps what holds of any number of loops.                   *)

\* An order at hand has a key.
LEMMA KeyAtHand ==
  ASSUME BInv, NEW l \in Loops, loop[l].pc \notin Resting
  PROVE  Key(l) \in Keys /\ loop[l].order \in {"limit", "dca"}
  BY DEF BInv, AtHand, Shaped, Key, Keys

\* A step within an order keeps the key.
LEMMA StaysShaped ==
  ASSUME BInv, NEW l \in Loops, loop[l].pc \notin Resting, loop'[l].pc \notin Resting,
         loop'[l].order = loop[l].order, loop'[l].slot = loop[l].slot,
         loop'[l].hour = loop[l].hour, loop'[l].pc = "stats" => loop[l].order = "dca"
  PROVE  Shaped(loop'[l])
  BY DEF BInv, AtHand, Shaped

\* A step between orders.
LEMMA RestsShaped ==
  ASSUME BInv, NEW l \in Loops, loop[l].pc \in Resting, loop'[l].pc \in Resting,
         loop'[l].order = loop[l].order, loop'[l].slot = loop[l].slot,
         loop'[l].hour = loop[l].hour
  PROVE  Shaped(loop'[l])
  BY DEF BInv, AtHand, Shaped, Resting

LEMMA FetchPendingKeeps ==
  ASSUME BInv, NEW l \in Loops, FetchPending(l)
  PROVE  BInv'
<1>1. PICK pc \in {"prices", "dues"} : Goto(l, pc)
  BY DEF FetchPending
<1>2. pc \in PCs /\ pc \in Resting
  BY DEF PCs, Resting
<1>3. Moves(l) /\ loop'[l].pc = pc /\ loop'[l].order = loop[l].order
      /\ loop'[l].slot = loop[l].slot /\ loop'[l].hour = loop[l].hour
  BY <1>1, <1>2, GotoFacts DEF BInv
<1>4. Shaped(loop'[l])
  BY <1>2, <1>3, RestsShaped DEF FetchPending, At, Resting
<1>5. limit' \in {limit, "expired"}
  BY DEF FetchPending
<1>6. UNCHANGED <<loops, whole, hour, swap, sent, dca, faults, counted>>
  BY DEF FetchPending, config
<1>7. loop'[l].pc \notin Past /\ loop'[l].pc # "provider"
  BY <1>3 DEF Past
<1> QED
  BY <1>3, <1>4, <1>5, <1>6, <1>7, LoopKeeps DEF BInv, TypeOK, OrderStatus

LEMMA MarkTriggeredKeeps ==
  ASSUME BInv, NEW l \in Loops, MarkTriggered(l)
  PROVE  BInv'
<1>1. UNCHANGED <<loops, whole, hour, swap, sent, dca, faults, counted>>
  BY DEF MarkTriggered, config
<1>2. loop[l].pc = "prices"
  BY DEF MarkTriggered, At
<1>3. CASE \E pc \in {"dues", "idle"} : Goto(l, pc) /\ UNCHANGED limit
  <2>1. PICK pc \in {"dues", "idle"} : Goto(l, pc)
    BY <1>3
  <2>2. pc \in PCs /\ pc \in Resting
    BY DEF PCs, Resting
  <2>3. Moves(l) /\ loop'[l].pc = pc /\ loop'[l].order = loop[l].order
        /\ loop'[l].slot = loop[l].slot /\ loop'[l].hour = loop[l].hour
    BY <2>1, <2>2, GotoFacts DEF BInv
  <2>4. Shaped(loop'[l])
    BY <1>2, <2>2, <2>3, RestsShaped DEF Resting
  <2>5. loop'[l].pc \notin Past /\ loop'[l].pc # "provider"
    BY <2>3 DEF Past
  <2> QED
    BY <1>1, <1>3, <2>3, <2>4, <2>5, LoopKeeps DEF BInv, TypeOK
<1>4. CASE /\ limit' = "triggered"
           /\ loop' = [loop EXCEPT ![l].pc = "quote", ![l].order = "limit"]
  <2>1. /\ Moves(l)
        /\ loop'[l].pc = "quote" /\ loop'[l].order = "limit"
        /\ loop'[l].slot = loop[l].slot /\ loop'[l].hour = loop[l].hour
    <3> DEFINE x == [loop[l] EXCEPT !.pc = "quote", !.order = "limit"]
    <3>1. loop[l] \in LoopRecords
      BY DEF BInv, TypeOK, LoopRecords, PCs
    <3>2. x \in LoopRecords
      BY <3>1 DEF LoopRecords, PCs
    <3>3. loop' = [loop EXCEPT ![l] = x]
      BY <1>4
    <3> HIDE DEF x
    <3>4. Moves(l) /\ loop'[l] = x
      BY <3>2, <3>3, MovesFacts DEF BInv
    <3> QED
      BY <3>1, <3>4 DEF x, LoopRecords
  <2>2. loop[l].slot = 0 /\ loop[l].hour = 0
    BY <1>2 DEF BInv, AtHand, Shaped, Resting
  <2>3. 0 \in Hours
    BY OrderAssumption DEF Hours
  <2>4. Shaped(loop'[l])
    BY <2>1, <2>2, <2>3 DEF Shaped, Keys, Resting
  <2>5. limit' \in OrderStatus /\ limit' # "executed"
    BY <1>4 DEF OrderStatus
  <2>6. loop'[l].pc \notin Past /\ loop'[l].pc # "provider"
    BY <2>1 DEF Past
  <2> QED
    BY <1>1, <2>1, <2>4, <2>5, <2>6, LoopKeeps DEF BInv, TypeOK
<1> QED
  BY <1>3, <1>4 DEF MarkTriggered

LEMMA CheckDcaKeeps ==
  ASSUME BInv, NEW l \in Loops, CheckDca(l)
  PROVE  BInv'
<1>1. UNCHANGED <<loops, whole, hour, swap, sent, limit, faults, counted>>
  BY DEF CheckDca, config
<1>2. loop[l].pc = "dues"
  BY DEF CheckDca, At
<1>3. dca' \in [status : DCAStatus, n : Nat, next : 0..(MaxHour + 1)]
  BY DEF CheckDca, BInv, TypeOK, DCAStatus
<1>4. CASE Goto(l, "idle")
  <2>1. "idle" \in PCs /\ "idle" \in Resting
    BY DEF PCs, Resting
  <2>2. Moves(l) /\ loop'[l].pc = "idle" /\ loop'[l].order = loop[l].order
        /\ loop'[l].slot = loop[l].slot /\ loop'[l].hour = loop[l].hour
    BY <1>4, <2>1, GotoFacts DEF BInv
  <2>3. Shaped(loop'[l])
    BY <1>2, <2>1, <2>2, RestsShaped DEF Resting
  <2>4. loop'[l].pc \notin Past /\ loop'[l].pc # "provider"
    BY <2>2 DEF Past
  <2> QED
    BY <1>1, <1>3, <2>2, <2>3, <2>4, LoopKeeps DEF BInv, TypeOK
<1>5. CASE /\ SlotsLeft
           /\ loop' = [loop EXCEPT ![l].pc = "quote", ![l].order = "dca", ![l].slot = SlotRead]
  <2>1. dca.n \in 0..(MaxExecutions - 1)
    BY <1>5, OrderAssumption DEF BInv, TypeOK, SlotsLeft
  <2>2. /\ Moves(l)
        /\ loop'[l].pc = "quote" /\ loop'[l].order = "dca"
        /\ loop'[l].slot = dca.n /\ loop'[l].hour = loop[l].hour
    <3> DEFINE x == [loop[l] EXCEPT !.pc = "quote", !.order = "dca", !.slot = dca.n]
    <3>1. loop[l] \in LoopRecords
      BY DEF BInv, TypeOK, LoopRecords, PCs
    <3>2. x \in LoopRecords
      BY <3>1, <2>1 DEF LoopRecords, PCs
    <3>3. loop' = [loop EXCEPT ![l] = x]
      BY <1>5 DEF SlotRead
    <3> HIDE DEF x
    <3>4. Moves(l) /\ loop'[l] = x
      BY <3>2, <3>3, MovesFacts DEF BInv
    <3> QED
      BY <3>1, <3>4 DEF x, LoopRecords
  <2>3. loop[l].hour = 0
    BY <1>2 DEF BInv, AtHand, Shaped, Resting
  <2>4. 0 \in Hours
    BY OrderAssumption DEF Hours
  <2>5. Shaped(loop'[l])
    BY <2>1, <2>2, <2>3, <2>4 DEF Shaped, Keys, Resting
  <2>6. loop'[l].pc \notin Past /\ loop'[l].pc # "provider"
    BY <2>2 DEF Past
  <2> QED
    BY <1>1, <1>3, <2>2, <2>5, <2>6, LoopKeeps DEF BInv, TypeOK
<1> QED
  BY <1>4, <1>5 DEF CheckDca

\* The end of an order.
LEMMA LeaveKeeps ==
  ASSUME BInv, NEW l \in Loops, Leave(l) \/ loop' = [loop EXCEPT ![l] = IdleLoop],
         UNCHANGED <<loops, whole, hour, swap, sent>>,
         limit' \in OrderStatus, dca' \in [status : DCAStatus, n : Nat, next : 0..(MaxHour + 1)],
         faults' \in 0..MaxFaults, counted' \subseteq DcaKeys,
         limit' = "executed" => limit = "executed" \/ \E k \in LimitKeys : sent[k] > 0
  PROVE  BInv'
<1>1. Moves(l) /\ loop'[l].pc \in {"dues", "idle"} /\ Shaped(loop'[l])
  BY LeaveFacts DEF BInv
<1>2. loop'[l].pc \notin Past /\ loop'[l].pc # "provider"
  BY <1>1 DEF Past
<1> QED
  BY <1>1, <1>2, LoopKeeps

\* A step to another program counter of the same order.
LEMMA GotoKeeps ==
  ASSUME BInv, NEW l \in Loops, NEW pc \in PCs \ Resting, Goto(l, pc),
         loop[l].pc \notin Resting, pc \notin {"provider", "stats"},
         UNCHANGED <<loops, whole, hour, swap, sent, limit, dca, counted>>,
         faults' \in 0..MaxFaults,
         pc \in Past => loop[l].pc \in Past \/ swap[Key(l)] \in Hashed
  PROVE  BInv'
<1>1. Moves(l) /\ loop'[l].pc = pc /\ loop'[l].order = loop[l].order
      /\ loop'[l].slot = loop[l].slot /\ loop'[l].hour = loop[l].hour /\ Key(l)' = Key(l)
  BY GotoFacts DEF BInv
<1>2. Shaped(loop'[l])
  BY <1>1, StaysShaped
<1>3. pc \in Past => sent[Key(l)] > 0
  BY KeyAtHand DEF BInv, SentFirst
<1> QED
  BY <1>1, <1>2, <1>3, LoopKeeps DEF BInv, TypeOK

LEMMA StartSwapKeeps ==
  ASSUME BInv, NEW l \in Loops, StartSwap(l)
  PROVE  BInv'
<1>1. UNCHANGED <<loops, whole, hour, swap, sent, limit, dca, faults, counted>>
  BY DEF StartSwap, ordersOnly, config
<1>2. loop[l].pc = "quote" /\ loop[l].pc \notin Resting
  BY DEF StartSwap, At, Resting
<1>3. CASE Leave(l)
  BY <1>1, <1>3, LeaveKeeps DEF BInv, TypeOK
<1>4. CASE Goto(l, "raised")
  <2>1. "raised" \in PCs \ Resting /\ "raised" \notin Past
    BY DEF PCs, Resting, Past
  <2> QED
    BY <1>1, <1>2, <1>4, <2>1, GotoKeeps DEF BInv, TypeOK
<1>5. CASE loop' = [loop EXCEPT ![l].pc = "check", ![l].hour = hour]
  <2>1. /\ Moves(l)
        /\ loop'[l].pc = "check" /\ loop'[l].order = loop[l].order
        /\ loop'[l].slot = loop[l].slot /\ loop'[l].hour = hour
    <3> DEFINE x == [loop[l] EXCEPT !.pc = "check", !.hour = hour]
    <3>1. loop[l] \in LoopRecords /\ hour \in Hours
      BY DEF BInv, TypeOK, LoopRecords, PCs
    <3>2. x \in LoopRecords
      BY <3>1 DEF LoopRecords, PCs
    <3>3. loop' = [loop EXCEPT ![l] = x]
      BY <1>5
    <3> HIDE DEF x
    <3>4. Moves(l) /\ loop'[l] = x
      BY <3>2, <3>3, MovesFacts DEF BInv
    <3> QED
      BY <3>1, <3>4 DEF x, LoopRecords
  <2>2. [order |-> loop[l].order, slot |-> loop[l].slot, hour |-> hour] \in Keys
    <3>1. Key(l) \in Keys
      BY <1>2, KeyAtHand
    <3> QED
      BY <3>1 DEF Key, Keys, BInv, TypeOK
  <2>3. Shaped(loop'[l])
    BY <2>1, <2>2 DEF Shaped, Resting
  <2>4. loop'[l].pc \notin Past /\ loop'[l].pc # "provider"
    BY <2>1 DEF Past
  <2> QED
    BY <1>1, <2>1, <2>3, <2>4, LoopKeeps DEF BInv, TypeOK
<1> QED
  BY <1>3, <1>4, <1>5 DEF StartSwap

\* A record returned to the caller as a swap made is submitted.
LEMMA ReturnKeeps ==
  ASSUME BInv, NEW l \in Loops, Return(l), loop[l].pc \notin Resting,
         UNCHANGED <<loops, whole, hour, swap, sent, limit, dca, faults, counted>>
  PROVE  BInv'
<1>1. CASE Leave(l)
  BY <1>1, LeaveKeeps DEF BInv, TypeOK
<1>2. CASE Accepted(swap[Key(l)]) /\ Goto(l, "record")
  <2>1. "record" \in PCs \ Resting /\ swap[Key(l)] = "submitted"
    BY <1>2 DEF PCs, Resting, Accepted
  <2> QED
    BY <1>2, <2>1, GotoKeeps DEF BInv, TypeOK, Hashed
<1> QED
  BY <1>1, <1>2 DEF Return

LEMMA CheckKeyKeeps ==
  ASSUME BInv, NEW l \in Loops, CheckKey(l)
  PROVE  BInv'
<1>1. UNCHANGED <<loops, whole, hour, swap, sent, limit, dca, faults, counted>>
  BY DEF CheckKey, ordersOnly, config
<1>2. loop[l].pc \notin Resting
  BY DEF CheckKey, At, Resting
<1>3. CASE Return(l)
  BY <1>1, <1>2, <1>3, ReturnKeeps
<1>4. CASE \E pc \in {"insert", "raised"} : Goto(l, pc)
  <2>1. PICK pc \in {"insert", "raised"} : Goto(l, pc)
    BY <1>4
  <2>2. pc \in PCs \ Resting /\ pc \notin Past /\ pc \notin {"provider", "stats"}
    BY DEF PCs, Resting, Past
  <2> QED
    BY <1>1, <1>2, <2>1, <2>2, GotoKeeps DEF BInv, TypeOK
<1> QED
  BY <1>3, <1>4 DEF CheckKey

LEMMA RefetchKeeps ==
  ASSUME BInv, NEW l \in Loops, Refetch(l)
  PROVE  BInv'
<1>1. UNCHANGED <<loops, whole, hour, swap, sent, limit, dca, counted>>
  BY DEF Refetch, config
<1>2. loop[l].pc \notin Resting
  BY DEF Refetch, At, Resting
<1>3. CASE Return(l) /\ UNCHANGED faults
  BY <1>1, <1>2, <1>3, ReturnKeeps
<1>4. CASE Fault /\ Goto(l, "markFailed")
  <2>1. "markFailed" \in PCs \ Resting /\ "markFailed" \notin Past
    BY DEF PCs, Resting, Past
  <2>2. faults' \in 0..MaxFaults
    BY <1>4, OrderAssumption DEF Fault, BInv, TypeOK
  <2> QED
    BY <1>1, <1>2, <1>4, <2>1, <2>2, GotoKeeps
<1> QED
  BY <1>3, <1>4 DEF Refetch

LEMMA RecordExecutedKeeps ==
  ASSUME BInv, NEW l \in Loops, RecordExecuted(l)
  PROVE  BInv'
<1>1. UNCHANGED <<loops, whole, hour, swap, sent, dca, counted>>
  BY DEF RecordExecuted, config
<1>2. loop[l].pc = "record" /\ loop[l].pc \notin Resting
  BY DEF RecordExecuted, At, Resting
<1>3. CASE limit' = "executed" /\ Leave(l) /\ UNCHANGED faults
  <2>1. sent[Key(l)] > 0 /\ Key(l) \in Keys
    BY <1>2, KeyAtHand DEF BInv, SentFirst, Past
  <2>2. Key(l) \in LimitKeys
    BY <2>1 DEF RecordExecuted, Key, LimitKeys, DcaKeys
  <2>3. limit' \in OrderStatus
    BY <1>3 DEF OrderStatus
  <2> QED
    BY <1>1, <1>3, <2>1, <2>2, <2>3, LeaveKeeps DEF BInv, TypeOK
<1>4. CASE Fault /\ Goto(l, "raised") /\ UNCHANGED limit
  <2>1. "raised" \in PCs \ Resting /\ "raised" \notin Past
    BY DEF PCs, Resting, Past
  <2>2. faults' \in 0..MaxFaults
    BY <1>4, OrderAssumption DEF Fault, BInv, TypeOK
  <2> QED
    BY <1>1, <1>2, <1>4, <2>1, <2>2, GotoKeeps
<1> QED
  BY <1>3, <1>4 DEF RecordExecuted

LEMMA ReadCountKeeps ==
  ASSUME BInv, NEW l \in Loops, ReadCount(l)
  PROVE  BInv'
<1>1. UNCHANGED <<loops, whole, hour, swap, sent, limit, dca, faults, counted>>
  BY DEF ReadCount, ordersOnly, config
<1>2. loop[l].pc = "record" /\ loop[l].pc \notin Resting /\ loop[l].order = "dca"
  BY DEF ReadCount, At, Resting
<1>3. CASE Goto(l, "raised")
  <2>1. "raised" \in PCs \ Resting /\ "raised" \notin Past
    BY DEF PCs, Resting, Past
  <2> QED
    BY <1>1, <1>2, <1>3, <2>1, GotoKeeps DEF BInv, TypeOK
<1>4. CASE loop' = [loop EXCEPT ![l].pc = "stats", ![l].count = dca.n]
  <2>1. /\ Moves(l)
        /\ loop'[l].pc = "stats" /\ loop'[l].order = loop[l].order
        /\ loop'[l].slot = loop[l].slot /\ loop'[l].hour = loop[l].hour
    <3> DEFINE x == [loop[l] EXCEPT !.pc = "stats", !.count = dca.n]
    <3>1. loop[l] \in LoopRecords
      BY DEF BInv, TypeOK, LoopRecords, PCs
    <3>0. dca.n \in Nat
      BY DEF BInv, TypeOK
    <3>2. x \in LoopRecords
      BY <3>0, <3>1 DEF LoopRecords, PCs
    <3>3. loop' = [loop EXCEPT ![l] = x]
      BY <1>4
    <3> HIDE DEF x
    <3>4. Moves(l) /\ loop'[l] = x
      BY <3>2, <3>3, MovesFacts DEF BInv
    <3> QED
      BY <3>1, <3>4 DEF x, LoopRecords
  <2>2. Shaped(loop'[l])
    BY <1>2, <2>1, StaysShaped DEF Resting
  <2>3. Key(l)' = Key(l) /\ sent[Key(l)] > 0
    BY <1>2, <2>1 DEF Key, BInv, SentFirst, Past
  <2> QED
    BY <1>1, <2>1, <2>2, <2>3, LoopKeeps DEF BInv, TypeOK
<1> QED
  BY <1>3, <1>4 DEF ReadCount

LEMMA WriteCountKeeps ==
  ASSUME BInv, NEW l \in Loops, WriteCount(l)
  PROVE  BInv'
<1>1. UNCHANGED <<loops, whole, hour, swap, sent, limit>>
  BY DEF WriteCount, config
<1>2. loop[l].pc = "stats" /\ loop[l].pc \notin Resting
  BY DEF WriteCount, At, Resting
<1>3. CASE /\ dca' = [dca EXCEPT !.n = loop[l].count + 1, !.next = hour + 1]
           /\ counted' = counted \cup {Key(l)}
           /\ Leave(l)
           /\ UNCHANGED faults
  <2>1. dca' \in [status : DCAStatus, n : Nat, next : 0..(MaxHour + 1)]
    <3>1. loop[l].count + 1 \in Nat
      BY DEF BInv, TypeOK
    <3>2. hour + 1 \in 0..(MaxHour + 1)
      BY OrderAssumption DEF BInv, TypeOK, Hours
    <3> QED
      BY <1>3, <3>1, <3>2 DEF BInv, TypeOK
  <2>2. Key(l) \in DcaKeys
    BY <1>2, KeyAtHand DEF DcaKeys, Key, BInv, AtHand, Shaped
  <2> QED
    BY <1>1, <1>3, <2>1, <2>2, LeaveKeeps DEF BInv, TypeOK
<1>4. CASE Fault /\ Goto(l, "raised") /\ UNCHANGED <<dca, counted>>
  <2>1. "raised" \in PCs \ Resting /\ "raised" \notin Past
    BY DEF PCs, Resting, Past
  <2>2. faults' \in 0..MaxFaults
    BY <1>4, OrderAssumption DEF Fault, BInv, TypeOK
  <2> QED
    BY <1>1, <1>2, <1>4, <2>1, <2>2, GotoKeeps
<1> QED
  BY <1>3, <1>4 DEF WriteCount

LEMMA HandleErrorKeeps ==
  ASSUME BInv, NEW l \in Loops, HandleError(l)
  PROVE  BInv'
<1>1. limit' \in OrderStatus /\ (limit' = "executed" => limit = "executed")
  BY DEF HandleError, BInv, TypeOK, OrderStatus
<1> QED
  BY <1>1, LeaveKeeps DEF HandleError, config, BInv, TypeOK

LEMMA CrashKeeps ==
  ASSUME BInv, NEW l \in Loops, Crash(l)
  PROVE  BInv'
<1>1. faults' \in 0..MaxFaults
  BY OrderAssumption DEF Crash, Fault, BInv, TypeOK
<1> QED
  BY <1>1, LeaveKeeps DEF Crash, config, BInv, TypeOK

\* A step within an order that updates its row.
LEMMA RowKeeps ==
  ASSUME BInv, NEW l \in Loops, NEW pc \in PCs \ Resting, Goto(l, pc),
         loop[l].pc \notin Resting, pc \notin {"provider", "stats"},
         NEW status \in SwapStatus \ {"none"},
         swap' = swap \/ swap' = [swap EXCEPT ![Key(l)] = status],
         swap' # swap /\ status \in Hashed => sent[Key(l)] > 0,
         pc \in Past => sent[Key(l)] > 0,
         UNCHANGED <<loops, whole, hour, sent, limit, dca, counted>>,
         faults' \in 0..MaxFaults
  PROVE  BInv'
<1>1. Moves(l) /\ loop'[l].pc = pc /\ loop'[l].order = loop[l].order
      /\ loop'[l].slot = loop[l].slot /\ loop'[l].hour = loop[l].hour
      /\ \A m \in Loops : Key(m)' = Key(m)
  BY GotoFacts DEF BInv
<1>2. Shaped(loop'[l])
  BY <1>1, StaysShaped
<1>3. Key(l) \in Keys
  BY KeyAtHand
<1>4. /\ swap' \in [Keys -> SwapStatus]
      /\ \A k \in Keys : swap'[k] = swap[k] \/ (k = Key(l) /\ swap' # swap /\ swap'[k] = status)
  BY <1>3 DEF BInv, TypeOK
<1>5. TypeOK'
  BY <1>1, <1>4 DEF BInv, TypeOK, Moves, LoopRecords, PCs
<1>6. \A m \in Loops : Shaped(loop'[m])
  BY <1>1, <1>2 DEF BInv, AtHand, Moves
<1>7. \A k \in Keys : swap'[k] = "none" => swap[k] = "none"
  BY <1>4
<1>8. \A k \in Keys : swap'[k] \in Hashed => sent[k] > 0
  BY <1>4 DEF BInv, SentFirst
<1>9. \A m \in Loops : loop'[m].pc = "provider" => loop[m].pc = "provider"
  BY <1>1 DEF Moves
<1>10. \A m \in Loops : loop'[m].pc \in Past => sent[Key(m)'] > 0
  BY <1>1 DEF Moves, BInv, SentFirst
<1> QED
  BY <1>1, <1>5, <1>6, <1>7, <1>8, <1>9, <1>10, CalmKeeps

LEMMA SubmitKeeps ==
  ASSUME BInv, NEW l \in Loops, Submit(l)
  PROVE  BInv'
<1>1. UNCHANGED <<loops, whole, hour, sent, limit, dca, counted>>
  BY DEF Submit, config
<1>2. loop[l].pc = "submit" /\ loop[l].pc \notin Resting
  BY DEF Submit, At, Resting
<1>3. sent[Key(l)] > 0
  BY <1>2 DEF BInv, SentFirst, Past
<1>4. faults' \in 0..MaxFaults
  BY OrderAssumption DEF Submit, Fault, BInv, TypeOK
<1>5. PICK pc \in {"refetch", "markFailed"} : Goto(l, pc)
  BY DEF Submit
<1>6. pc \in PCs \ Resting /\ pc \notin {"provider", "stats"}
  BY DEF PCs, Resting
<1>7. "submitted" \in SwapStatus \ {"none"}
  BY DEF SwapStatus
<1>8. swap' = swap \/ swap' = [swap EXCEPT ![Key(l)] = "submitted"]
  BY DEF Submit
<1> QED
  BY <1>1, <1>2, <1>3, <1>4, <1>5, <1>6, <1>7, <1>8, RowKeeps

LEMMA MarkFailedKeeps ==
  ASSUME BInv, NEW l \in Loops, MarkFailed(l)
  PROVE  BInv'
<1>1. UNCHANGED <<loops, whole, hour, sent, limit, dca, counted>>
  BY DEF MarkFailed, config
<1>2. loop[l].pc \notin Resting /\ Goto(l, "raised")
  BY DEF MarkFailed, At, Resting
<1>3. faults' \in 0..MaxFaults
  BY OrderAssumption DEF MarkFailed, Fault, BInv, TypeOK
<1>4. "raised" \in PCs \ Resting /\ "raised" \notin Past
  BY DEF PCs, Resting, Past
<1>5. /\ Failed(swap[Key(l)]) \in SwapStatus \ {"none"}
      /\ Failed(swap[Key(l)]) \in Hashed => swap[Key(l)] \in Hashed
  BY DEF Failed, SwapStatus, Hashed
<1>6. swap' = swap \/ swap' = [swap EXCEPT ![Key(l)] = Failed(swap[Key(l)])]
  BY DEF MarkFailed
<1>7. swap[Key(l)] \in Hashed => sent[Key(l)] > 0
  BY <1>2, KeyAtHand DEF BInv, SentFirst
<1> QED
  BY <1>1, <1>2, <1>3, <1>4, <1>5, <1>6, <1>7, RowKeeps

\* Only the rows of swaps change: the poller and the sweep.
LEMMA PollKeeps ==
  ASSUME BInv, NEW k \in Keys, PollSwap(k) \/ ReviveSwap(k) \/ SweepOrphan(k)
  PROVE  BInv'
<1>1. UNCHANGED <<loops, whole, hour, sent, limit, dca, loop, counted>>
  BY DEF PollSwap, ReviveSwap, SweepOrphan, config
<1>2. PICK status \in SwapStatus \ {"none"} : swap' = [swap EXCEPT ![k] = status]
  BY DEF PollSwap, ReviveSwap, SweepOrphan, SwapStatus
<1>3. sent[k] > 0 \/ swap' = [swap EXCEPT ![k] = "failed"]
  BY DEF PollSwap, ReviveSwap, SweepOrphan, BInv, SentFirst, Hashed
<1>4. faults' \in 0..MaxFaults
  BY OrderAssumption DEF PollSwap, ReviveSwap, SweepOrphan, Fault, BInv, TypeOK
<1>5. swap' \in [Keys -> SwapStatus]
  BY <1>2 DEF BInv, TypeOK
<1>6. TypeOK'
  BY <1>1, <1>4, <1>5 DEF BInv, TypeOK
<1>7. \A m \in Loops : Shaped(loop'[m]) /\ Key(m)' = Key(m)
  BY <1>1 DEF BInv, AtHand, Key
<1>8. \A j \in Keys : swap'[j] = "none" => swap[j] = "none"
  BY <1>2 DEF BInv, TypeOK
<1>9. \A j \in Keys : swap'[j] \in Hashed => sent[j] > 0
  BY <1>2, <1>3 DEF BInv, TypeOK, SentFirst, Hashed
<1>10. \A m \in Loops : loop'[m].pc \in Past => sent[Key(m)'] > 0
  BY <1>1, <1>7 DEF BInv, SentFirst
<1> QED
  BY <1>1, <1>6, <1>7, <1>8, <1>9, <1>10, CalmKeeps

\* The loops and the swaps stay: the clock and the user.
LEMMA OutsideKeeps ==
  ASSUME BInv, UNCHANGED <<loops, whole, swap, sent, loop, faults, counted>>, hour' \in Hours,
         limit' \in OrderStatus, limit' = "executed" => limit = "executed",
         dca' \in [status : DCAStatus, n : Nat, next : 0..(MaxHour + 1)]
  PROVE  BInv'
<1>1. TypeOK'
  BY DEF BInv, TypeOK
<1>2. \A m \in Loops : Shaped(loop'[m]) /\ Key(m)' = Key(m)
  BY DEF BInv, AtHand, Key
<1>3. \A m \in Loops : loop'[m].pc \in Past => sent[Key(m)'] > 0
  BY <1>2 DEF BInv, SentFirst
<1>4. \A k \in Keys : swap'[k] \in Hashed => sent[k] > 0
  BY DEF BInv, SentFirst
<1> QED
  BY <1>1, <1>2, <1>3, <1>4, CalmKeeps

LEMMA TickKeeps ==
  ASSUME BInv, Tick
  PROVE  BInv'
<1>1. hour' \in Hours
  BY OrderAssumption DEF BInv, TypeOK, Tick, Hours
<1> QED
  BY <1>1, OutsideKeeps DEF Tick, BInv, TypeOK

\* What the user does to the orders.
LEMMA UserFacts ==
  ASSUME BInv, User
  PROVE  /\ UNCHANGED <<loops, whole, hour, swap, sent, loop, faults, counted>>
         /\ limit' = limit \/ (limit # "none" /\ limit' = "cancelled")
         /\ \E status \in DCAStatus, next \in 0..(MaxHour + 1) :
              dca' = [dca EXCEPT !.status = status, !.next = next]
<1>1. UNCHANGED <<loops, whole, hour, swap, sent, loop, faults, counted>>
  BY DEF User, CancelLimitFrom, SetDcaFrom, cancel_order, cancel_terminal_limit_order,
         mobile_cancel_order, pause_dca, pause_terminal_dca_order, mobile_pause_dca, cancel_dca,
         cancel_terminal_dca_order, mobile_cancel_dca, resume_dca, mobile_resume_dca, userOnly,
         config
<1>2. limit' = limit \/ (limit # "none" /\ limit' = "cancelled")
  BY DEF User, CancelLimitFrom, SetDcaFrom, cancel_order, cancel_terminal_limit_order,
         mobile_cancel_order, pause_dca, pause_terminal_dca_order, mobile_pause_dca, cancel_dca,
         cancel_terminal_dca_order, mobile_cancel_dca, resume_dca, mobile_resume_dca
<1>3. dca \in [status : DCAStatus, n : Nat, next : 0..(MaxHour + 1)]
  BY DEF BInv, TypeOK
<1>4. \A status \in DCAStatus : [dca EXCEPT !.status = status]
                                  = [dca EXCEPT !.status = status, !.next = dca.next]
  BY <1>3
<1>5. dca = [dca EXCEPT !.status = dca.status, !.next = dca.next]
  BY <1>3
<1>6. dca.status \in DCAStatus /\ dca.next \in 0..(MaxHour + 1)
  BY <1>3
<1>7. hour \in 0..(MaxHour + 1) /\ hour + 1 \in 0..(MaxHour + 1)
  BY OrderAssumption DEF BInv, TypeOK, Hours
<1>8. {"active", "paused", "cancelled"} \subseteq DCAStatus
  BY DEF DCAStatus
<1>9. ASSUME NEW statuses, NEW status \in DCAStatus, SetDcaFrom(statuses, status)
      PROVE  dca' = [dca EXCEPT !.status = status, !.next = dca.next]
  BY <1>4, <1>9 DEF SetDcaFrom
<1>10. ASSUME NEW statuses, CancelLimitFrom(statuses)
       PROVE  dca' = dca
  BY <1>10 DEF CancelLimitFrom
<1>11. CASE cancel_order \/ cancel_terminal_limit_order \/ mobile_cancel_order
  <2>1. dca' = dca
    BY <1>10, <1>11 DEF cancel_order, cancel_terminal_limit_order, mobile_cancel_order
  <2> QED
    BY <1>1, <1>2, <1>5, <1>6, <2>1
<1>12. CASE pause_dca \/ pause_terminal_dca_order \/ mobile_pause_dca
  <2>1. \E statuses : SetDcaFrom(statuses, "paused")
    BY <1>12 DEF pause_dca, pause_terminal_dca_order, mobile_pause_dca
  <2> QED
    BY <1>1, <1>2, <1>6, <1>8, <1>9, <2>1
<1>13. CASE cancel_dca \/ cancel_terminal_dca_order \/ mobile_cancel_dca
  <2>1. \E statuses : SetDcaFrom(statuses, "cancelled")
    BY <1>13 DEF cancel_dca, cancel_terminal_dca_order, mobile_cancel_dca
  <2> QED
    BY <1>1, <1>2, <1>6, <1>8, <1>9, <2>1
<1>14. CASE resume_dca \/ mobile_resume_dca
  <2>1. \E next \in {hour, hour + 1} : dca' = [dca EXCEPT !.status = "active", !.next = next]
    BY <1>14 DEF resume_dca, mobile_resume_dca
  <2> QED
    BY <1>1, <1>2, <1>7, <1>8, <2>1
<1> QED
  BY <1>11, <1>12, <1>13, <1>14 DEF User

LEMMA UserKeeps ==
  ASSUME BInv, User
  PROVE  BInv'
<1>1. dca' \in [status : DCAStatus, n : Nat, next : 0..(MaxHour + 1)]
  BY UserFacts DEF BInv, TypeOK
<1>2. limit' \in OrderStatus /\ (limit' = "executed" => limit = "executed")
  BY UserFacts DEF BInv, TypeOK, OrderStatus
<1> QED
  BY <1>1, <1>2, UserFacts, OutsideKeeps DEF BInv, TypeOK

\* The unique index: whoever inserts the row of a key is alone with it, and
\* nothing was sent for it.
LEMMA InsertSwapKeeps ==
  ASSUME BInv, NEW l \in Loops, InsertSwap(l)
  PROVE  BInv'
<1>1. UNCHANGED <<loops, whole, hour, limit, dca, sent, faults, counted>>
  BY DEF InsertSwap, config
<1>2. loop[l].pc = "insert" /\ loop[l].pc \notin Resting
  BY DEF InsertSwap, At, Resting
<1>3. Key(l) \in Keys
  BY <1>2, KeyAtHand
<1>4. CASE Goto(l, "raised") /\ UNCHANGED swap
  <2>1. "raised" \in PCs \ Resting /\ "raised" \notin Past
    BY DEF PCs, Resting, Past
  <2> QED
    BY <1>1, <1>2, <1>4, <2>1, GotoKeeps DEF BInv, TypeOK
<1>5. CASE /\ Insertable(Key(l))
           /\ swap' = [swap EXCEPT ![Key(l)] = "executing"]
           /\ Goto(l, "provider")
  <2>1. "provider" \in PCs /\ "provider" \notin Resting /\ "provider" \notin Past
    BY DEF PCs, Resting, Past
  <2>2. Moves(l) /\ loop'[l].pc = "provider" /\ loop'[l].order = loop[l].order
        /\ loop'[l].slot = loop[l].slot /\ loop'[l].hour = loop[l].hour
        /\ \A m \in Loops : Key(m)' = Key(m)
    BY <1>5, <2>1, GotoFacts DEF BInv
  <2>3. swap[Key(l)] = "none" /\ sent[Key(l)] = 0
    BY <1>3, <1>5 DEF Insertable, BInv, Provision
  <2>4. /\ swap' \in [Keys -> SwapStatus]
        /\ swap'[Key(l)] = "executing"
        /\ \A k \in Keys \ {Key(l)} : swap'[k] = swap[k]
    BY <1>3, <1>5 DEF BInv, TypeOK, SwapStatus
  <2>5. TypeOK'
    BY <1>1, <2>2, <2>4 DEF BInv, TypeOK, Moves, LoopRecords, PCs
  <2>6. AtHand'
    <3>1. Shaped(loop'[l])
      BY <1>2, <2>1, <2>2, StaysShaped
    <3> QED
      BY <2>2, <3>1 DEF BInv, AtHand, Moves
  <2>7. Provision'
    <3>1. \A k \in Keys : sent'[k] <= 1 /\ (swap'[k] = "none" => sent'[k] = 0)
      BY <1>1, <2>4 DEF BInv, Provision
    <3>2. \A m \in Loops \ {l} : loop'[m].pc = "provider" =>
             /\ loop[m].pc = "provider" /\ Key(m) \in Keys
             /\ swap[Key(m)] # "none" /\ sent[Key(m)] = 0 /\ Key(m) # Key(l)
      BY <2>2, <2>3, KeyAtHand DEF Moves, BInv, Provision, Resting
    <3>3. \A m \in Loops : loop'[m].pc = "provider" =>
             swap'[Key(m)'] # "none" /\ sent'[Key(m)'] = 0
      BY <1>1, <2>2, <2>3, <2>4, <3>2
    <3>4. \A m, n \in Loops :
             loop'[m].pc = "provider" /\ loop'[n].pc = "provider" /\ Key(m)' = Key(n)' => m = n
      BY <2>2, <3>2 DEF BInv, Provision
    <3> QED
      BY <3>1, <3>3, <3>4 DEF Provision
  <2>8. SentFirst'
    <3>1. \A m \in Loops : loop'[m].pc \in Past => sent'[Key(m)'] > 0
      BY <1>1, <2>1, <2>2 DEF Moves, BInv, SentFirst
    <3>2. \A k \in Keys : swap'[k] \in Hashed => sent'[k] > 0
      BY <1>1, <2>4 DEF BInv, SentFirst, Hashed
    <3> QED
      BY <3>1, <3>2 DEF SentFirst
  <2>9. ExecutedIsSent'
    BY <1>1 DEF BInv, ExecutedIsSent
  <2> QED
    BY <2>5, <2>6, <2>7, <2>8, <2>9 DEF BInv
<1> QED
  BY <1>4, <1>5 DEF InsertSwap

LEMMA ProvideKeeps ==
  ASSUME BInv, NEW l \in Loops, Provide(l)
  PROVE  BInv'
<1>1. UNCHANGED <<loops, whole, hour, limit, dca, swap, faults, counted>>
  BY DEF Provide, config
<1>2. loop[l].pc = "provider" /\ loop[l].pc \notin Resting
  BY DEF Provide, At, Resting
<1>3. Key(l) \in Keys /\ sent[Key(l)] = 0 /\ swap[Key(l)] # "none"
  BY <1>2, KeyAtHand DEF BInv, Provision
<1>4. CASE \E pc \in {"raised", "markFailed"} : Goto(l, pc) /\ UNCHANGED sent
  <2>1. PICK pc \in {"raised", "markFailed"} : Goto(l, pc)
    BY <1>4
  <2>2. pc \in PCs \ Resting /\ pc \notin Past /\ pc \notin {"provider", "stats"}
    BY DEF PCs, Resting, Past
  <2> QED
    BY <1>1, <1>2, <1>4, <2>1, <2>2, GotoKeeps DEF BInv, TypeOK
<1>5. CASE /\ sent' = [sent EXCEPT ![Key(l)] = @ + 1]
           /\ \E pc \in {"submit", "markFailed"} : Goto(l, pc)
  <2>1. PICK pc \in {"submit", "markFailed"} : Goto(l, pc)
    BY <1>5
  <2>2. pc \in PCs /\ pc \notin Resting /\ pc \notin {"provider", "stats"}
    BY DEF PCs, Resting
  <2>3. Moves(l) /\ loop'[l].pc = pc /\ loop'[l].order = loop[l].order
        /\ loop'[l].slot = loop[l].slot /\ loop'[l].hour = loop[l].hour
        /\ \A m \in Loops : Key(m)' = Key(m)
    BY <2>1, <2>2, GotoFacts DEF BInv
  <2>4. /\ sent' \in [Keys -> Nat]
        /\ sent'[Key(l)] = 1
        /\ \A k \in Keys \ {Key(l)} : sent'[k] = sent[k]
    BY <1>3, <1>5 DEF BInv, TypeOK
  <2>5. TypeOK'
    BY <1>1, <2>3, <2>4 DEF BInv, TypeOK, Moves, LoopRecords, PCs
  <2>6. AtHand'
    <3>1. Shaped(loop'[l])
      BY <1>2, <2>2, <2>3, StaysShaped
    <3> QED
      BY <2>3, <3>1 DEF BInv, AtHand, Moves
  <2>7. Provision'
    <3>1. \A k \in Keys : sent'[k] <= 1 /\ (swap'[k] = "none" => sent'[k] = 0)
      BY <1>1, <1>3, <2>4 DEF BInv, Provision
    <3>2. \A m \in Loops : loop'[m].pc = "provider" =>
             /\ m # l /\ loop[m].pc = "provider" /\ Key(m) \in Keys
             /\ swap[Key(m)] # "none" /\ sent[Key(m)] = 0 /\ Key(m) # Key(l)
      BY <1>2, <2>2, <2>3, KeyAtHand DEF Moves, BInv, Provision, Resting
    <3>3. \A m \in Loops : loop'[m].pc = "provider" =>
             swap'[Key(m)'] # "none" /\ sent'[Key(m)'] = 0
      BY <1>1, <2>3, <2>4, <3>2
    <3>4. \A m, n \in Loops :
             loop'[m].pc = "provider" /\ loop'[n].pc = "provider" /\ Key(m)' = Key(n)' => m = n
      BY <2>3, <3>2 DEF BInv, Provision
    <3> QED
      BY <3>1, <3>3, <3>4 DEF Provision
  <2>8. SentFirst'
    <3>1. \A k \in Keys : sent[k] > 0 => sent'[k] > 0
      BY <2>4
    <3>2. \A m \in Loops \ {l} : loop'[m].pc \in Past => Key(m) \in Keys /\ sent[Key(m)] > 0
      BY <2>3, KeyAtHand DEF Moves, BInv, SentFirst, Past, Resting
    <3>3. \A m \in Loops : loop'[m].pc \in Past => sent'[Key(m)'] > 0
      BY <2>3, <2>4, <3>1, <3>2
    <3>4. \A k \in Keys : swap'[k] \in Hashed => sent'[k] > 0
      BY <1>1, <3>1 DEF BInv, SentFirst
    <3> QED
      BY <3>3, <3>4 DEF SentFirst
  <2>9. ExecutedIsSent'
    <3>1. \A k \in LimitKeys : sent[k] > 0 => sent'[k] > 0
      BY <2>4 DEF LimitKeys
    <3> QED
      BY <1>1, <3>1 DEF BInv, ExecutedIsSent
  <2> QED
    BY <2>5, <2>6, <2>7, <2>8, <2>9 DEF BInv
<1> QED
  BY <1>4, <1>5 DEF Provide

LEMMA NextKeepsBInv ==
  ASSUME BInv, [Next]_vars
  PROVE  BInv'
<1>1. CASE UNCHANGED vars
  <2>1. UNCHANGED <<loops, whole, hour, limit, dca, swap, sent, loop, faults, counted>>
    BY <1>1 DEF vars
  <2> QED
    BY <2>1, OutsideKeeps DEF BInv, TypeOK
<1>2. ASSUME NEW l \in loops, Pass(l) \/ Crash(l)
      PROVE  BInv'
  <2>1. l \in Loops
    BY DEF BInv, TypeOK
  <2> QED
    BY <1>2, <2>1, FetchPendingKeeps, MarkTriggeredKeeps, CheckDcaKeeps, StartSwapKeeps,
       CheckKeyKeeps, InsertSwapKeeps, ProvideKeeps, SubmitKeeps, RefetchKeeps, MarkFailedKeeps,
       RecordExecutedKeeps, ReadCountKeeps, WriteCountKeeps, HandleErrorKeeps, CrashKeeps
       DEF Pass
<1> QED
  BY <1>1, <1>2, PollKeeps, TickKeeps, UserKeeps DEF Next

LEMMA InitBInv ==
  ASSUME Init
  PROVE  BInv
<1>1. 0 \in Hours /\ 0 \in 0..(MaxExecutions - 1) /\ 0 \in 0..(MaxHour + 1)
      /\ 1 \in 0..(MaxHour + 1) /\ 0 \in 0..MaxFaults
  BY OrderAssumption DEF Hours
<1>2. TypeOK
  <2>1. dca \in [status : DCAStatus, n : Nat, next : 0..(MaxHour + 1)]
    BY <1>1 DEF Init, NoDca, NewDca, DCAStatus
  <2>2. loop \in [Loops -> LoopRecords]
    BY <1>1 DEF Init, IdleLoop, LoopRecords, PCs
  <2>3. loops \in (SUBSET Loops) \ {{}} /\ whole \in BOOLEAN /\ hour \in Hours
        /\ faults \in 0..MaxFaults /\ counted \subseteq DcaKeys
    BY <1>1 DEF Init
  <2>4. limit \in OrderStatus
    BY DEF Init, OrderStatus
  <2>5. swap \in [Keys -> SwapStatus] /\ sent \in [Keys -> Nat]
    BY DEF Init, SwapStatus
  <2> QED
    BY <2>1, <2>2, <2>3, <2>4, <2>5 DEF TypeOK, LoopRecords, PCs
<1>3. \A l \in Loops : loop[l] = IdleLoop
  BY DEF Init
<1>4. \A k \in Keys : swap[k] = "none" /\ sent[k] = 0
  BY DEF Init
<1>5. AtHand
  BY <1>3 DEF AtHand, Shaped, IdleLoop, Resting
<1>6. Provision /\ SentFirst
  BY <1>3, <1>4 DEF Provision, SentFirst, Hashed, IdleLoop, Past
<1>7. ExecutedIsSent
  BY DEF Init, ExecutedIsSent
<1> QED
  BY <1>2, <1>5, <1>6, <1>7 DEF BInv

LEMMA BInvAlways == Spec => []BInv
<1>1. BInv /\ [Next]_vars => BInv'
  BY NextKeepsBInv
<1> QED
  BY <1>1, InitBInv, PTL DEF Spec

-----------------------------------------------------------------------------
(* Theorems for any number of loops.                                       *)

\* Every reachable state is well typed; in particular a DCA order's key never
\* has a slot beyond the order's limit, and the loop's records keep their form.
THEOREM OrdersTypeCorrect == Spec => []TypeOK
<1>1. BInv => TypeOK
  BY DEF BInv
<1> QED
  BY <1>1, BInvAlways, PTL

\* One idempotency key broadcasts at most one transaction, in any number of
\* processes, through failed rows, swept rows and restarts: the unique index
\* of swap_transactions makes the loop that inserts the row the only sender.
THEOREM OrdersSentOncePerKey == Spec => []SentOncePerKey
<1>1. BInv => SentOncePerKey
  BY DEF BInv, Provision, SentOncePerKey
<1> QED
  BY <1>1, BInvAlways, PTL

\* A limit order called executed was broadcast, also when the loop was handed
\* the row of another loop's attempt by _check_idempotency.
THEOREM OrdersExecutedIsSent == Spec => []ExecutedIsSent
<1>1. BInv => ExecutedIsSent
  BY DEF BInv
<1> QED
  BY <1>1, BInvAlways, PTL

-----------------------------------------------------------------------------
(* A single loop: the limit order.                                         *)

\* Nothing is sent for the limit order, and its sent rows that failed stay failed.
LimitQuiet ==
  \A k \in LimitKeys :
    /\ sent'[k] = sent[k]
    /\ sent[k] > 0 /\ (swap[k] \in FailedStatus \/ faults > 0) => swap'[k] \in FailedStatus \/ faults' > 0

\* A step of a loop that is not at the limit order afterwards.
LEMMA LimitElsewhere ==
  ASSUME NEW l \in Loops, LimitOnce(l), LimitQuiet,
         loop'[l].order # "limit", loop'[l].pc # "prices",
         limit' = "pending" => limit = "pending",
         limit' = "failed" => limit = "failed"
  PROVE  LimitOnce(l)'
  BY DEF LimitOnce, NoneSent, LimitQuiet

\* A step of a loop that stays at the limit order and sends nothing.
LEMMA LimitWithin ==
  ASSUME NEW l \in Loops, LimitOnce(l), LimitQuiet,
         loop[l].order = "limit", loop'[l].order = "limit", loop'[l].pc # "prices",
         limit' = limit \/ limit' = "cancelled",
         NoneSent \/ Key(l)' = Key(l),
         loop'[l].pc \in {"quote", "check", "insert", "provider"} => NoneSent,
         loop'[l].pc = "raised" /\ sent'[Key(l)'] > 0 =>
           swap'[Key(l)'] \in FailedStatus \/ faults' > 0
  PROVE  LimitOnce(l)'
<1>1. NoneSent => NoneSent'
  BY DEF NoneSent, LimitQuiet
<1>2. limit' \in {"triggered", "cancelled"}
  BY DEF LimitOnce
<1>3. \A k \in LimitKeys : sent'[k] > 0 => k = Key(l)'
  BY DEF LimitOnce, NoneSent, LimitQuiet
<1>4. \A k1, k2 \in LimitKeys : sent'[k1] > 0 /\ sent'[k2] > 0 => k1 = k2
  BY <1>3
<1> QED
  BY <1>1, <1>2, <1>3, <1>4 DEF LimitOnce

\* The key at hand is one of the limit order's only at the limit order.
LEMMA KeyKind ==
  ASSUME BInv, NEW l \in Loops, loop[l].pc \notin Resting
  PROVE  Key(l) \in LimitKeys <=> loop[l].order = "limit"
  BY KeyAtHand DEF LimitKeys, DcaKeys, Key

\* Steps that leave the swaps alone.
LEMMA QuietWithSwaps ==
  ASSUME BInv, UNCHANGED <<swap, sent>>, faults' = faults \/ Fault
  PROVE  LimitQuiet
<1>1. faults > 0 => faults' > 0
  BY DEF Fault, BInv, TypeOK
<1> QED
  BY <1>1 DEF LimitQuiet

LEMMA LeaveLimit ==
  ASSUME BInv, NEW l \in Loops, LimitOnce(l),
         Leave(l) \/ loop' = [loop EXCEPT ![l] = IdleLoop],
         UNCHANGED <<swap, sent>>, faults' = faults \/ Fault,
         limit' = "pending" => limit = "pending",
         limit' = "failed" => limit = "failed"
  PROVE  LimitOnce(l)'
<1>1. loop'[l].pc \in {"dues", "idle"} /\ loop'[l].order = "none"
  BY LeaveFacts DEF BInv
<1> QED
  BY <1>1, QuietWithSwaps, LimitElsewhere

LEMMA FetchPendingLimit ==
  ASSUME BInv, NEW l \in Loops, LimitOnce(l), FetchPending(l)
  PROVE  LimitOnce(l)'
<1>1. UNCHANGED <<swap, sent, faults>>
  BY DEF FetchPending
<1>2. LimitQuiet
  BY <1>1, QuietWithSwaps
<1>3. loop[l].order = "none"
  BY DEF FetchPending, At, BInv, AtHand, Shaped, Resting
<1>4. CASE limit \in Fetched /\ Goto(l, "prices") /\ UNCHANGED limit
  <2>1. "prices" \in PCs
    BY DEF PCs
  <2>2. loop'[l].pc = "prices" /\ loop'[l].order = "none"
    BY <1>3, <1>4, <2>1, GotoFacts DEF BInv
  <2>3. limit = "pending"
    BY <1>4 DEF Fetched
  <2> QED
    BY <1>1, <1>4, <2>2, <2>3 DEF LimitOnce, NoneSent
<1>5. CASE Goto(l, "dues") /\ (limit' = "expired" \/ limit' = limit)
  <2>1. "dues" \in PCs
    BY DEF PCs
  <2>2. loop'[l].pc = "dues" /\ loop'[l].order = "none"
    BY <1>3, <1>5, <2>1, GotoFacts DEF BInv
  <2> QED
    BY <1>2, <1>5, <2>2, LimitElsewhere
<1> QED
  BY <1>4, <1>5 DEF FetchPending

LEMMA MarkTriggeredLimit ==
  ASSUME BInv, NEW l \in Loops, LimitOnce(l), MarkTriggered(l)
  PROVE  LimitOnce(l)'
<1>1. UNCHANGED <<swap, sent, faults>>
  BY DEF MarkTriggered
<1>2. LimitQuiet
  BY <1>1, QuietWithSwaps
<1>3. loop[l].order = "none" /\ loop[l].pc = "prices"
  BY DEF MarkTriggered, At, BInv, AtHand, Shaped, Resting
<1>4. CASE \E pc \in {"dues", "idle"} : Goto(l, pc) /\ UNCHANGED limit
  <2>1. PICK pc \in {"dues", "idle"} : Goto(l, pc)
    BY <1>4
  <2>2. pc \in PCs
    BY DEF PCs
  <2>3. loop'[l].pc = pc /\ loop'[l].order = "none"
    BY <1>3, <2>1, <2>2, GotoFacts DEF BInv
  <2> QED
    BY <1>2, <1>4, <2>3, LimitElsewhere
<1>5. CASE /\ limit' = "triggered"
           /\ loop' = [loop EXCEPT ![l].pc = "quote", ![l].order = "limit"]
  <2>1. loop'[l].pc = "quote" /\ loop'[l].order = "limit"
    BY <1>5 DEF BInv, TypeOK
  <2>2. NoneSent
    BY <1>3 DEF LimitOnce
  <2>3. NoneSent' /\ \A k \in LimitKeys : ~(sent'[k] > 0)
    BY <1>1, <2>2 DEF NoneSent
  <2> QED
    BY <1>5, <2>1, <2>3 DEF LimitOnce
<1> QED
  BY <1>4, <1>5 DEF MarkTriggered

LEMMA CheckDcaLimit ==
  ASSUME BInv, NEW l \in Loops, LimitOnce(l), CheckDca(l)
  PROVE  LimitOnce(l)'
<1>1. UNCHANGED <<swap, sent, faults, limit>>
  BY DEF CheckDca
<1>2. loop[l].order = "none"
  BY DEF CheckDca, At, BInv, AtHand, Shaped, Resting
<1>3. loop'[l].pc # "prices" /\ loop'[l].order # "limit"
  BY <1>2 DEF CheckDca, Goto, BInv, TypeOK
<1> QED
  BY <1>1, <1>3, QuietWithSwaps, LimitElsewhere

\* A step within an order that leaves the swaps alone.
LEMMA GotoLimit ==
  ASSUME BInv, NEW l \in Loops, LimitOnce(l), NEW pc \in PCs \ Resting, Goto(l, pc),
         loop[l].pc \notin Resting, UNCHANGED <<swap, sent, limit>>, faults' = faults \/ Fault,
         loop[l].order = "limit" =>
           /\ pc \in {"quote", "check", "insert", "provider"} => NoneSent
           /\ pc = "raised" /\ sent[Key(l)] > 0 => swap[Key(l)] \in FailedStatus \/ faults' > 0
  PROVE  LimitOnce(l)'
<1>1. loop'[l].pc = pc /\ loop'[l].order = loop[l].order /\ Key(l)' = Key(l)
  BY GotoFacts DEF BInv
<1>2. pc # "prices"
  BY DEF Resting
<1>3. LimitQuiet
  BY QuietWithSwaps
<1>4. CASE loop[l].order = "limit"
  BY <1>1, <1>2, <1>3, <1>4, LimitWithin
<1>5. CASE loop[l].order # "limit"
  BY <1>1, <1>2, <1>3, <1>5, LimitElsewhere
<1> QED
  BY <1>4, <1>5

\* Until the provider is called, nothing was sent for the limit order.
LEMMA UnsentYet ==
  ASSUME BInv, NEW l \in Loops, LimitOnce(l), loop[l].order = "limit",
         loop[l].pc \in {"quote", "check", "insert", "provider"}
  PROVE  NoneSent /\ sent[Key(l)] = 0
<1>1. NoneSent
  BY DEF LimitOnce
<1>2. Key(l) \in LimitKeys
  BY KeyKind DEF Resting
<1> QED
  BY <1>1, <1>2 DEF NoneSent

LEMMA StartSwapLimit ==
  ASSUME BInv, NEW l \in Loops, LimitOnce(l), StartSwap(l)
  PROVE  LimitOnce(l)'
<1>1. UNCHANGED <<swap, sent, faults, limit>>
  BY DEF StartSwap, ordersOnly
<1>2. loop[l].pc = "quote" /\ loop[l].pc \notin Resting
  BY DEF StartSwap, At, Resting
<1>3. CASE Leave(l)
  BY <1>1, <1>3, LeaveLimit
<1>4. CASE Goto(l, "raised")
  <2>1. "raised" \in PCs \ Resting
    BY DEF PCs, Resting
  <2>2. loop[l].order = "limit" => sent[Key(l)] = 0
    BY <1>2, UnsentYet
  <2> QED
    BY <1>1, <1>2, <1>4, <2>1, <2>2, GotoLimit
<1>5. CASE loop' = [loop EXCEPT ![l].pc = "check", ![l].hour = hour]
  <2>1. loop'[l].pc = "check" /\ loop'[l].order = loop[l].order
    BY <1>5 DEF BInv, TypeOK
  <2>2. LimitQuiet
    BY <1>1, QuietWithSwaps
  <2>3. CASE loop[l].order = "limit"
    <3>1. NoneSent
      BY <1>2, <2>3, UnsentYet
    <3> QED
      BY <1>1, <2>1, <2>2, <2>3, <3>1, LimitWithin
  <2>4. CASE loop[l].order # "limit"
    BY <1>1, <2>1, <2>2, <2>4, LimitElsewhere
  <2> QED
    BY <2>3, <2>4
<1> QED
  BY <1>3, <1>4, <1>5 DEF StartSwap

LEMMA ReturnLimit ==
  ASSUME BInv, NEW l \in Loops, LimitOnce(l), Return(l), loop[l].pc \notin Resting,
         UNCHANGED <<swap, sent, faults, limit>>
  PROVE  LimitOnce(l)'
<1>1. CASE Leave(l)
  BY <1>1, LeaveLimit
<1>2. CASE Goto(l, "record")
  <2>1. "record" \in PCs \ Resting
    BY DEF PCs, Resting
  <2> QED
    BY <1>2, <2>1, GotoLimit
<1> QED
  BY <1>1, <1>2 DEF Return

LEMMA CheckKeyLimit ==
  ASSUME BInv, NEW l \in Loops, LimitOnce(l), CheckKey(l)
  PROVE  LimitOnce(l)'
<1>1. UNCHANGED <<swap, sent, faults, limit>>
  BY DEF CheckKey, ordersOnly
<1>2. loop[l].pc = "check" /\ loop[l].pc \notin Resting
  BY DEF CheckKey, At, Resting
<1>3. CASE Return(l)
  BY <1>1, <1>2, <1>3, ReturnLimit
<1>4. CASE \E pc \in {"insert", "raised"} : Goto(l, pc)
  <2>1. PICK pc \in {"insert", "raised"} : Goto(l, pc)
    BY <1>4
  <2>2. pc \in PCs \ Resting
    BY DEF PCs, Resting
  <2>3. loop[l].order = "limit" => NoneSent /\ sent[Key(l)] = 0
    BY <1>2, UnsentYet
  <2> QED
    BY <1>1, <1>2, <2>1, <2>2, <2>3, GotoLimit
<1> QED
  BY <1>3, <1>4 DEF CheckKey

\* A step within an order that updates its row.
LEMMA RowLimit ==
  ASSUME BInv, NEW l \in Loops, LimitOnce(l), NEW pc \in PCs \ Resting, Goto(l, pc),
         loop[l].pc \notin Resting, NEW status,
         swap' = [swap EXCEPT ![Key(l)] = status],
         UNCHANGED <<sent, limit, faults>>,
         loop[l].order = "limit" =>
           /\ pc \in {"quote", "check", "insert", "provider"} => NoneSent
           /\ pc = "raised" => status \in FailedStatus
  PROVE  LimitOnce(l)'
<1>1. loop'[l].pc = pc /\ loop'[l].order = loop[l].order /\ Key(l)' = Key(l) /\ pc # "prices"
  BY GotoFacts DEF BInv, Resting
<1>2. Key(l) \in Keys /\ (Key(l) \in LimitKeys <=> loop[l].order = "limit")
  BY KeyAtHand, KeyKind
<1>3. /\ swap'[Key(l)] = status
      /\ \A k \in LimitKeys : k # Key(l) => swap'[k] = swap[k]
  BY <1>2 DEF BInv, TypeOK, LimitKeys
<1>4. CASE loop[l].order = "limit"
  <2>1. \A k \in LimitKeys : sent[k] > 0 => k = Key(l)
    BY <1>4 DEF LimitOnce
  <2>2. NoneSent => NoneSent'
    BY DEF NoneSent
  <2>3. limit' \in {"triggered", "cancelled"}
    BY <1>4 DEF LimitOnce
  <2>4. \A k1, k2 \in LimitKeys : sent'[k1] > 0 /\ sent'[k2] > 0 => k1 = k2
    BY <2>1
  <2> QED
    BY <1>1, <1>3, <1>4, <2>1, <2>2, <2>3, <2>4 DEF LimitOnce
<1>5. CASE loop[l].order # "limit"
  <2>1. LimitQuiet
    BY <1>2, <1>3, <1>5 DEF LimitQuiet
  <2> QED
    BY <1>1, <1>5, <2>1, LimitElsewhere
<1> QED
  BY <1>4, <1>5

LEMMA InsertSwapLimit ==
  ASSUME BInv, NEW l \in Loops, LimitOnce(l), InsertSwap(l)
  PROVE  LimitOnce(l)'
<1>1. UNCHANGED <<sent, faults, limit>>
  BY DEF InsertSwap
<1>2. loop[l].pc = "insert" /\ loop[l].pc \notin Resting
  BY DEF InsertSwap, At, Resting
<1>3. loop[l].order = "limit" => NoneSent /\ sent[Key(l)] = 0
  BY <1>2, UnsentYet
<1>4. CASE Goto(l, "raised") /\ UNCHANGED swap
  <2>1. "raised" \in PCs \ Resting
    BY DEF PCs, Resting
  <2> QED
    BY <1>1, <1>2, <1>3, <1>4, <2>1, GotoLimit
<1>5. CASE /\ Insertable(Key(l))
           /\ swap' = [swap EXCEPT ![Key(l)] = "executing"]
           /\ Goto(l, "provider")
  <2>1. "provider" \in PCs \ Resting
    BY DEF PCs, Resting
  <2> QED
    BY <1>1, <1>2, <1>3, <1>5, <2>1, RowLimit
<1> QED
  BY <1>4, <1>5 DEF InsertSwap

\* The only step that sends: it sends for the key at hand.
LEMMA ProvideLimit ==
  ASSUME BInv, NEW l \in Loops, LimitOnce(l), Provide(l)
  PROVE  LimitOnce(l)'
<1>1. UNCHANGED <<swap, faults, limit>>
  BY DEF Provide
<1>2. loop[l].pc = "provider" /\ loop[l].pc \notin Resting
  BY DEF Provide, At, Resting
<1>3. loop[l].order = "limit" => NoneSent /\ sent[Key(l)] = 0
  BY <1>2, UnsentYet
<1>4. CASE \E pc \in {"raised", "markFailed"} : Goto(l, pc) /\ UNCHANGED sent
  <2>1. PICK pc \in {"raised", "markFailed"} : Goto(l, pc)
    BY <1>4
  <2>2. pc \in PCs \ Resting
    BY DEF PCs, Resting
  <2> QED
    BY <1>1, <1>2, <1>3, <1>4, <2>1, <2>2, GotoLimit
<1>5. CASE /\ sent' = [sent EXCEPT ![Key(l)] = @ + 1]
           /\ \E pc \in {"submit", "markFailed"} : Goto(l, pc)
  <2>1. PICK pc \in {"submit", "markFailed"} : Goto(l, pc)
    BY <1>5
  <2>2. pc \in PCs
    BY DEF PCs
  <2>3. loop'[l].pc = pc /\ loop'[l].order = loop[l].order /\ Key(l)' = Key(l)
    BY <2>1, <2>2, GotoFacts DEF BInv
  <2>4. Key(l) \in Keys /\ (Key(l) \in LimitKeys <=> loop[l].order = "limit")
    BY <1>2, KeyAtHand, KeyKind
  <2>5. \A k \in LimitKeys : k # Key(l) => sent'[k] = sent[k]
    BY <1>5, <2>4 DEF BInv, TypeOK, LimitKeys
  <2>6. CASE loop[l].order = "limit"
    <3>1. \A k \in LimitKeys : sent'[k] > 0 => k = Key(l)
      BY <1>3, <2>5, <2>6 DEF NoneSent
    <3>2. limit' \in {"triggered", "cancelled"}
      BY <1>1, <2>6 DEF LimitOnce
    <3>3. \A k1, k2 \in LimitKeys : sent'[k1] > 0 /\ sent'[k2] > 0 => k1 = k2
      BY <3>1
    <3> QED
      BY <2>3, <2>6, <3>1, <3>2, <3>3 DEF LimitOnce
  <2>7. CASE loop[l].order # "limit"
    <3>1. LimitQuiet
      BY <1>1, <2>4, <2>5, <2>7 DEF LimitQuiet
    <3> QED
      BY <1>1, <2>3, <2>7, <3>1, LimitElsewhere
  <2> QED
    BY <2>6, <2>7
<1> QED
  BY <1>4, <1>5 DEF Provide

LEMMA SubmitLimit ==
  ASSUME BInv, NEW l \in Loops, LimitOnce(l), Submit(l)
  PROVE  LimitOnce(l)'
<1>1. UNCHANGED <<sent, limit>>
  BY DEF Submit
<1>2. loop[l].pc \notin Resting
  BY DEF Submit, At, Resting
<1>3. {"refetch", "markFailed"} \subseteq PCs \ Resting
  BY DEF PCs, Resting
<1>4. CASE Fault /\ Goto(l, "markFailed") /\ UNCHANGED swap
  BY <1>1, <1>2, <1>3, <1>4, GotoLimit
<1>5. CASE /\ swap' = [swap EXCEPT ![Key(l)] = "submitted"]
           /\ Goto(l, "refetch") /\ UNCHANGED faults
  BY <1>1, <1>2, <1>3, <1>5, RowLimit
<1> QED
  BY <1>4, <1>5 DEF Submit

LEMMA RefetchLimit ==
  ASSUME BInv, NEW l \in Loops, LimitOnce(l), Refetch(l)
  PROVE  LimitOnce(l)'
<1>1. UNCHANGED <<swap, sent, limit>>
  BY DEF Refetch
<1>2. loop[l].pc \notin Resting
  BY DEF Refetch, At, Resting
<1>3. "markFailed" \in PCs \ Resting
  BY DEF PCs, Resting
<1>4. CASE Return(l) /\ UNCHANGED faults
  BY <1>1, <1>2, <1>4, ReturnLimit
<1>5. CASE Fault /\ Goto(l, "markFailed")
  BY <1>1, <1>2, <1>3, <1>5, GotoLimit
<1> QED
  BY <1>4, <1>5 DEF Refetch

\* A fault leaves a trace.
LEMMA FaultFacts ==
  ASSUME BInv, Fault
  PROVE  faults' > 0
  BY DEF Fault, BInv, TypeOK

LEMMA MarkFailedLimit ==
  ASSUME BInv, NEW l \in Loops, LimitOnce(l), MarkFailed(l)
  PROVE  LimitOnce(l)'
<1>1. UNCHANGED <<sent, limit>> /\ Goto(l, "raised")
  BY DEF MarkFailed
<1>2. loop[l].pc \notin Resting
  BY DEF MarkFailed, At, Resting
<1>3. "raised" \in PCs \ Resting
  BY DEF PCs, Resting
<1>4. CASE swap' = [swap EXCEPT ![Key(l)] = Failed(swap[Key(l)])] /\ UNCHANGED faults
  <2>1. Failed(swap[Key(l)]) \in FailedStatus
    BY DEF Failed, FailedStatus
  <2> QED
    BY <1>1, <1>2, <1>3, <1>4, <2>1, RowLimit
<1>5. CASE Fault /\ UNCHANGED swap
  BY <1>1, <1>2, <1>3, <1>5, FaultFacts, GotoLimit
<1> QED
  BY <1>4, <1>5 DEF MarkFailed

LEMMA RecordExecutedLimit ==
  ASSUME BInv, NEW l \in Loops, LimitOnce(l), RecordExecuted(l)
  PROVE  LimitOnce(l)'
<1>1. UNCHANGED <<swap, sent>>
  BY DEF RecordExecuted
<1>2. loop[l].pc \notin Resting
  BY DEF RecordExecuted, At, Resting
<1>3. "raised" \in PCs \ Resting
  BY DEF PCs, Resting
<1>4. CASE limit' = "executed" /\ Leave(l) /\ UNCHANGED faults
  BY <1>1, <1>4, LeaveLimit
<1>5. CASE Fault /\ Goto(l, "raised") /\ UNCHANGED limit
  BY <1>1, <1>2, <1>3, <1>5, FaultFacts, GotoLimit
<1> QED
  BY <1>4, <1>5 DEF RecordExecuted

\* The count of the DCA order is no business of the limit order.
LEMMA CountLimit ==
  ASSUME BInv, NEW l \in Loops, LimitOnce(l), ReadCount(l) \/ WriteCount(l)
  PROVE  LimitOnce(l)'
<1>1. UNCHANGED <<swap, sent, limit>> /\ (faults' = faults \/ Fault)
  BY DEF ReadCount, WriteCount, ordersOnly
<1>2. loop[l].order = "dca"
  BY DEF ReadCount, WriteCount, At, BInv, AtHand, Shaped
<1>3. loop \in [Loops -> LoopRecords]
  BY DEF BInv, TypeOK, LoopRecords, PCs
<1>4. loop'[l].order # "limit" /\ loop'[l].pc # "prices"
  BY <1>2, <1>3 DEF ReadCount, WriteCount, Goto, Leave, IdleLoop, LoopRecords
<1> QED
  BY <1>1, <1>4, QuietWithSwaps, LimitElsewhere

\* The limit order is called failed with nothing sent, its row failed, or a
\* fault behind it.
LEMMA HandleErrorLimit ==
  ASSUME BInv, NEW l \in Loops, LimitOnce(l), HandleError(l)
  PROVE  LimitOnce(l)'
<1>1. UNCHANGED <<swap, sent, faults>> /\ Leave(l)
  BY DEF HandleError
<1>2. CASE loop[l].order = "limit"
  <2>1. loop'[l].pc \in {"dues", "idle"} /\ loop'[l].order = "none"
    BY <1>1, LeaveFacts DEF BInv
  <2>2. \A k \in LimitKeys : sent[k] > 0 => swap[k] \in FailedStatus \/ faults > 0
    BY <1>2 DEF LimitOnce, HandleError, At
  <2>3. limit' = "failed"
    BY <1>2 DEF HandleError
  <2> QED
    BY <1>1, <2>1, <2>2, <2>3 DEF LimitOnce
<1>3. CASE loop[l].order # "limit"
  BY <1>1, <1>3, LeaveLimit DEF HandleError
<1> QED
  BY <1>2, <1>3

LEMMA CrashLimit ==
  ASSUME BInv, NEW l \in Loops, LimitOnce(l), Crash(l)
  PROVE  LimitOnce(l)'
  BY LeaveLimit DEF Crash

\* The loop and what was sent stay, and failed rows stay failed or cost a fault.
LEMMA AsideLimit ==
  ASSUME BInv, NEW l \in Loops, LimitOnce(l), UNCHANGED <<sent, loop>>,
         faults' = faults \/ Fault,
         \A k \in Keys : swap[k] \in FailedStatus => swap'[k] \in FailedStatus \/ Fault,
         limit' = limit \/ limit' = "cancelled"
  PROVE  LimitOnce(l)'
<1>1. (faults > 0 => faults' > 0) /\ (Fault => faults' > 0)
  BY FaultFacts
<1>2. Key(l)' = Key(l) /\ (NoneSent <=> NoneSent')
  BY DEF Key, NoneSent
<1>3. loop[l].order = "limit" => Key(l) \in Keys
  BY DEF BInv, AtHand, Shaped, Key
<1>4. \A k \in LimitKeys : k \in Keys
  BY DEF LimitKeys
<1> QED
  BY <1>1, <1>2, <1>3, <1>4 DEF LimitOnce

LEMMA PollLimit ==
  ASSUME BInv, NEW l \in Loops, LimitOnce(l), NEW k \in Keys,
         PollSwap(k) \/ ReviveSwap(k) \/ SweepOrphan(k)
  PROVE  LimitOnce(l)'
<1>1. UNCHANGED <<sent, loop, limit>> /\ (faults' = faults \/ Fault)
  BY DEF PollSwap, ReviveSwap, SweepOrphan
<1>2. \A j \in Keys : swap[j] \in FailedStatus => swap'[j] \in FailedStatus \/ Fault
  BY DEF PollSwap, ReviveSwap, SweepOrphan, FailedStatus, BInv, TypeOK
<1> QED
  BY <1>1, <1>2, AsideLimit

LEMMA OutsideLimit ==
  ASSUME BInv, NEW l \in Loops, LimitOnce(l), Tick \/ User \/ UNCHANGED vars
  PROVE  LimitOnce(l)'
<1>1. UNCHANGED <<sent, loop, swap, faults>> /\ (limit' = limit \/ limit' = "cancelled")
  BY UserFacts DEF Tick, vars
<1> QED
  BY <1>1, AsideLimit

LEMMA NextKeepsLimit ==
  ASSUME BInv, NEW l \in Loops, loops = {l}, LimitOnce(l), [Next]_vars
  PROVE  LimitOnce(l)'
<1>1. ASSUME Pass(l) \/ Crash(l)
      PROVE  LimitOnce(l)'
  BY <1>1, FetchPendingLimit, MarkTriggeredLimit, CheckDcaLimit, StartSwapLimit, CheckKeyLimit,
     InsertSwapLimit, ProvideLimit, SubmitLimit, RefetchLimit, MarkFailedLimit,
     RecordExecutedLimit, CountLimit, HandleErrorLimit, CrashLimit DEF Pass
<1> QED
  BY <1>1, PollLimit, OutsideLimit DEF Next

-----------------------------------------------------------------------------
(* A single loop: the count of the DCA order.                              *)

\* The step loses no swap, or one at the price of a fault, now or before.
Spends(l) ==
  \/ /\ Lost(l)' \subseteq Lost(l)
     /\ faults' \in {faults, faults + 1}
     /\ Early(l)' => Early(l) \/ faults' = faults + 1
  \/ /\ \E k \in Keys : Lost(l)' \subseteq Lost(l) \cup {k}
     /\ Early(l)' => Early(l) /\ faults' = faults + 1
     /\ faults' = faults + 1 \/ (Early(l) /\ faults' = faults)

\* The account of lost swaps against faults is kept.
LEMMA AccountKept ==
  ASSUME BInv, NEW l \in Loops, CountedOnce(l), Spends(l)
  PROVE  /\ IsFiniteSet(Lost(l)')
         /\ Cardinality(Lost(l)') <= faults'
         /\ Early(l)' => Cardinality(Lost(l)') < faults'
<1> DEFINE L == Lost(l)
           M == Lost(l)'
<1>1. IsFiniteSet(L) /\ Cardinality(L) \in Nat /\ Cardinality(L) <= faults
      /\ (Early(l) => Cardinality(L) < faults)
  BY FS_CardinalityType DEF CountedOnce
<1>2. faults \in Nat
  BY DEF BInv, TypeOK
<1> HIDE DEF L, M
<1>3. CASE /\ M \subseteq L
           /\ faults' \in {faults, faults + 1}
           /\ Early(l)' => Early(l) \/ faults' = faults + 1
  <2>1. IsFiniteSet(M) /\ Cardinality(M) <= Cardinality(L)
    BY <1>1, <1>3, FS_Subset
  <2>2. Cardinality(M) \in Nat
    BY <2>1, FS_CardinalityType
  <2>3. Cardinality(M) <= faults' /\ (Early(l)' => Cardinality(M) < faults')
    BY <1>1, <1>2, <1>3, <2>1, <2>2
  <2> QED
    BY <2>1, <2>3 DEF M
<1>4. CASE /\ \E k \in Keys : M \subseteq L \cup {k}
           /\ Early(l)' => Early(l) /\ faults' = faults + 1
           /\ faults' = faults + 1 \/ (Early(l) /\ faults' = faults)
  <2>1. PICK k \in Keys : M \subseteq L \cup {k}
    BY <1>4
  <2>2. IsFiniteSet(L \cup {k}) /\ Cardinality(L \cup {k}) <= Cardinality(L) + 1
    <3>1. /\ IsFiniteSet(L \cup {k})
          /\ Cardinality(L \cup {k}) \in {Cardinality(L), Cardinality(L) + 1}
      BY <1>1, FS_AddElement, Zenon
    <3> QED
      BY <1>1, <3>1
  <2>3. Cardinality(L \cup {k}) \in Nat
    BY <2>2, FS_CardinalityType
  <2>4. IsFiniteSet(M) /\ Cardinality(M) <= Cardinality(L \cup {k})
    BY <2>1, <2>2, FS_Subset
  <2>5. Cardinality(M) \in Nat
    BY <2>4, FS_CardinalityType
  <2>6. Cardinality(M) <= faults' /\ (Early(l)' => Cardinality(M) < faults')
    BY <1>1, <1>2, <1>4, <2>2, <2>3, <2>4, <2>5
  <2> QED
    BY <1>4, <2>4, <2>6 DEF M
<1> QED
  BY <1>3, <1>4 DEF Spends, L, M

\* Steps that do not count.
LEMMA CountKept ==
  ASSUME BInv, NEW l \in Loops, CountedOnce(l), Spends(l),
         counted' = counted, dca'.n = dca.n,
         loop'[l].order = "dca" => loop'[l].slot = dca.n,
         loop'[l].pc = "stats" => loop'[l].count = dca.n,
         loop'[l].pc = "refetch" => swap'[Key(l)'] \in {"submitted", "confirming"} \cup FailedStatus
  PROVE  CountedOnce(l)'
<1>1. /\ IsFiniteSet(Lost(l)')
      /\ Cardinality(Lost(l)') <= faults'
      /\ Early(l)' => Cardinality(Lost(l)') < faults'
  BY AccountKept
<1>2. /\ IsFiniteSet(counted') /\ dca'.n = Cardinality(counted')
      /\ \A k \in counted' : k.slot < dca'.n
      /\ dca'.n <= MaxExecutions
  BY DEF CountedOnce
<1> QED
  BY <1>1, <1>2 DEF CountedOnce

\* The loop leaves the order or dies, which loses the swap at hand unless it failed.
LEMMA LeaveCount ==
  ASSUME BInv, NEW l \in Loops, CountedOnce(l),
         Leave(l) \/ loop' = [loop EXCEPT ![l] = IdleLoop],
         UNCHANGED <<swap, sent, counted, dca>>, faults' = faults \/ Fault,
         Recording(l) => Fault \/ swap[Key(l)] \in FailedStatus \/ Early(l)
  PROVE  CountedOnce(l)'
<1>1. loop'[l].pc \in {"dues", "idle"} /\ loop'[l].order = "none"
  BY LeaveFacts DEF BInv
<1>2. ~Recording(l)' /\ ~Early(l)'
  BY <1>1 DEF Recording, Early
<1>3. faults' \in {faults, faults + 1} /\ (Fault => faults' = faults + 1)
  BY DEF Fault
<1>4. Spends(l)
  <2>1. CASE ~Recording(l) \/ swap[Key(l)] \in FailedStatus
    <3>1. Lost(l)' \subseteq Lost(l)
      BY <1>2, <2>1 DEF Lost
    <3> QED
      BY <1>2, <1>3, <3>1 DEF Spends
  <2>2. CASE Recording(l) /\ swap[Key(l)] \notin FailedStatus
    <3>1. Lost(l)' \subseteq Lost(l) \cup {Key(l)}
      BY <1>2 DEF Lost
    <3>2. Key(l) \in Keys
      BY <2>2, KeyAtHand DEF Recording, Resting
    <3> QED
      BY <1>2, <1>3, <2>2, <3>1, <3>2 DEF Spends
  <2> QED
    BY <2>1, <2>2
<1> QED
  BY <1>1, <1>4, CountKept

\* A step to another program counter of the same order that leaves the rows alone.
LEMMA GotoCount ==
  ASSUME BInv, NEW l \in Loops, CountedOnce(l), NEW pc \in PCs, Goto(l, pc),
         UNCHANGED <<swap, sent, counted>>, dca'.n = dca.n, faults' = faults \/ Fault,
         pc \notin {"stats", "refetch"},
         Recording(l) => Fault \/ pc \in {"submit", "markFailed", "record"}
  PROVE  CountedOnce(l)'
<1>1. loop'[l].pc = pc /\ loop'[l].order = loop[l].order /\ Key(l)' = Key(l)
      /\ loop'[l].slot = loop[l].slot
  BY GotoFacts DEF BInv
<1>2. ~Early(l)'
  BY <1>1 DEF Early
<1>3. faults' \in {faults, faults + 1} /\ (Fault => faults' = faults + 1)
  BY DEF Fault
<1>4. Spends(l)
  <2>1. CASE Recording(l) => Recording(l)'
    <3>1. Lost(l)' \subseteq Lost(l)
      BY <1>1, <2>1 DEF Lost
    <3> QED
      BY <1>2, <1>3, <3>1 DEF Spends
  <2>2. CASE Recording(l) /\ ~Recording(l)'
    <3>1. Lost(l)' \subseteq Lost(l) \cup {Key(l)}
      BY <1>1, <2>2 DEF Lost
    <3>2. Key(l) \in Keys
      BY <2>2, KeyAtHand DEF Recording, Resting
    <3>3. Fault
      BY <1>1, <2>2 DEF Recording
    <3> QED
      BY <1>2, <1>3, <3>1, <3>2, <3>3 DEF Spends
  <2> QED
    BY <2>1, <2>2
<1>5. loop'[l].order = "dca" => loop'[l].slot = dca.n
  BY <1>1 DEF CountedOnce
<1> QED
  BY <1>1, <1>4, <1>5, CountKept

\* Between swaps, nothing is lost.
LEMMA NothingSpent ==
  ASSUME BInv, NEW l \in Loops, UNCHANGED <<swap, sent, counted, faults>>,
         ~Recording(l), ~Recording(l)'
  PROVE  Spends(l)
<1>1. Lost(l)' \subseteq Lost(l)
  BY DEF Lost
<1>2. ~Early(l)'
  BY DEF Early
<1> QED
  BY <1>1, <1>2 DEF Spends

\* A loop that has not reached the provider records nothing.
LEMMA NotRecording ==
  ASSUME BInv, NEW l \in Loops,
         loop[l].pc \in Resting \cup {"quote", "check", "insert", "provider", "raised"}
  PROVE  ~Recording(l)
  BY DEF Recording, Resting

LEMMA FetchPendingCount ==
  ASSUME BInv, NEW l \in Loops, CountedOnce(l), FetchPending(l)
  PROVE  CountedOnce(l)'
<1>1. PICK pc \in {"prices", "dues"} : Goto(l, pc)
  BY DEF FetchPending
<1>2. pc \in PCs
  BY DEF PCs
<1>3. ~Recording(l)
  BY NotRecording DEF FetchPending, At, Resting
<1> QED
  BY <1>1, <1>2, <1>3, GotoCount DEF FetchPending

LEMMA MarkTriggeredCount ==
  ASSUME BInv, NEW l \in Loops, CountedOnce(l), MarkTriggered(l)
  PROVE  CountedOnce(l)'
<1>1. UNCHANGED <<dca, swap, sent, faults, counted>>
  BY DEF MarkTriggered
<1>2. ~Recording(l)
  BY NotRecording DEF MarkTriggered, At, Resting
<1>3. CASE \E pc \in {"dues", "idle"} : Goto(l, pc)
  <2>1. PICK pc \in {"dues", "idle"} : Goto(l, pc)
    BY <1>3
  <2>2. pc \in PCs
    BY DEF PCs
  <2> QED
    BY <1>1, <1>2, <2>1, <2>2, GotoCount
<1>4. CASE loop' = [loop EXCEPT ![l].pc = "quote", ![l].order = "limit"]
  <2>1. loop'[l].pc = "quote" /\ loop'[l].order = "limit"
    BY <1>4 DEF BInv, TypeOK
  <2>2. Spends(l)
    BY <1>1, <1>2, <2>1, NothingSpent DEF Recording
  <2> QED
    BY <1>1, <2>1, <2>2, CountKept
<1> QED
  BY <1>3, <1>4 DEF MarkTriggered

\* The count goes into the key.
LEMMA CheckDcaCount ==
  ASSUME BInv, NEW l \in Loops, CountedOnce(l), CheckDca(l)
  PROVE  CountedOnce(l)'
<1>1. UNCHANGED <<swap, sent, faults, counted>>
  BY DEF CheckDca
<1>2. dca'.n = dca.n
  BY DEF CheckDca, BInv, TypeOK
<1>3. ~Recording(l)
  BY NotRecording DEF CheckDca, At, Resting
<1>4. CASE Goto(l, "idle")
  <2>1. "idle" \in PCs
    BY DEF PCs
  <2> QED
    BY <1>1, <1>2, <1>3, <1>4, <2>1, GotoCount
<1>5. CASE loop' = [loop EXCEPT ![l].pc = "quote", ![l].order = "dca", ![l].slot = SlotRead]
  <2>1. loop'[l].pc = "quote" /\ loop'[l].slot = dca.n
    BY <1>5 DEF BInv, TypeOK, SlotRead
  <2>2. Spends(l)
    BY <1>1, <1>3, <2>1, NothingSpent DEF Recording
  <2> QED
    BY <1>1, <1>2, <2>1, <2>2, CountKept
<1> QED
  BY <1>4, <1>5 DEF CheckDca

LEMMA StartSwapCount ==
  ASSUME BInv, NEW l \in Loops, CountedOnce(l), StartSwap(l)
  PROVE  CountedOnce(l)'
<1>1. UNCHANGED <<dca, swap, sent, faults, counted>>
  BY DEF StartSwap, ordersOnly
<1>2. ~Recording(l)
  BY NotRecording DEF StartSwap, At, Resting
<1>3. CASE Leave(l)
  BY <1>1, <1>2, <1>3, LeaveCount
<1>4. CASE Goto(l, "raised")
  <2>1. "raised" \in PCs
    BY DEF PCs
  <2> QED
    BY <1>1, <1>2, <1>4, <2>1, GotoCount
<1>5. CASE loop' = [loop EXCEPT ![l].pc = "check", ![l].hour = hour]
  <2>1. loop'[l].pc = "check" /\ loop'[l].order = loop[l].order /\ loop'[l].slot = loop[l].slot
    BY <1>5 DEF BInv, TypeOK
  <2>2. Spends(l)
    BY <1>1, <1>2, <2>1, NothingSpent DEF Recording
  <2>3. loop'[l].order = "dca" => loop'[l].slot = dca.n
    BY <2>1 DEF CountedOnce
  <2> QED
    BY <1>1, <2>1, <2>2, <2>3, CountKept
<1> QED
  BY <1>3, <1>4, <1>5 DEF StartSwap

LEMMA CheckKeyCount ==
  ASSUME BInv, NEW l \in Loops, CountedOnce(l), CheckKey(l)
  PROVE  CountedOnce(l)'
<1>1. UNCHANGED <<dca, swap, sent, faults, counted>>
  BY DEF CheckKey, ordersOnly
<1>2. ~Recording(l)
  BY NotRecording DEF CheckKey, At, Resting
<1>3. CASE Leave(l)
  BY <1>1, <1>2, <1>3, LeaveCount
<1>4. CASE \E pc \in {"record", "insert", "raised"} : Goto(l, pc)
  <2>1. PICK pc \in {"record", "insert", "raised"} : Goto(l, pc)
    BY <1>4
  <2>2. pc \in PCs
    BY DEF PCs
  <2> QED
    BY <1>1, <1>2, <2>1, <2>2, GotoCount
<1> QED
  BY <1>3, <1>4 DEF CheckKey, Return

\* A step within an order that changes the row of the key at hand or sends for
\* it, after which its swap is being recorded, was not sent or has failed.
LEMMA RowCount ==
  ASSUME BInv, NEW l \in Loops, CountedOnce(l), NEW pc \in PCs, Goto(l, pc),
         loop[l].pc \notin Resting, UNCHANGED <<dca, counted, faults>>, pc # "stats",
         \A k \in Keys : k # Key(l) => swap'[k] = swap[k] /\ sent'[k] = sent[k],
         pc = "refetch" => swap'[Key(l)] = "submitted",
         \/ pc \in {"submit", "refetch", "markFailed"}
         \/ sent'[Key(l)] = 0
         \/ swap'[Key(l)] \in FailedStatus
  PROVE  CountedOnce(l)'
<1>1. loop'[l].pc = pc /\ loop'[l].order = loop[l].order /\ Key(l)' = Key(l)
      /\ loop'[l].slot = loop[l].slot
  BY GotoFacts DEF BInv
<1>2. Key(l) \in Keys /\ (Key(l) \in DcaKeys => loop[l].order = "dca")
  BY KeyAtHand DEF DcaKeys, Key
<1>3. Lost(l)' \subseteq Lost(l)
  <2>1. SUFFICES ASSUME NEW k \in DcaKeys, k \in Lost(l)'
                 PROVE  k \in Lost(l)
    BY DEF Lost
  <2>2. k \notin counted /\ sent'[k] > 0 /\ swap'[k] \notin FailedStatus /\ ~(Recording(l)' /\ k = Key(l))
    BY <1>1, <2>1 DEF Lost
  <2>3. k # Key(l)
    BY <1>1, <1>2, <2>2 DEF Recording
  <2>4. k \in Keys
    BY DEF DcaKeys
  <2> QED
    BY <2>2, <2>3, <2>4 DEF Lost
<1>4. ~Early(l)'
  BY <1>1 DEF Early
<1>5. Spends(l)
  BY <1>3, <1>4 DEF Spends
<1>6. loop'[l].order = "dca" => loop'[l].slot = dca.n
  BY <1>1 DEF CountedOnce
<1> QED
  BY <1>1, <1>5, <1>6, CountKept

LEMMA InsertSwapCount ==
  ASSUME BInv, NEW l \in Loops, CountedOnce(l), InsertSwap(l)
  PROVE  CountedOnce(l)'
<1>1. UNCHANGED <<dca, sent, faults, counted>>
  BY DEF InsertSwap
<1>2. loop[l].pc = "insert" /\ loop[l].pc \notin Resting
  BY DEF InsertSwap, At, Resting
<1>3. {"raised", "provider"} \subseteq PCs
  BY DEF PCs
<1>4. CASE Goto(l, "raised") /\ UNCHANGED swap
  BY <1>1, <1>2, <1>3, <1>4, NotRecording, GotoCount
<1>5. CASE /\ Insertable(Key(l))
           /\ swap' = [swap EXCEPT ![Key(l)] = "executing"]
           /\ Goto(l, "provider")
  <2>1. sent[Key(l)] = 0
    BY <1>2, <1>5, KeyAtHand DEF Insertable, BInv, Provision
  <2>2. \A k \in Keys : k # Key(l) => swap'[k] = swap[k]
    BY <1>5 DEF BInv, TypeOK
  <2> QED
    BY <1>1, <1>2, <1>3, <1>5, <2>1, <2>2, RowCount
<1> QED
  BY <1>4, <1>5 DEF InsertSwap

LEMMA ProvideCount ==
  ASSUME BInv, NEW l \in Loops, CountedOnce(l), Provide(l)
  PROVE  CountedOnce(l)'
<1>1. UNCHANGED <<dca, swap, faults, counted>>
  BY DEF Provide
<1>2. loop[l].pc = "provider" /\ loop[l].pc \notin Resting
  BY DEF Provide, At, Resting
<1>3. {"raised", "markFailed", "submit"} \subseteq PCs
  BY DEF PCs
<1>4. CASE \E pc \in {"raised", "markFailed"} : Goto(l, pc) /\ UNCHANGED sent
  <2>1. PICK pc \in {"raised", "markFailed"} : Goto(l, pc)
    BY <1>4
  <2> QED
    BY <1>1, <1>2, <1>3, <1>4, <2>1, NotRecording, GotoCount
<1>5. CASE /\ sent' = [sent EXCEPT ![Key(l)] = @ + 1]
           /\ \E pc \in {"submit", "markFailed"} : Goto(l, pc)
  <2>1. PICK pc \in {"submit", "markFailed"} : Goto(l, pc)
    BY <1>5
  <2>2. \A k \in Keys : k # Key(l) => sent'[k] = sent[k]
    BY <1>5 DEF BInv, TypeOK
  <2> QED
    BY <1>1, <1>2, <1>3, <2>1, <2>2, RowCount
<1> QED
  BY <1>4, <1>5 DEF Provide

LEMMA SubmitCount ==
  ASSUME BInv, NEW l \in Loops, CountedOnce(l), Submit(l)
  PROVE  CountedOnce(l)'
<1>1. UNCHANGED <<dca, sent, counted>>
  BY DEF Submit
<1>2. loop[l].pc \notin Resting
  BY DEF Submit, At, Resting
<1>3. {"refetch", "markFailed"} \subseteq PCs
  BY DEF PCs
<1>4. CASE Fault /\ Goto(l, "markFailed") /\ UNCHANGED swap
  BY <1>1, <1>3, <1>4, GotoCount
<1>5. CASE /\ swap' = [swap EXCEPT ![Key(l)] = "submitted"]
           /\ Goto(l, "refetch") /\ UNCHANGED faults
  <2>1. Key(l) \in Keys
    BY <1>2, KeyAtHand
  <2>2. /\ swap'[Key(l)] = "submitted"
        /\ \A k \in Keys : k # Key(l) => swap'[k] = swap[k]
    BY <1>5, <2>1 DEF BInv, TypeOK
  <2> QED
    BY <1>1, <1>2, <1>3, <1>5, <2>2, RowCount
<1> QED
  BY <1>4, <1>5 DEF Submit

\* A row that is not submitted any more failed, or was confirming too early.
LEMMA RefetchCount ==
  ASSUME BInv, NEW l \in Loops, CountedOnce(l), Refetch(l)
  PROVE  CountedOnce(l)'
<1>1. UNCHANGED <<dca, swap, sent, counted>>
  BY DEF Refetch
<1>2. loop[l].pc = "refetch"
  BY DEF Refetch, At
<1>3. {"record", "markFailed"} \subseteq PCs
  BY DEF PCs
<1>4. CASE ~Accepted(swap[Key(l)]) /\ Leave(l) /\ UNCHANGED faults
  <2>1. Recording(l) => swap[Key(l)] \in FailedStatus \/ Early(l)
    BY <1>2, <1>4 DEF Accepted, Early, CountedOnce
  <2> QED
    BY <1>1, <1>4, <2>1, LeaveCount
<1>5. CASE Goto(l, "record") /\ UNCHANGED faults
  BY <1>1, <1>3, <1>5, GotoCount
<1>6. CASE Fault /\ Goto(l, "markFailed")
  BY <1>1, <1>3, <1>6, GotoCount
<1> QED
  BY <1>4, <1>5, <1>6 DEF Refetch, Return

LEMMA MarkFailedCount ==
  ASSUME BInv, NEW l \in Loops, CountedOnce(l), MarkFailed(l)
  PROVE  CountedOnce(l)'
<1>1. UNCHANGED <<dca, sent, counted>> /\ Goto(l, "raised")
  BY DEF MarkFailed
<1>2. loop[l].pc \notin Resting
  BY DEF MarkFailed, At, Resting
<1>3. "raised" \in PCs
  BY DEF PCs
<1>4. CASE swap' = [swap EXCEPT ![Key(l)] = Failed(swap[Key(l)])] /\ UNCHANGED faults
  <2>1. Key(l) \in Keys
    BY <1>2, KeyAtHand
  <2>2. /\ swap'[Key(l)] \in FailedStatus
        /\ \A k \in Keys : k # Key(l) => swap'[k] = swap[k]
    BY <1>4, <2>1 DEF BInv, TypeOK, Failed, FailedStatus
  <2> QED
    BY <1>1, <1>2, <1>3, <1>4, <2>2, RowCount
<1>5. CASE Fault /\ UNCHANGED swap
  BY <1>1, <1>3, <1>5, GotoCount
<1> QED
  BY <1>4, <1>5 DEF MarkFailed

LEMMA RecordExecutedCount ==
  ASSUME BInv, NEW l \in Loops, CountedOnce(l), RecordExecuted(l)
  PROVE  CountedOnce(l)'
<1>1. UNCHANGED <<dca, swap, sent, counted>> /\ (faults' = faults \/ Fault)
  BY DEF RecordExecuted
<1>2. ~Recording(l)
  BY DEF RecordExecuted, Recording
<1>3. "raised" \in PCs
  BY DEF PCs
<1>4. CASE Leave(l)
  BY <1>1, <1>2, <1>4, LeaveCount
<1>5. CASE Goto(l, "raised")
  BY <1>1, <1>2, <1>3, <1>5, GotoCount
<1> QED
  BY <1>4, <1>5 DEF RecordExecuted

\* The stats transaction reads the count that is in the key.
LEMMA ReadCountCount ==
  ASSUME BInv, NEW l \in Loops, CountedOnce(l), ReadCount(l), whole
  PROVE  CountedOnce(l)'
<1>1. UNCHANGED <<dca, swap, sent, faults, counted>>
  BY DEF ReadCount, ordersOnly
<1>2. loop[l].pc = "record" /\ loop[l].order = "dca"
  BY DEF ReadCount, At
<1>3. /\ loop'[l].pc = "stats" /\ loop'[l].order = "dca" /\ loop'[l].count = dca.n
      /\ loop'[l].slot = loop[l].slot /\ loop'[l].hour = loop[l].hour
  BY <1>2 DEF ReadCount, BInv, TypeOK
<1>4. Key(l)' = Key(l) /\ Recording(l)' /\ ~Early(l)'
  BY <1>2, <1>3 DEF Key, Recording, Early
<1>5. Lost(l)' \subseteq Lost(l)
  BY <1>1, <1>4 DEF Lost
<1>6. Spends(l)
  BY <1>1, <1>4, <1>5 DEF Spends
<1>7. loop'[l].slot = dca.n
  BY <1>2, <1>3 DEF CountedOnce
<1> QED
  BY <1>1, <1>3, <1>6, <1>7, CountKept

\* The key counted is new: the earlier ones have smaller slots.
LEMMA WriteCountCount ==
  ASSUME BInv, NEW l \in Loops, CountedOnce(l), WriteCount(l)
  PROVE  CountedOnce(l)'
<1>1. UNCHANGED <<swap, sent>>
  BY DEF WriteCount
<1>2. loop[l].pc = "stats" /\ loop[l].order = "dca"
  BY DEF WriteCount, At, BInv, AtHand, Shaped
<1>3. CASE Fault /\ Goto(l, "raised") /\ UNCHANGED <<dca, counted>>
  <2>1. "raised" \in PCs
    BY DEF PCs
  <2> QED
    BY <1>1, <1>3, <2>1, GotoCount
<1>4. CASE /\ dca' = [dca EXCEPT !.n = loop[l].count + 1, !.next = hour + 1]
           /\ counted' = counted \cup {Key(l)}
           /\ Leave(l)
           /\ UNCHANGED faults
  <2>1. loop'[l].pc \in {"dues", "idle"} /\ loop'[l].order = "none"
    BY <1>4, LeaveFacts DEF BInv
  <2>2. dca.n \in Nat /\ loop[l].slot \in 0..(MaxExecutions - 1)
    BY DEF BInv, TypeOK
  <2>3. loop[l].count = dca.n /\ loop[l].slot = dca.n /\ Key(l).slot = dca.n
    BY <1>2 DEF CountedOnce, Key
  <2>4. dca'.n = dca.n + 1
    BY <1>4, <2>3 DEF BInv, TypeOK
  <2>5. IsFiniteSet(counted) /\ dca.n = Cardinality(counted) /\ \A k \in counted : k.slot < dca.n
    BY DEF CountedOnce
  <2>6. Key(l) \notin counted
    BY <2>2, <2>3, <2>5
  <2>7. IsFiniteSet(counted') /\ Cardinality(counted') = dca.n + 1
    BY <1>4, <2>5, <2>6, FS_AddElement
  <2>8. \A k \in counted' : k.slot < dca.n + 1
    <3>1. \A k \in counted : k.slot \in Nat
      BY OrderAssumption DEF BInv, TypeOK, DcaKeys, Keys
    <3> QED
      BY <1>4, <2>2, <2>3, <2>5, <3>1
  <2>9. dca.n + 1 <= MaxExecutions
    BY <2>2, <2>3, OrderAssumption
  <2>10. ~Early(l)'
    BY <2>1 DEF Early
  <2>11. Lost(l)' \subseteq Lost(l)
    BY <1>1, <1>4 DEF Lost
  <2>12. Spends(l)
    BY <1>4, <2>10, <2>11 DEF Spends
  <2>13. /\ IsFiniteSet(Lost(l)')
         /\ Cardinality(Lost(l)') <= faults'
    BY <2>12, AccountKept
  <2> QED
    BY <2>1, <2>4, <2>7, <2>8, <2>9, <2>10, <2>13 DEF CountedOnce
<1> QED
  BY <1>3, <1>4 DEF WriteCount

LEMMA HandleErrorCount ==
  ASSUME BInv, NEW l \in Loops, CountedOnce(l), HandleError(l)
  PROVE  CountedOnce(l)'
<1>1. ~Recording(l)
  BY NotRecording DEF HandleError, At
<1> QED
  BY <1>1, LeaveCount DEF HandleError

LEMMA CrashCount ==
  ASSUME BInv, NEW l \in Loops, CountedOnce(l), Crash(l)
  PROVE  CountedOnce(l)'
  BY LeaveCount DEF Crash

\* What the poller and the sweep leave of the loop's account.
LEMMA AsideCount ==
  ASSUME BInv, NEW l \in Loops, CountedOnce(l), NEW k \in Keys,
         UNCHANGED <<sent, loop, dca, counted>>, Spends(l),
         swap'[k] \in {"submitted", "confirming"} \cup FailedStatus,
         \A j \in Keys : j # k => swap'[j] = swap[j]
  PROVE  CountedOnce(l)'
<1>1. Key(l)' = Key(l)
  BY DEF Key
<1>2. loop'[l].pc = "refetch" => swap'[Key(l)'] \in {"submitted", "confirming"} \cup FailedStatus
  <2>1. loop[l].pc = "refetch" => Key(l) \in Keys
    BY KeyAtHand DEF Resting
  <2> QED
    BY <1>1, <2>1 DEF CountedOnce
<1>3. /\ loop'[l].order = "dca" => loop'[l].slot = dca.n
      /\ loop'[l].pc = "stats" => loop'[l].count = dca.n
  BY DEF CountedOnce
<1> QED
  BY <1>2, <1>3, CountKept

\* An early confirmation of the swap at hand is a fault.
LEMMA PollCount ==
  ASSUME BInv, NEW l \in Loops, loops = {l}, CountedOnce(l), NEW k \in Keys,
         PollSwap(k) \/ SweepOrphan(k)
  PROVE  CountedOnce(l)'
<1>1. UNCHANGED <<sent, loop, dca, counted>> /\ faults' \in {faults, faults + 1}
  BY DEF PollSwap, SweepOrphan, Fault
<1>2. Key(l)' = Key(l) /\ (Recording(l)' <=> Recording(l))
  BY <1>1 DEF Key, Recording
<1>3. PICK status \in {"submitted", "confirming"} \cup FailedStatus :
        /\ swap' = [swap EXCEPT ![k] = status]
        /\ swap[k] \notin FailedStatus
        /\ status = "confirming" /\ Key(l) = k => faults' = faults + 1
  BY DEF PollSwap, SweepOrphan, InFlight, Fault, FailedStatus
<1>4. swap'[k] = status /\ \A j \in Keys : j # k => swap'[j] = swap[j]
  BY <1>3 DEF BInv, TypeOK
<1>5. Lost(l)' \subseteq Lost(l)
  <2>1. \A j \in Keys : swap'[j] \notin FailedStatus => swap[j] \notin FailedStatus
    BY <1>3, <1>4
  <2> QED
    BY <1>1, <1>2, <2>1 DEF Lost, DcaKeys
<1>6. Early(l)' => Early(l) \/ faults' = faults + 1
  <2>1. Recording(l) => Key(l) \in Keys
    BY KeyAtHand DEF Recording, Resting
  <2> QED
    BY <1>1, <1>2, <1>3, <1>4, <2>1 DEF Early
<1>7. Spends(l)
  BY <1>1, <1>5, <1>6 DEF Spends
<1> QED
  BY <1>1, <1>4, <1>7, AsideCount

\* A row that comes back after it failed is a fault: it is lost, unless it is at hand.
LEMMA ReviveCount ==
  ASSUME BInv, NEW l \in Loops, CountedOnce(l), NEW k \in Keys, ReviveSwap(k)
  PROVE  CountedOnce(l)'
<1>1. UNCHANGED <<sent, loop, dca, counted>> /\ faults' = faults + 1
  BY DEF ReviveSwap, Fault
<1>2. Key(l)' = Key(l) /\ (Recording(l)' <=> Recording(l))
  BY <1>1 DEF Key, Recording
<1>3. PICK status \in {"submitted", "confirming"} : swap' = [swap EXCEPT ![k] = status]
  BY DEF ReviveSwap
<1>4. swap'[k] = status /\ \A j \in Keys : j # k => swap'[j] = swap[j]
  BY <1>3 DEF BInv, TypeOK
<1>5. CASE Recording(l) /\ Key(l) = k
  <2>1. Lost(l)' \subseteq Lost(l)
    BY <1>1, <1>2, <1>4, <1>5 DEF Lost, DcaKeys
  <2>2. Spends(l)
    BY <1>1, <2>1 DEF Spends
  <2> QED
    BY <1>1, <1>4, <2>2, AsideCount
<1>6. CASE ~(Recording(l) /\ Key(l) = k)
  <2>1. Lost(l)' \subseteq Lost(l) \cup {k}
    BY <1>1, <1>2, <1>4 DEF Lost, DcaKeys
  <2>2. Spends(l)
    <3>1. Recording(l) => Key(l) \in Keys
      BY KeyAtHand DEF Recording, Resting
    <3>2. Early(l)' => Early(l)
      BY <1>1, <1>2, <1>4, <1>6, <3>1 DEF Early
    <3> QED
      BY <1>1, <2>1, <3>2 DEF Spends
  <2> QED
    BY <1>1, <1>4, <2>2, AsideCount
<1> QED
  BY <1>5, <1>6

\* Neither the clock nor the user changes the count.
LEMMA OutsideCount ==
  ASSUME BInv, NEW l \in Loops, CountedOnce(l), Tick \/ User \/ UNCHANGED vars
  PROVE  CountedOnce(l)'
<1>1. UNCHANGED <<sent, loop, swap, faults, counted>>
  BY UserFacts DEF Tick, vars
<1>2. dca'.n = dca.n
  <2>1. CASE User
    <3>1. PICK status \in DCAStatus, next \in 0..(MaxHour + 1) :
             dca' = [dca EXCEPT !.status = status, !.next = next]
      BY <2>1, UserFacts
    <3> QED
      BY <3>1 DEF BInv, TypeOK
  <2> QED
    BY <2>1 DEF Tick, vars
<1>3. Key(l)' = Key(l) /\ (Recording(l)' <=> Recording(l)) /\ (Early(l)' <=> Early(l))
  BY <1>1 DEF Key, Recording, Early
<1>4. Lost(l)' \subseteq Lost(l)
  BY <1>1, <1>3 DEF Lost
<1>5. Spends(l)
  BY <1>1, <1>3, <1>4 DEF Spends
<1>6. /\ loop'[l].order = "dca" => loop'[l].slot = dca.n
      /\ loop'[l].pc = "stats" => loop'[l].count = dca.n
      /\ loop'[l].pc = "refetch" => swap'[Key(l)'] \in {"submitted", "confirming"} \cup FailedStatus
  BY <1>1, <1>3 DEF CountedOnce
<1> QED
  BY <1>1, <1>2, <1>5, <1>6, CountKept

LEMMA NextKeepsCount ==
  ASSUME BInv, NEW l \in Loops, loops = {l}, whole, CountedOnce(l), [Next]_vars
  PROVE  CountedOnce(l)'
<1>1. ASSUME Pass(l) \/ Crash(l)
      PROVE  CountedOnce(l)'
  BY <1>1, FetchPendingCount, MarkTriggeredCount, CheckDcaCount, StartSwapCount, CheckKeyCount,
     InsertSwapCount, ProvideCount, SubmitCount, RefetchCount, MarkFailedCount,
     RecordExecutedCount, ReadCountCount, WriteCountCount, HandleErrorCount, CrashCount DEF Pass
<1> QED
  BY <1>1, PollCount, ReviveCount, OutsideCount DEF Next

-----------------------------------------------------------------------------
(* Theorems for a single loop.                                             *)

\* The deployment does not change.
LEMMA DeploymentStays ==
  ASSUME BInv, [Next]_vars
  PROVE  UNCHANGED <<loops, whole>>
<1>1. ASSUME NEW l \in loops, Pass(l) \/ Crash(l)
      PROVE  UNCHANGED <<loops, whole>>
  <2>1. CASE FetchPending(l) \/ MarkTriggered(l) \/ CheckDca(l) \/ StartSwap(l) \/ CheckKey(l)
    BY <2>1 DEF FetchPending, MarkTriggered, CheckDca, StartSwap, CheckKey, ordersOnly, config
  <2>2. CASE InsertSwap(l) \/ Provide(l) \/ Submit(l) \/ Refetch(l) \/ MarkFailed(l)
    BY <2>2 DEF InsertSwap, Provide, Submit, Refetch, MarkFailed, config
  <2>3. CASE RecordExecuted(l) \/ ReadCount(l) \/ WriteCount(l) \/ HandleError(l) \/ Crash(l)
    BY <2>3 DEF RecordExecuted, ReadCount, WriteCount, HandleError, Crash, ordersOnly, config
  <2> QED
    BY <1>1, <2>1, <2>2, <2>3 DEF Pass
<1>2. ASSUME NEW k \in Keys, PollSwap(k) \/ ReviveSwap(k) \/ SweepOrphan(k)
      PROVE  UNCHANGED <<loops, whole>>
  BY <1>2 DEF PollSwap, ReviveSwap, SweepOrphan, config
<1>3. CASE Tick \/ User \/ UNCHANGED vars
  BY <1>3, UserFacts DEF Tick, vars
<1> QED
  BY <1>1, <1>2, <1>3 DEF Next

LEMMA InitIInv ==
  ASSUME Init
  PROVE  IInv
<1>1. BInv
  BY InitBInv
<1>2. \A k \in Keys : swap[k] = "none" /\ sent[k] = 0
  BY DEF Init
<1>3. ASSUME NEW l \in Loops
      PROVE  LimitOnce(l) /\ CountedOnce(l)
  <2>1. loop[l].pc = "idle" /\ loop[l].order = "none"
    BY DEF Init, IdleLoop
  <2>2. \A k \in LimitKeys : sent[k] = 0
    BY <1>2 DEF LimitKeys
  <2>3. LimitOnce(l)
    BY <2>1, <2>2 DEF LimitOnce, NoneSent
  <2>4. counted = {} /\ dca.n = 0 /\ faults = 0
    BY DEF Init, NoDca, NewDca
  <2>5. Lost(l) = {}
    BY <1>2 DEF Lost, DcaKeys
  <2>6. IsFiniteSet({}) /\ Cardinality({}) = 0
    BY FS_EmptySet
  <2>7. ~Early(l)
    BY <2>1 DEF Early
  <2>8. CountedOnce(l)
    BY <2>1, <2>4, <2>5, <2>6, <2>7, OrderAssumption DEF CountedOnce
  <2> QED
    BY <2>3, <2>8
<1> QED
  BY <1>1, <1>3 DEF IInv

LEMMA NextKeepsIInv ==
  ASSUME IInv, [Next]_vars
  PROVE  IInv'
<1>1. BInv /\ BInv'
  BY NextKeepsBInv DEF IInv
<1>2. UNCHANGED <<loops, whole>>
  BY <1>1, DeploymentStays
<1>3. ASSUME NEW l \in Loops, loops = {l}
      PROVE  LimitOnce(l)' /\ (whole => CountedOnce(l)')
  BY <1>1, <1>3, NextKeepsLimit, NextKeepsCount DEF IInv
<1> QED
  BY <1>1, <1>2, <1>3 DEF IInv

LEMMA IInvAlways == Spec => []IInv
<1>1. IInv /\ [Next]_vars => IInv'
  BY NextKeepsIInv
<1> QED
  BY <1>1, InitIInv, PTL DEF Spec

\* A deployment with one loop.
LEMMA OneLoop ==
  ASSUME BInv, Cardinality(loops) = 1
  PROVE  \E l \in Loops : loops = {l}
<1>1. loops \subseteq Loops
  BY DEF BInv, TypeOK
<1>2. IsFiniteSet(loops)
  BY <1>1, OrderAssumption, FS_Subset
<1> QED
  BY <1>1, <1>2, FS_Singleton

\* With one loop a limit order is swapped at most once, through restarts, lost
\* answers and the change of the hour in its key, and it is called failed after a
\* broadcast only if its row failed too or a fault came between: _order_loop
\* leaves PENDING before it swaps and nothing makes an order pending again.
THEOREM OrdersLimitOnce == Spec => []LimitOnceInOneLoop
<1>1. IInv => LimitOnceInOneLoop
  <2>1. SUFFICES ASSUME IInv, Cardinality(loops) = 1
                 PROVE  LimitOnceInOneLoop
    BY DEF LimitOnceInOneLoop
  <2>2. PICK l \in Loops : loops = {l}
    BY <2>1, OneLoop DEF IInv
  <2> QED
    BY <2>1, <2>2 DEF IInv, LimitOnce, LimitOnceInOneLoop
<1> QED
  BY <1>1, IInvAlways, PTL

\* With one loop and a whole amount a DCA order's count is the number of swaps
\* it counted and stays within max_executions, and every other broadcast whose
\* row is not failed and which is not at hand cost a fault of its own: a crash, a
\* database error, an early confirmation, or a failed row brought back by the
\* execution reconciler or the status button.
THEOREM OrdersDcaCount == Spec => []DcaCountInOneLoop
<1>1. IInv => DcaCountInOneLoop
  <2>1. SUFFICES ASSUME IInv, Cardinality(loops) = 1, whole
                 PROVE  DcaCountInOneLoop
    BY DEF DcaCountInOneLoop
  <2>2. PICK l \in Loops : loops = {l}
    BY <2>1, OneLoop DEF IInv
  <2>3. BInv /\ CountedOnce(l)
    BY <2>1, <2>2 DEF IInv
  <2> DEFINE Missed == {k \in DcaKeys \ counted :
                          sent[k] > 0 /\ swap[k] \notin FailedStatus /\ ~InFlight(k)}
  <2>4. Missed \subseteq Lost(l)
    BY <2>2 DEF Lost, InFlight
  <2>5. IsFiniteSet(Lost(l)) /\ Cardinality(Lost(l)) <= faults
    BY <2>3 DEF CountedOnce
  <2> HIDE DEF Missed
  <2>6. IsFiniteSet(Missed) /\ Cardinality(Missed) <= Cardinality(Lost(l))
    BY <2>4, <2>5, FS_Subset
  <2>7. Cardinality(Missed) \in Nat /\ Cardinality(Lost(l)) \in Nat /\ faults \in Nat
    BY <2>3, <2>5, <2>6, FS_CardinalityType DEF BInv, TypeOK
  <2>8. Cardinality(Missed) <= faults
    BY <2>5, <2>6, <2>7
  <2>9. dca.n = Cardinality(counted) /\ dca.n <= MaxExecutions
    BY <2>3 DEF CountedOnce
  <2> QED
    BY <2>8, <2>9 DEF DcaCountInOneLoop, Missed
<1> QED
  BY <1>1, IInvAlways, PTL

=============================================================================
