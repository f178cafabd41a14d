------------------------------- MODULE Deposits -------------------------------
(***************************************************************************)
(* The deposit watcher of bot/services/deposit_watcher.py on one chain:    *)
(* scan_chain reads the transfer logs of a range of confirmed blocks, one  *)
(* chunk of addresses after the other, books every deposit together with   *)
(* the balance it moves, and advances the chain's cursor.                  *)
(*                                                                         *)
(* A deposit is a transfer log to the user's address; its identity (tx     *)
(* hash and log index) is the deposit itself.  Blocks under the            *)
(* confirmation depth are final, which is the policy the depth states.     *)
(***************************************************************************)
EXTENDS CustodialBalance, FiniteSets

CONSTANTS
  DepositSet,       \* transfers: [block, chunk, value, listed]
  Watchers,         \* instances of the deposit watcher
  Chunks,           \* address chunks of a scan: 1..Chunks
  CONFIRMATIONS,    \* blocks before a deposit is credited
  MAX_BLOCK_RANGE,  \* blocks read per pass
  MIN_DEPOSIT,      \* the floor under which a deposit is ignored
  COLD_START_LOOKBACK,
  NoCursor,         \* the chain has never been scanned
  InitialHead,      \* the chain's height when the watcher first starts
  MaxHead,          \* bound on the chain's height
  MaxErrors         \* bound on failing credit transactions

ASSUME DepositAssumption ==
  /\ DepositSet \subseteq [block : Nat, chunk : 1..Chunks, value : Nat, listed : BOOLEAN]
  /\ Watchers \subseteq Actors
  /\ {Chunks, CONFIRMATIONS, MAX_BLOCK_RANGE, MIN_DEPOSIT, COLD_START_LOOKBACK,
      InitialHead, MaxHead, MaxErrors} \subseteq Nat
  /\ MAX_BLOCK_RANGE > 0
  /\ InitialHead <= MaxHead
  /\ NoCursor \notin Nat

VARIABLES
  head,       \* the chain's height
  cursor,     \* last_scanned_block of deposit_scan_cursors
  credited,   \* deposits with a row in custodial_transactions
  watcher,    \* each watcher: program counter, range, next chunk, logs in hand
  origin,     \* history variable: the cursor the first finished scan began from
  failed      \* history variable: deposits whose credit raised a database error

depositVars == <<head, cursor, credited, watcher, origin, failed>>

IdleWatcher == [pc |-> "idle", from |-> 0, to |-> 0, chunk |-> 1, logs |-> {}, log |-> NoCursor]

DepositInit ==
  /\ head = InitialHead
  /\ cursor = NoCursor
  /\ credited = {}
  /\ watcher = [w \in Watchers |-> IdleWatcher]
  /\ origin = NoCursor
  /\ failed = {}

-----------------------------------------------------------------------------

Larger(a, b) == IF a > b THEN a ELSE b

Smaller(a, b) == IF a < b THEN a ELSE b

WatcherAt(w, pc) == watcher[w].pc = pc /\ CanRun(w)

\* The chain grows by a block and the transfers it holds.
NewBlock ==
  /\ head < MaxHead
  /\ head' = head + 1
  /\ UNCHANGED <<cursor, credited, watcher, origin, failed, home, balance, cached, running>>

SafeHead == head - CONFIRMATIONS

\* _get_cursor, or the cold start.
ScanFrom == IF cursor = NoCursor THEN Larger(0, SafeHead - COLD_START_LOOKBACK) ELSE cursor

\* scan_chain up to the first get_logs.
BeginScan(w) ==
  /\ WatcherAt(w, "idle")
  /\ SafeHead > 0
  /\ ScanFrom < SafeHead
  /\ watcher' = [watcher EXCEPT ![w] =
       [IdleWatcher EXCEPT !.pc = "fetch", !.from = ScanFrom,
                           !.to = Smaller(SafeHead, ScanFrom + MAX_BLOCK_RANGE)]]
  /\ Yield(w)
  /\ UNCHANGED <<head, cursor, credited, origin, failed, balance, cached>>

\* _handle_log: only allowlisted tokens, and no dust.
Creditable(d) == d.listed /\ d.value >= MIN_DEPOSIT

\* fromBlock = cursor + 1 to toBlock, both included.
InRange(d, from, to) == d.block > from /\ d.block <= to

\* get_logs of the next chunk of addresses.
FetchLogs(w) ==
  /\ WatcherAt(w, "fetch")
  /\ watcher[w].chunk <= Chunks
  /\ watcher' = [watcher EXCEPT ![w].pc = "handle",
       ![w].logs = {d \in DepositSet : /\ d.chunk = watcher[w].chunk
                                       /\ InRange(d, watcher[w].from, watcher[w].to)}]
  /\ Continue(w)
  /\ UNCHANGED <<head, cursor, credited, origin, failed, balance, cached>>

\* Mutant: the cursor is advanced although a chunk could not be read.
FetchErrorSkips(w) ==
  /\ WatcherAt(w, "fetch")
  /\ watcher' = [watcher EXCEPT ![w] = IdleWatcher]
  /\ cursor' = watcher[w].to
  /\ origin' = IF cursor = NoCursor THEN watcher[w].from ELSE origin
  /\ Yield(w)
  /\ UNCHANGED <<head, credited, failed, balance, cached>>

\* get_logs fails: the pass ends and the cursor stays.
FetchError(w) ==
  /\ WatcherAt(w, "fetch")
  /\ watcher[w].chunk <= Chunks
  /\ watcher' = [watcher EXCEPT ![w] = IdleWatcher]
  /\ Yield(w)
  /\ UNCHANGED <<head, cursor, credited, origin, failed, balance, cached>>

\* _handle_log skips a log without crediting it.
SkipLog(w, d) ==
  /\ WatcherAt(w, "handle")
  /\ d \in watcher[w].logs
  /\ ~Creditable(d)
  /\ watcher' = [watcher EXCEPT ![w].logs = @ \ {d}]
  /\ Continue(w)
  /\ UNCHANGED <<head, cursor, credited, origin, failed, balance, cached>>

\* The unique index on the deposit's idempotency key fires.
Booked(d) == d \in credited

\* Another transaction has inserted the key and not committed: the insert waits.
BeingBooked(w, d) ==
  \E v \in Watchers \ {w} : watcher[v].pc = "credit" /\ watcher[v].log = d

\* _credit inserts the row and reads the balance, or finds the deposit booked.
BeginCredit(w, d) ==
  /\ WatcherAt(w, "handle")
  /\ d \in watcher[w].logs
  /\ Creditable(d)
  /\ ~BeingBooked(w, d)
  /\ IF Booked(d)
     THEN /\ watcher' = [watcher EXCEPT ![w].logs = @ \ {d}]
          /\ UNCHANGED <<balance, cached>>
     ELSE /\ watcher' = [watcher EXCEPT ![w].pc = "credit", ![w].log = d]
          /\ ReadBalance(w)
  /\ Continue(w)
  /\ UNCHANGED <<head, cursor, credited, origin, failed>>

Handled(w) ==
  watcher' = [watcher EXCEPT ![w].pc = "handle", ![w].logs = @ \ {watcher[w].log},
                             ![w].log = NoCursor]

\* The row and the balance commit together.
CommitCredit(w) ==
  /\ WatcherAt(w, "credit")
  /\ Handled(w)
  /\ credited' = credited \cup {watcher[w].log}
  /\ AddToBalance(w, watcher[w].log.value)
  /\ Continue(w)
  /\ UNCHANGED <<head, cursor, origin, failed>>

\* Any other error of the transaction is logged, and the scan goes on.
CreditError(w) ==
  /\ WatcherAt(w, "credit")
  /\ Cardinality(failed) < MaxErrors
  /\ Handled(w)
  /\ Forget(w)
  /\ failed' = failed \cup {watcher[w].log}
  /\ Continue(w)
  /\ UNCHANGED <<head, cursor, credited, origin, balance>>

NextChunk(w) ==
  /\ WatcherAt(w, "handle")
  /\ watcher[w].logs = {}
  /\ watcher' = [watcher EXCEPT ![w].pc = "fetch", ![w].chunk = @ + 1]
  /\ Yield(w)
  /\ UNCHANGED <<head, cursor, credited, origin, failed, balance, cached>>

\* _set_cursor at the end of the pass, whatever the cursor is by now.
SetCursor(w) ==
  /\ WatcherAt(w, "fetch")
  /\ watcher[w].chunk > Chunks
  /\ cursor' = watcher[w].to
  /\ origin' = IF cursor = NoCursor THEN watcher[w].from ELSE origin
  /\ watcher' = [watcher EXCEPT ![w] = IdleWatcher]
  /\ Yield(w)
  /\ UNCHANGED <<head, credited, failed, balance, cached>>

WatcherStep(w) ==
  \/ BeginScan(w) \/ FetchLogs(w) \/ FetchError(w)
  \/ (\E d \in watcher[w].logs : SkipLog(w, d) \/ BeginCredit(w, d))
  \/ CommitCredit(w) \/ CreditError(w) \/ NextChunk(w) \/ SetCursor(w)

DepositNext == NewBlock \/ \E w \in Watchers : WatcherStep(w)

\* The death of process p: an open credit is rolled back.
DepositCrash(p) ==
  /\ watcher' = [w \in Watchers |-> IF Deployed(w) /\ home[w] = p THEN IdleWatcher ELSE watcher[w]]
  /\ UNCHANGED <<head, cursor, credited, origin, failed>>

=============================================================================
