--------------------------- MODULE CustodialBalance ---------------------------
(***************************************************************************)
(* One row of custodial_balances and the two ways bot/services/            *)
(* hot_wallet.py moves it: reserve_custodial_balance compares and swaps,   *)
(* update_custodial_balance reads a value and writes a new one.            *)
(*                                                                         *)
(* Actors are coroutines of Python processes.  The database calls of these *)
(* services are synchronous: from one await to the next a coroutine has    *)
(* its process to itself, while other processes run between any two of its *)
(* statements.  running records which coroutine a process is inside of.    *)
(*                                                                         *)
(* Simplifications.  Amounts are integers in the token's base unit, as     *)
(* quantize_to_decimals leaves them; the decimal string of the balance     *)
(* column is its number.  One user, chain and token: the balance rows of   *)
(* others are never touched, and the row exists (a first credit creates    *)
(* it with balance 0).                                                     *)
(***************************************************************************)
EXTENDS Integers

CONSTANTS
  Processes,        \* Python processes: python-api, python-worker
  Actors,           \* coroutines that move the balance
  Topologies,       \* deployments: which actors run, and in which process
  Nobody,           \* a process that is waiting in its event loop
  InitialBalance    \* the balance before any modelled operation

ASSUME BalanceAssumption ==
  /\ \A t \in Topologies : \E A \in SUBSET Actors : t \in [A -> Processes]
  /\ Nobody \notin Actors
  /\ InitialBalance \in Nat

VARIABLES
  home,      \* the process of each actor that runs (never changes)
  balance,   \* the committed balance
  cached,    \* the balance each actor's open transaction has read
  running    \* the coroutine each process is inside of, or Nobody

BalanceInit ==
  /\ home \in Topologies
  /\ balance = InitialBalance
  /\ cached = [a \in Actors |-> 0]
  /\ running = [p \in Processes |-> Nobody]

-----------------------------------------------------------------------------
(* The event loop.                                                         *)

Deployed(a) == a \in DOMAIN home

CanRun(a) == Deployed(a) /\ running[home[a]] \in {a, Nobody}

\* The coroutine goes on without awaiting.
Continue(a) == running' = [running EXCEPT ![home[a]] = a] /\ UNCHANGED home

\* The coroutine awaits or ends.
Yield(a) == running' = [running EXCEPT ![home[a]] = Nobody] /\ UNCHANGED home

-----------------------------------------------------------------------------
(* The balance row.                                                        *)

\* SELECT of the row, in an open transaction.
ReadBalance(a) == cached' = [cached EXCEPT ![a] = balance] /\ UNCHANGED balance

Forget(a) == cached' = [cached EXCEPT ![a] = 0]

\* UPDATE ... WHERE balance = <the string read> touches a row.
Swaps(a) == balance = cached[a]

\* The guarded UPDATE of reserve_custodial_balance, and its commit.
SwapBalance(a, amount) ==
  /\ balance' = IF Swaps(a) THEN cached[a] - amount ELSE balance
  /\ Forget(a)

\* The write of _apply_custodial_balance, and the commit: the new value is
\* computed from the one that was read, whatever the row holds by now.
AddToBalance(a, amount) == balance' = cached[a] + amount /\ Forget(a)

=============================================================================
