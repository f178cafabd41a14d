---------------------------- MODULE EscrowAccounts ----------------------------
(***************************************************************************)
(* What the native escrow of bot/services/p2p_service.py promises about    *)
(* the money of each trade, with no statuses, reservations or nonces: the  *)
(* seller's deposit comes in once, it goes out only after it came in, and  *)
(* it goes out once, unless the service has come to doubt whether an       *)
(* earlier payment went out.  P2PEscrow implements this specification.     *)
(***************************************************************************)
EXTENDS Sequences

CONSTANTS
  Trades,     \* native trades
  Parties     \* whom escrowed funds may be sent to

VARIABLES
  funded,     \* trades whose deposit reached the escrow wallet
  payments,   \* the payments made for each trade, in order
  doubtful    \* trades whose last payment may or may not have gone out

vars == <<funded, payments, doubtful>>

Init ==
  /\ funded = {}
  /\ payments = [t \in Trades |-> <<>>]
  /\ doubtful = {}

\* The seller's funds reach the escrow wallet.
Deposit(t) ==
  /\ t \notin funded
  /\ funded' = funded \cup {t}
  /\ UNCHANGED <<payments, doubtful>>

\* The escrow wallet pays a party: from a funded trade, once unless in doubt.
Pay(t, p) ==
  /\ t \in funded
  /\ payments[t] = <<>> \/ t \in doubtful
  /\ payments' = [payments EXCEPT ![t] = Append(@, p)]
  /\ UNCHANGED <<funded, doubtful>>

\* The service loses track of a payment of a funded trade.
Doubt(t) ==
  /\ t \in funded
  /\ doubtful' = doubtful \cup {t}
  /\ UNCHANGED <<funded, payments>>

Next ==
  \E t \in Trades :
    \/ Deposit(t)
    \/ \E p \in Parties : Pay(t, p)
    \/ Doubt(t)

Spec == Init /\ [][Next]_vars

=============================================================================
