---------------------------- MODULE MCCctpRelayer ----------------------------
(***************************************************************************)
(* CctpRelayer for TLC: one deposit, two replicas.                         *)
(***************************************************************************)
EXTENDS CctpRelayer, TLC

=============================================================================
