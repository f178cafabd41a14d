----------------------------- MODULE MCP2PEscrow -----------------------------
(***************************************************************************)
(* P2PEscrow for TLC: one trade, three calls at a time, and other          *)
(* transfers from the escrow wallet.                                       *)
(***************************************************************************)
EXTENDS P2PEscrow, TLC

=============================================================================
