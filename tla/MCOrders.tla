------------------------------ MODULE MCOrders ------------------------------
(***************************************************************************)
(* Orders for TLC: one or two loops, two executions, two hours, one fault. *)
(***************************************************************************)
EXTENDS Orders, TLC

\* Processes that run the loop are alike.
Symmetry == Permutations(Loops)

=============================================================================
