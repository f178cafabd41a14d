--------------------------- MODULE MCSwapLifecycle ---------------------------
(* Instances of SwapLifecycle: two poller processes and one reconciler; see  *)
(* the .cfg files for the routes, the reports, the crashes and the uses of   *)
(* the status button.                                                        *)
EXTENDS SwapLifecycle

=============================================================================
