---------------------------- MODULE MCSetReconciler ----------------------------
(* SetReconciler for TLC.                                                  *)
EXTENDS SetReconciler

=============================================================================
