---------------------------- MODULE MCReconciler ----------------------------
(***************************************************************************)
(* Small instances of ArgoCDReconciler for TLC.                            *)
(***************************************************************************)
EXTENDS ArgoCDReconciler, MCInstances

=============================================================================
