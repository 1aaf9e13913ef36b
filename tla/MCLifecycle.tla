---------------------------- MODULE MCLifecycle -----------------------------
(***************************************************************************)
(* The Lifecycle instance: its configurations are such that the properties *)
(* of Secrets hold.                                                        *)
(***************************************************************************)
EXTENDS MCReconciler

ASSUME ApartAssumption ==
  DistinctNames /\ OneBundleName /\ OneTargetNamespace /\ NobodysNames

=============================================================================
