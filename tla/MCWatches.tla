----------------------------- MODULE MCWatches ------------------------------
(***************************************************************************)
(* Small instances of Watches for TLC.                                     *)
(***************************************************************************)
EXTENDS Watches, MCInstances

ASSUME NamesAssumption == DistinctNames

=============================================================================
