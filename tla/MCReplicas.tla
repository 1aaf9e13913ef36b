----------------------------- MODULE MCReplicas -----------------------------
(***************************************************************************)
(* Small instances of Replicas for TLC.                                    *)
(***************************************************************************)
EXTENDS Replicas, MCInstances

=============================================================================
