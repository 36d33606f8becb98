---------------------------- MODULE MCRemoveReplica ----------------------------
(***************************************************************************)
(* A secondary is removed from a partition.                                *)
(***************************************************************************)
EXTENDS RemoveReplica
=============================================================================
