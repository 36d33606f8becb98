----------------------------- MODULE MCAddReplica -----------------------------
(***************************************************************************)
(* A replica is added to, or rebuilt in, a partition.                      *)
(***************************************************************************)
EXTENDS AddReplica
=============================================================================
