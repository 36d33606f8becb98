--------------------------- MODULE MCReplication ---------------------------
(***************************************************************************)
(* Small instances of Replication for TLC.  First primary, other founder   *)
(* and the replica to be built play different parts, so no two replicas    *)
(* are symmetric.                                                          *)
(***************************************************************************)
EXTENDS Replication
=============================================================================
