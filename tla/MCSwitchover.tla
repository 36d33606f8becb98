----------------------------- MODULE MCSwitchover -----------------------------
(***************************************************************************)
(* Three replicas, the first one primary.                                  *)
(***************************************************************************)
EXTENDS Switchover

MCReplica == 1..3
=============================================================================
