--------------------------- MODULE MCCreatePartition ---------------------------
(***************************************************************************)
(* The creation of a partition of three replicas.                          *)
(***************************************************************************)
EXTENDS CreatePartition
=============================================================================
