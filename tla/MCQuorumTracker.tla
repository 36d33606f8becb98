--------------------------- MODULE MCQuorumTracker ---------------------------
(***************************************************************************)
(* Small instances of QuorumTracker for TLC.  The secondaries are          *)
(* interchangeable; Self is not one of them.                               *)
(***************************************************************************)
EXTENDS QuorumTracker, TLC

Secondaries == Permutations(Replica \ {Self})
=============================================================================
