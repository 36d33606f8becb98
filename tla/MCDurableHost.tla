--------------------------- MODULE MCDurableHost ---------------------------
(* Two hosts; the upgrade "v2" has more room than "v1", may finish after the *)
(* first activity, where "v1" has a second one, or asks for another second.  *)
EXTENDS DurableHost, TLC

MCLimits == [v1 |-> [records |-> 2, bytes |-> 7], v2 |-> [records |-> 2, bytes |-> 8]]
MCMaxResult == [prepare |-> 2, link |-> 1, move |-> 2, copy |-> 2]
MCResultBytes == [ok |-> 1, wide |-> 2]
MCOutcomeBytes == [succeeded |-> 1, verbose |-> 4]

MCWorkflow(b, results) ==
    CASE Len(results) = 0 -> "prepare"
      [] Len(results) = 1 /\ results[1] = "ok"   -> IF b = "v1" THEN "link" ELSE "succeeded"
      [] Len(results) = 1 /\ results[1] = "wide" -> IF b = "v1" THEN "move" ELSE "copy"
      [] Len(results) = 2 /\ results[2] = "ok"   -> IF b = "v1" THEN "succeeded" ELSE "verbose"
      [] Len(results) = 2 /\ results[2] = "wide" -> "stall"

\* Hosts differ only by name, and no property of the run is about liveness.
HostSymmetry == Permutations(Hosts)
=============================================================================
