------------------------- MODULE DurableExecution -------------------------
(***************************************************************************)
(* What the durable execution kernel promises for one execution, whatever  *)
(* hosts run it and however they crash.  Its history only grows: an        *)
(* activity is begun when every earlier one has its result, exposed to     *)
(* dispatch before its result is recorded, and recorded once.  A dispatch  *)
(* permit is issued by the very write that exposes the activity or never.  *)
(* An execution that finished does nothing more.                           *)
(***************************************************************************)
EXTENDS Naturals

VARIABLES
    begun,      \* activities in the durable history
    exposed,    \* activities of it whose effect may have been dispatched
    recorded,   \* activities of it whose result is durable
    done,       \* a terminal outcome is durable
    issued      \* activities a dispatch permit was given for

vars == <<begun, exposed, recorded, done, issued>>

Init ==
    /\ begun = 0
    /\ exposed = 0
    /\ recorded = 0
    /\ done = FALSE
    /\ issued = {}

\* The result of the exposed activity becomes durable in this write.
Record(r) ==
    /\ r => recorded < exposed
    /\ recorded' = IF r THEN exposed ELSE recorded

\* One write may record a result, begin an activity and expose it.
Write(r, b, e) ==
    /\ ~done
    /\ Record(r)
    /\ b => recorded' = begun
    /\ begun' = IF b THEN begun + 1 ELSE begun
    /\ e => exposed < begun'
    /\ exposed' = IF e THEN begun' ELSE exposed
    /\ \/ issued' = issued
       \/ e /\ issued' = issued \cup {begun'}
    /\ UNCHANGED done

\* The last write may record a result; nothing is left outstanding.
Finish(r) ==
    /\ ~done
    /\ Record(r)
    /\ recorded' = begun
    /\ done' = TRUE
    /\ UNCHANGED <<begun, exposed, issued>>

Next ==
    \E r \in BOOLEAN :
        \/ \E b, e \in BOOLEAN : Write(r, b, e)
        \/ Finish(r)

Spec == Init /\ [][Next]_vars
=============================================================================
