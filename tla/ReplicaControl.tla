---------------------------- MODULE ReplicaControl ----------------------------
(***************************************************************************)
(* A replica as the operator's operations see it: the process behind a pod *)
(* incarnation, what its agent admits and records (replica_agent.rs), and  *)
(* what an admitted action does to its runtime (pod.rs).                   *)
(*                                                                         *)
(* A process p is a record.  inst is the pod's UID, gen the agent's        *)
(* generation, ver its control version; active is the action that runs and *)
(* done holds the terminal records; data tells whether the process has     *)
(* received a copy of the primary's state.  An epoch is its configuration  *)
(* number: the data loss number does not change in these operations.       *)
(***************************************************************************)
EXTENDS Integers, FiniteSets, Sequences, TLC

NoAction == [id |-> "none"]
NoConfig == [mode |-> "none", members |-> {}]

BlankEpoch == 0

\* The map f after x is mapped to v.
With(f, x, v) == [y \in DOMAIN f \cup {x} |-> IF y = x THEN v ELSE f[y]]

\* A process that has not been opened: what a new pod and a restarted
\* container run.
BlankProcess(inst, gen) ==
    [inst |-> inst, gen |-> gen, ver |-> 0, active |-> NoAction, done |-> << >>,
     open |-> FALSE, role |-> "Unknown", epoch |-> BlankEpoch, wal |-> "Unknown",
     write |-> "NotPrimary", cfg |-> NoConfig, data |-> FALSE]

Restarted(p) == BlankProcess(p.inst, p.gen + 1)

-----------------------------------------------------------------------------
(* Admission.                                                              *)

\* What the operator observes and persists before it dispatches.
Fences(p) == [inst |-> p.inst, gen |-> p.gen, ver |-> p.ver, seen |-> p.epoch]

\* The correlated record of an action: current_action or a terminal one.
Record(p, id) ==
    IF p.active # NoAction /\ p.active.id = id THEN "InProgress"
    ELSE IF id \in DOMAIN p.done THEN p.done[id] ELSE "none"

\* Mutant: the control version is not compared.
CanAdmitAnyVersion(p, q) ==
    /\ [q.fences EXCEPT !.ver = p.ver] = Fences(p)
    /\ Record(p, q.id) = "none"
    /\ p.active = NoAction

\* accept_correlated: incarnation, generation, control version and epoch must
\* be those observed, the id new and the agent idle.
CanAdmit(p, q) ==
    /\ q.fences = Fences(p)
    /\ Record(p, q.id) = "none"
    /\ p.active = NoAction

Admit(p, q) == [p EXCEPT !.ver = @ + 1, !.active = [id |-> q.id, act |-> q.act]]

\* A request that can never be admitted any more.
Refused(p, q) ==
    \/ q.fences.inst # p.inst \/ q.fences.gen # p.gen \/ q.fences.ver < p.ver
    \/ Record(p, q.id) # "none"

-----------------------------------------------------------------------------
(* Effects.                                                                *)

NeedsHandle(act) == act.do \notin {"Open", "Close"}

\* Mutant: a promotion grants writes at once.
StatusGrantedForRole(role) == IF role = "Primary" THEN "Granted" ELSE "NotPrimary"

\* set_status_for_role
StatusForRole(role) == IF role = "Primary" THEN "Pending" ELSE "NotPrimary"

\* Mutant: an installed configuration does not grant writes.
NotConfigured(p) == p.write

\* The write status once a configuration is installed.
Configured(p) == IF p.role = "Primary" THEN "Granted" ELSE p.write

\* reset_lifecycle_evidence_for_open
Reset(p) == [p EXCEPT !.role = "Unknown", !.epoch = BlankEpoch, !.cfg = NoConfig]

\* execute_effect, when it succeeds.  A configuration outlives the role it was
\* installed for: only opening clears it.
Effect(p, act) ==
    CASE act.do = "Open" ->
            [Reset(p) EXCEPT !.open = TRUE, !.wal = "Unknown", !.write = "NotPrimary"]
      [] act.do = "Close" ->
            [p EXCEPT !.open = FALSE, !.role = "None", !.wal = "None", !.write = "NotPrimary"]
      [] act.do = "ChangeRole" ->
            [p EXCEPT !.role = act.role, !.wal = act.role, !.epoch = act.epoch,
                      !.write = StatusForRole(act.role)]
      [] act.do = "UpdateEpoch" -> [p EXCEPT !.epoch = act.epoch]
      [] act.do \in {"CatchUp", "Current"} ->
            [p EXCEPT !.cfg = [mode |-> act.do, members |-> act.members],
                      !.write = Configured(p)]
      [] act.do = "Revoke" -> [p EXCEPT !.write = "Pending"]
      [] OTHER -> p                                 \* Build, Wait, Remove

\* What a failed effect may leave behind.  handle_change_role is three calls:
\* a promotion starts with the replicator, a demotion with the access status.
Residues(p, act) ==
    {p} \cup
    (IF act.do = "ChangeRole" /\ p.open
     THEN IF act.role = "Primary" \/ (act.role = "ActiveSecondary" /\ p.role = "IdleSecondary")
          THEN {[p EXCEPT !.wal = act.role],
                [p EXCEPT !.wal = act.role, !.write = StatusForRole(act.role)]}
          ELSE {[p EXCEPT !.write = StatusForRole(act.role)]}
     ELSE IF act.do = "Open" /\ ~p.open THEN {Reset(p)} ELSE {})

\* retain_terminal: the terminal record of an action takes its place.
Recorded(p, id, state) == [p EXCEPT !.active = NoAction, !.done = With(p.done, id, state)]

\* handle_completion
Completed(p) == Recorded(Effect(p, p.active.act), p.active.id, "Completed")

MayComplete(p) ==
    /\ p.active # NoAction
    /\ NeedsHandle(p.active.act) => p.open
    /\ p.active.act.do = "Open" => ~p.open

FailedOutcomes(p) ==
    {Recorded(q, p.active.id, "Failed") : q \in Residues(p, p.active.act)}
=============================================================================
