------------------------------- MODULE Failover -------------------------------
(***************************************************************************)
(* One durable failover: the operation the operator keeps in the status of *)
(* the custom resource and advances by one persisted step per reconcile    *)
(* (durable/failover.rs, reconciler.rs), the correlated actions it         *)
(* dispatches (durable/effects.rs), and the agents that admit and run them *)
(* (replica_agent.rs, pod.rs).                                             *)
(*                                                                         *)
(* The operator keeps nothing in memory between two reconciles, so an      *)
(* operator restart is no step of its own.  A dispatched request stays in  *)
(* net: it may arrive late, twice or never.  Replicas become unreachable,  *)
(* are replaced by a new pod, or restart inside their pod; both restarts   *)
(* lose all that the process knew.                                         *)
(***************************************************************************)
EXTENDS FailoverElection, Sequences, Bags

CONSTANTS
    Failed,          \* the primary that failed
    Unrecorded,      \* replicas that may start without the election configuration
    MinReplicas,     \* minimum_committed_replicas
    MaxLsn,          \* bound on LSNs
    MaxFaults,       \* bound on disconnections, replacements and restarts
    MayBeLate        \* whether a deadline may pass before the action is done

ASSUME FailedAssumption  == Failed \in Replica
ASSUME UnrecordedAssumption == Unrecorded \subseteq Replica
ASSUME FailoverBoundsAssumption ==
    /\ MinReplicas \in Nat \ {0} /\ MaxLsn \in Nat /\ MaxFaults \in Nat
    /\ MayBeLate \in BOOLEAN

\* An absent Option is no value.
ASSUME UnknownAssumption == Unknown # <<0, 1>> /\ Unknown \notin 0..MaxLsn

VARIABLES
    op,       \* DurableOperationStatus
    stable,   \* the committed snapshot
    rep,      \* the pods, their runtimes and agents
    net,      \* dispatched requests
    acked,    \* largest LSN answered Ok to a client
    faults,   \* faults so far
    ran,      \* history: effects that ran, with the process that ran them
    crowned   \* history: replicas that became primary, with the epoch

vars == <<op, stable, rep, net, acked, faults, ran, crowned>>
histVars == <<ran, crowned>>

NoAction == [kind |-> "none"]

StartEpoch == <<0, 1>>
BlankEpoch == <<0, 0>>

Phases == {"RecordStartingConfiguration", "Collect", "Assess", "WaitForBestCandidate",
           "WaitForReadQuorum", "PersistConfigurationEpoch", "PersistDataLossEpoch",
           "ApplyCandidateEpoch", "NotifyDataLoss", "RefreshCandidate", "PromoteCandidate",
           "CommitPromotion", "DistributeEpoch", "CatchUpConfiguration",
           "WaitForCatchUpQuorum", "CurrentConfiguration", "RecordElectionConfiguration",
           "LabelMembers", "Attest", "Completed", "Poisoned"}

Waiting == {"WaitForBestCandidate", "WaitForReadQuorum"}

\* The ids of S in ascending order, as the code's sorted lists have them.
InOrder(S) ==
    [i \in 1..Cardinality(S) |-> CHOOSE m \in S : Cardinality({k \in S : k < m}) = i - 1]

Insts(c) == [m \in DOMAIN c |-> c[m].inst]

-----------------------------------------------------------------------------
(* The start.  Replicas have an equal history up to their LSN; what was    *)
(* answered Ok is on a write quorum.  The stable snapshot's metadata of a  *)
(* member is from an earlier time, or missing.  A process has no election  *)
(* configuration after Open; an earlier failover or the refresh of the     *)
(* stable metadata may have recorded it, or one that holds no longer.      *)

NoConfig == [primary |-> Failed, insts |-> << >>]

StartReplica(r, lsn, ok, recorded) ==
    [up |-> TRUE, inst |-> 0, gen |-> 0, ver |-> 0, active |-> NoAction, done |-> << >>,
     role |-> IF r = Failed THEN "Primary" ELSE "ActiveSecondary", epoch |-> StartEpoch,
     healthy |-> TRUE, lsn |-> lsn, committed |-> Min({lsn, ok}), retained |-> 0,
     deact |-> StartEpoch, catchUp |-> 0,
     ecfg |-> IF recorded THEN [primary |-> Failed, insts |-> [m \in Replica |-> 0]] ELSE NoConfig,
     cfg |-> [mode |-> "none", insts |-> << >>],
     label |-> IF r = Failed THEN "primary" ELSE "secondary"]

\* start_failover: the stable snapshot with its primary marked dropped.
StartOperation(known) ==
    [phase |-> "RecordStartingConfiguration",
     current |-> [m \in Replica |-> [inst |-> 0, dropped |-> m = Failed, known |-> known[m]]],
     obs |-> << >>, unavailable |-> {}, attested |-> << >>,
     confirmed |-> FALSE, dataLoss |-> FALSE, promoted |-> FALSE,
     primary |-> Failed, insts |-> [m \in Replica |-> 0], epoch |-> StartEpoch,
     cfgIndex |-> 0, secIndex |-> 0, labelIndex |-> 0, waitIndex |-> 0,
     pending |-> NoAction]

Metadata(lsn) == {Unknown} \cup {[deact |-> StartEpoch, lsn |-> l, retained |-> 0] : l \in 0..lsn}

Init ==
    /\ acked \in 0..MaxLsn
    /\ \E lsn \in [Replica -> 0..MaxLsn], missing \in SUBSET Unrecorded :
          /\ lsn[Failed] = MaxLsn
          /\ Cardinality({r \in Replica : lsn[r] >= acked}) >= Majority(Replica)
          /\ rep = [r \in Replica |-> StartReplica(r, lsn[r], acked, r \notin missing)]
          /\ \E known \in [Replica -> UNION {Metadata(lsn[r]) : r \in Replica}] :
                /\ known[Failed] = Unknown   \* never read: the member is dropped
                /\ \A r \in Replica : known[r] \in Metadata(lsn[r])
                /\ op = StartOperation(known)
    /\ stable = [primary |-> Failed, insts |-> [m \in Replica |-> 0], epoch |-> StartEpoch]
    /\ net = {} /\ faults = 0
    /\ ran = EmptyBag /\ crowned = {}

-----------------------------------------------------------------------------
(* The replica: what its status reports, and what an action does to it.    *)

\* record_observation and the final attestation, which compares with the
\* target's election configuration instead.
Observe(r, config) ==
    [inst |-> rep[r].inst, epoch |-> rep[r].epoch, role |-> rep[r].role,
     healthy |-> rep[r].healthy, lsn |-> rep[r].lsn, committed |-> rep[r].committed,
     retained |-> rep[r].retained, deact |-> rep[r].deact, catchUp |-> rep[r].catchUp,
     matches |-> rep[r].ecfg = config]

\* A process that has not been opened.
BlankProcess(p) ==
    [p EXCEPT !.gen = @ + 1, !.ver = 0, !.active = NoAction, !.done = << >>, !.role = "None",
              !.epoch = BlankEpoch, !.healthy = FALSE, !.lsn = 0, !.committed = 0,
              !.retained = Unknown, !.deact = Unknown, !.catchUp = 0,
              !.ecfg = NoConfig,
              !.cfg = [mode |-> "none", insts |-> << >>]]

Deactivated(p) ==
    IF p.role \in {"Primary", "ActiveSecondary"}
    THEN [p EXCEPT !.deact = p.epoch, !.catchUp = p.committed] ELSE p

\* PodRuntime's handling of the effect a when it succeeds: the process after
\* it and the result on record.  A data loss callback may change the state.
OutcomesOf(p, a) ==
    LET Done(q) == {[process |-> q, result |-> "Completed"]}
    IN  CASE a.kind \in {"RecordStartingConfiguration", "RecordElectionConfiguration"} ->
                Done([p EXCEPT !.ecfg = a.config])
          [] a.kind \in {"UpdateCandidateEpoch", "UpdateSecondaryEpoch"} ->
                Done(Deactivated([p EXCEPT !.epoch = a.epoch]))
          [] a.kind = "OnDataLoss" ->
                Done(p) \cup {[process |-> Deactivated([p EXCEPT !.lsn = l, !.committed = l,
                                                                 !.retained = l]),
                               result  |-> "StateChanged"] : l \in 0..MaxLsn}
          [] a.kind = "PromoteCandidate" ->
                Done(Deactivated([p EXCEPT !.role = "Primary", !.epoch = a.epoch]))
          [] a.kind = "CatchUpConfiguration" ->
                Done([p EXCEPT !.cfg = [mode |-> "CatchUp", insts |-> a.config.insts]])
          [] a.kind = "CurrentConfiguration" ->
                Done([p EXCEPT !.cfg = [mode |-> "Current", insts |-> a.config.insts]])
          [] OTHER -> Done(p)

NeedsOpenReplica(kind) ==
    kind \notin {"RecordStartingConfiguration", "RecordElectionConfiguration"}

Known(p, id) == (p.active # NoAction /\ p.active.id = id) \/ id \in DOMAIN p.done

\* Mutant: a request is admitted again although its action is on record.
AdmissibleTwice(r, q) ==
    /\ q.to = r /\ q.inst = rep[r].inst /\ q.gen = rep[r].gen
    /\ rep[r].active = NoAction
    /\ q.seen = rep[r].epoch

\* accept_correlated: incarnation, process and control version must be those
\* the operator saw, nothing else may be running, and the id must be new.
Admissible(r, q) ==
    /\ q.to = r /\ q.inst = rep[r].inst /\ q.gen = rep[r].gen
    /\ ~Known(rep[r], q.id)
    /\ q.ver = rep[r].ver
    /\ rep[r].active = NoAction
    /\ q.seen = rep[r].epoch

AdmitAction(r) ==
    /\ \E q \in net :
          /\ Admissible(r, q)
          /\ rep' = [rep EXCEPT ![r] =
                IF q.kind = "OnDataLoss" /\ q.epoch # rep[r].epoch
                THEN [rep[r] EXCEPT !.ver = @ + 1, !.done = With(@, q.id, "Failed")]
                ELSE [rep[r] EXCEPT !.ver = @ + 1, !.active = q]]
    /\ UNCHANGED <<op, stable, net, acked, faults, histVars>>

\* handle_completion.
CompleteAction(r) ==
    LET a == rep[r].active
    IN  /\ a # NoAction
        /\ NeedsOpenReplica(a.kind) => rep[r].healthy
        /\ \E o \in OutcomesOf(rep[r], a) :
              rep' = [rep EXCEPT ![r] = [o.process EXCEPT !.active = NoAction,
                                                          !.done = With(@, a.id, o.result)]]
        /\ ran' = ran (+) SetToBag({<<r, rep[r].inst, rep[r].gen, a.id>>})
        /\ crowned' = IF a.kind = "PromoteCandidate" THEN crowned \cup {<<a.epoch, r>>} ELSE crowned
        /\ UNCHANGED <<op, stable, net, acked, faults>>

\* The runtime or the replicator refuses, or a member cannot be reached.
FailAction(r) ==
    LET a == rep[r].active
    IN  /\ a # NoAction /\ NeedsOpenReplica(a.kind)
        /\ rep' = [rep EXCEPT ![r].active = NoAction, ![r].done = With(@, a.id, "Failed")]
        /\ UNCHANGED <<op, stable, net, acked, faults, histVars>>

-----------------------------------------------------------------------------
(* Faults.                                                                 *)

\* Faults after the operation belong to the next one.
MayFault == op.phase # "Completed" /\ faults < MaxFaults /\ faults' = faults + 1

Disconnect(r) ==
    /\ MayFault /\ r # Failed /\ rep[r].up
    /\ rep' = [rep EXCEPT ![r].up = FALSE]
    /\ UNCHANGED <<op, stable, net, acked, histVars>>

Reconnect(r) ==
    /\ ~rep[r].up
    /\ rep' = [rep EXCEPT ![r].up = TRUE]
    /\ UNCHANGED <<op, stable, net, acked, faults, histVars>>

\* The pod is deleted and its ordinal recreated: a new instance id.
ReplacePod(r) ==
    /\ MayFault /\ r # Failed
    /\ rep' = [rep EXCEPT ![r] = [BlankProcess(rep[r]) EXCEPT !.inst = @ + 1]]
    /\ UNCHANGED <<op, stable, net, acked, histVars>>

\* The container restarts and keeps the pod's UID.
RestartContainer(r) ==
    /\ MayFault /\ r # Failed
    /\ rep' = [rep EXCEPT ![r] = BlankProcess(rep[r])]
    /\ UNCHANGED <<op, stable, net, acked, histVars>>

-----------------------------------------------------------------------------
(* The operator: helpers on the operation.                                 *)

Persist(next) ==
    /\ op' = next
    /\ UNCHANGED <<stable, rep, net, acked, faults, histVars>>

Poison(o) == [o EXCEPT !.phase = "Poisoned", !.pending = NoAction]

WithPhase(o, phase) == [o EXCEPT !.phase = phase, !.pending = NoAction]

Without(f, x) == [y \in DOMAIN f \ {x} |-> f[y]]

Configured == {m \in DOMAIN op.current : ~op.current[m].dropped}

StartingConfig == [primary |-> Failed, insts |-> Insts(op.current)]
TargetConfig   == [primary |-> op.primary, insts |-> op.insts]

TargetReplicas == DOMAIN op.insts
Secondaries    == InOrder(TargetReplicas \ {op.primary})

CollectionComplete(o) ==
    \A m \in DOMAIN o.current : o.current[m].dropped \/ m \in DOMAIN o.obs \cup o.unavailable

\* Members whose pod is another one than the operation knows.
Drifted == {m \in Configured : rep[m].inst # op.current[m].inst}

Active == op.phase # "Completed" /\ Drifted = {}

-----------------------------------------------------------------------------
(* Replaced members, looked for before everything else: also in an         *)
(* operation that is poisoned.                                             *)

\* Mutant: a replacement is adopted until the promotion is committed.
AdoptBeforeCommit ==
    /\ op.phase # "Completed" /\ Drifted # {} /\ ~op.promoted
    /\ LET m == Min(Drifted)
       IN  Persist([WithPhase(op, "RecordStartingConfiguration") EXCEPT
                        !.current[m] = [inst |-> rep[m].inst, dropped |-> FALSE, known |-> Unknown],
                        !.obs = Without(@, m), !.unavailable = @ \ {m}, !.confirmed = FALSE,
                        !.cfgIndex = 0, !.waitIndex = 0])

\* adopt_replacement_before_confirmation
AdoptReplacement ==
    /\ op.phase # "Completed" /\ Drifted # {} /\ ~op.confirmed
    /\ LET m == Min(Drifted)
       IN  Persist([WithPhase(op, "RecordStartingConfiguration") EXCEPT
                        !.current[m] = [inst |-> rep[m].inst, dropped |-> FALSE, known |-> Unknown],
                        !.obs = Without(@, m), !.unavailable = @ \ {m},
                        !.cfgIndex = 0, !.waitIndex = 0])

\* Mutant: the smaller target is recorded but not configured.
RemoveKeepsConfiguration ==
    /\ op.phase # "Completed" /\ Drifted # {} /\ op.promoted
    /\ LET m == Min(Drifted)
       IN  /\ m # op.primary
           /\ Cardinality(TargetReplicas) - 1 >= MinReplicas
           /\ Persist([WithPhase(op, "RecordElectionConfiguration") EXCEPT
                        !.insts = Without(@, m), !.current = Without(@, m),
                        !.obs = Without(@, m), !.attested = Without(@, m),
                        !.secIndex = 0, !.cfgIndex = 0, !.labelIndex = 0])

\* After the promotion a replaced secondary leaves the target.
RemoveReplaced ==
    /\ op.phase # "Completed" /\ Drifted # {} /\ op.promoted
    /\ LET m == Min(Drifted)
       IN  /\ m # op.primary
           /\ Cardinality(TargetReplicas) - 1 >= MinReplicas
           /\ Persist([WithPhase(op, "CatchUpConfiguration") EXCEPT
                        !.insts = Without(@, m), !.current = Without(@, m),
                        !.obs = Without(@, m), !.attested = Without(@, m),
                        !.secIndex = 0, !.cfgIndex = 0, !.labelIndex = 0])

RejectReplacement ==
    /\ op.phase # "Completed" /\ Drifted # {} /\ op.confirmed
    /\ LET m == Min(Drifted)
       IN  ~op.promoted \/ m = op.primary \/ Cardinality(TargetReplicas) - 1 < MinReplicas
    /\ Persist(Poison(op))

-----------------------------------------------------------------------------
(* Collecting and assessing.                                               *)

NextUnobserved == {m \in Configured : m \notin DOMAIN op.obs \cup op.unavailable}

\* failover_wait_probe_ids: who is asked again while the operation waits.
WaitProbes ==
    InOrder(op.unavailable \cup
            {m \in DOMAIN op.obs :
                /\ op.obs[m].role \in {"Primary", "ActiveSecondary"}
                /\ \/ op.obs[m].epoch # StartEpoch
                   \/ ~op.obs[m].healthy
                   \/ op.obs[m].retained = Unknown})

WaitProbe == WaitProbes[(op.waitIndex % Len(WaitProbes)) + 1]

Rotated == (op.waitIndex + 1) % Len(WaitProbes)

\* record_observation: a waiting operation is assessed after every answer, a
\* collecting one when everybody has answered or is marked unavailable.
WithObservation(m) ==
    LET next == [op EXCEPT !.obs = With(@, m, Observe(m, StartingConfig)), !.unavailable = @ \ {m}]
    IN  IF op.phase = "Collect" /\ ~CollectionComplete(next) THEN next
        ELSE [next EXCEPT !.phase = "Assess"]

CollectObservation ==
    /\ op.phase = "Collect" /\ Active /\ NextUnobserved # {}
    /\ LET m == Min(NextUnobserved)
       IN  Persist(IF rep[m].up THEN WithObservation(m) ELSE [op EXCEPT !.unavailable = @ \cup {m}])

CollectDone ==
    /\ op.phase = "Collect" /\ Active /\ NextUnobserved = {}
    /\ Persist(WithPhase(op, "Assess"))

ProbeWaiting ==
    /\ op.phase \in Waiting /\ Active /\ Len(WaitProbes) > 0
    /\ Persist([IF rep[WaitProbe].up THEN WithObservation(WaitProbe) ELSE op
                   EXCEPT !.waitIndex = Rotated])

\* election_input.  No configuration other than the current one is recorded
\* by a failover.
ElectionInput ==
    LET in == [expected |-> StartEpoch, failed |-> Failed, catchUp |-> 0,
               previous |-> << >>, current |-> op.current, obs |-> op.obs]
    IN  [in EXCEPT !.catchUp = RequiredCatchUp(in)]

\* decide_assessment on an input.
AssessInput(in) ==
    LET d == Evaluate(in)
    IN  CASE d.kind = "Error" -> Persist(Poison(op))
          [] d.kind = "WaitForBestCandidate" -> Persist(WithPhase(op, "WaitForBestCandidate"))
          [] d.kind = "WaitForQuorum" -> Persist(WithPhase(op, "WaitForReadQuorum"))
          [] OTHER ->
               LET members == TargetMembers(in, d.candidate)
               IN  Persist(IF Cardinality(members) < MinReplicas THEN Poison(op)
                           ELSE [op EXCEPT !.phase = "PersistConfigurationEpoch",
                                           !.primary = d.candidate,
                                           !.insts = [m \in members |-> op.obs[m].inst],
                                           !.confirmed = TRUE,
                                           !.dataLoss = (d.kind = "DataLossRequired")])

\* The quantifier lets TLC compute the input once.
Assess ==
    /\ op.phase = "Assess" /\ Active
    /\ \E in \in {ElectionInput} : AssessInput(in)

-----------------------------------------------------------------------------
(* Epochs, promotion and completion are persisted without any dispatch.    *)

PersistConfigurationEpoch ==
    /\ op.phase = "PersistConfigurationEpoch" /\ Active
    /\ Persist([op EXCEPT !.epoch = <<@[1], @[2] + 1>>,
                          !.phase = IF op.dataLoss THEN "PersistDataLossEpoch"
                                    ELSE "ApplyCandidateEpoch"])

PersistDataLossEpoch ==
    /\ op.phase = "PersistDataLossEpoch" /\ Active
    /\ Persist([op EXCEPT !.epoch = <<@[1] + 1, @[2]>>, !.phase = "ApplyCandidateEpoch"])

\* The state changing callback is followed by a fresh look at the candidate.
RefreshCandidate ==
    /\ op.phase = "RefreshCandidate" /\ Active /\ rep[op.primary].up
    /\ LET p == rep[op.primary]
           valid == /\ p.epoch = op.epoch /\ p.healthy
                    /\ p.role \in {"Primary", "ActiveSecondary"}
                    /\ p.retained <= p.committed /\ p.committed <= p.lsn
                    /\ p.deact = op.epoch
       IN  Persist(IF valid THEN [WithObservation(op.primary) EXCEPT !.phase = "PromoteCandidate"]
                   ELSE Poison(op))

\* The irreversible boundary: the new primary alone is the stable snapshot.
CommitPromotion ==
    /\ op.phase = "CommitPromotion" /\ Active
    /\ op' = [WithPhase(op, "DistributeEpoch") EXCEPT !.promoted = TRUE, !.secIndex = 0]
    /\ stable' = [primary |-> op.primary, epoch |-> op.epoch,
                  insts |-> [m \in {op.primary} |-> op.insts[m]]]
    /\ UNCHANGED <<rep, net, acked, faults, histVars>>

Attest ==
    /\ op.phase = "Attest" /\ Active /\ TargetReplicas \ DOMAIN op.attested # {}
    /\ LET m == Min(TargetReplicas \ DOMAIN op.attested)
       IN  /\ rep[m].up
           /\ Persist([op EXCEPT !.attested = With(@, m, Observe(m, TargetConfig)),
                                 !.unavailable = @ \ {m}])

\* snapshot_from_attestations
AttestationsMatch ==
    \A m \in TargetReplicas :
        LET a == op.attested[m]
        IN  /\ a.inst = op.insts[m] /\ a.epoch = op.epoch
            /\ a.role = IF m = op.primary THEN "Primary" ELSE "ActiveSecondary"
            /\ a.healthy /\ a.matches /\ a.deact # Unknown /\ a.retained # Unknown

CompleteFailover ==
    /\ op.phase = "Attest" /\ Active /\ TargetReplicas \subseteq DOMAIN op.attested
    /\ IF AttestationsMatch
       THEN /\ op' = WithPhase(op, "Completed")
            /\ stable' = [primary |-> op.primary, epoch |-> op.epoch, insts |-> op.insts]
            /\ UNCHANGED <<rep, net, acked, faults, histVars>>
       ELSE Persist(Poison(op))

-----------------------------------------------------------------------------
(* Correlated actions.                                                     *)

ActionKind ==
    [RecordStartingConfiguration |-> "RecordStartingConfiguration",
     ApplyCandidateEpoch |-> "UpdateCandidateEpoch",
     NotifyDataLoss |-> "OnDataLoss",
     PromoteCandidate |-> "PromoteCandidate",
     DistributeEpoch |-> "UpdateSecondaryEpoch",
     CatchUpConfiguration |-> "CatchUpConfiguration",
     WaitForCatchUpQuorum |-> "WaitForCatchUpQuorum",
     CurrentConfiguration |-> "CurrentConfiguration",
     RecordElectionConfiguration |-> "RecordElectionConfiguration"]

\* The replicas a phase acts on, and how many it has done.
Targets ==
    CASE op.phase = "RecordStartingConfiguration" -> InOrder(Configured)
      [] op.phase = "RecordElectionConfiguration" -> InOrder(TargetReplicas)
      [] op.phase = "DistributeEpoch"             -> Secondaries
      [] OTHER                                    -> <<op.primary>>

Index ==
    CASE op.phase \in {"RecordStartingConfiguration", "RecordElectionConfiguration"} -> op.cfgIndex
      [] op.phase = "DistributeEpoch" -> op.secIndex
      [] OTHER -> 0

\* make_pending.  The id names kind, membership, target and position.
MakePending(kind, m) ==
    [kind |-> kind, target |-> m,
     inst |-> IF m \in DOMAIN op.current THEN op.current[m].inst ELSE op.insts[m],
     id |-> [kind |-> kind, current |-> Insts(op.current), insts |-> op.insts, target |-> m,
             sequence |-> op.cfgIndex + op.secIndex + op.labelIndex],
     epoch |-> op.epoch,
     config |-> IF kind = "RecordStartingConfiguration" THEN StartingConfig ELSE TargetConfig,
     authorized |-> FALSE, late |-> FALSE, evidence |-> << >>]

BeginAction ==
    /\ op.phase \in DOMAIN ActionKind /\ op.pending = NoAction /\ Active
    /\ Index < Len(Targets)
    /\ Persist([op EXCEPT !.pending = MakePending(ActionKind[op.phase], Targets[Index + 1])])

\* The phase has acted on everybody.
EndPhase ==
    /\ op.phase \in DOMAIN ActionKind /\ op.pending = NoAction /\ Active
    /\ Index >= Len(Targets)
    /\ Persist(CASE op.phase = "RecordStartingConfiguration" ->
                        [WithPhase(op, "Collect") EXCEPT !.cfgIndex = 0]
                 [] op.phase = "RecordElectionConfiguration" ->
                        [WithPhase(op, "LabelMembers") EXCEPT !.cfgIndex = 0]
                 [] OTHER -> WithPhase(op, "CatchUpConfiguration"))

\* A pending replica action whose target answers the probe.
Probing ==
    /\ op.pending # NoAction /\ op.pending.kind # "LabelMember" /\ Active
    /\ rep[op.pending.target].up

Target == rep[op.pending.target]

\* What shows that the action took effect when the agent has no record of it.
Postcondition ==
    CASE op.pending.kind \in {"UpdateCandidateEpoch", "UpdateSecondaryEpoch"} ->
            Target.epoch = op.pending.epoch
      [] op.pending.kind = "PromoteCandidate" ->
            Target.epoch = op.pending.epoch /\ Target.role = "Primary"
      [] op.pending.kind = "CatchUpConfiguration" ->
            Target.cfg = [mode |-> "CatchUp", insts |-> op.insts]
      [] op.pending.kind = "CurrentConfiguration" ->
            Target.cfg = [mode |-> "Current", insts |-> op.insts]
      [] op.pending.kind = "RecordStartingConfiguration" -> Target.ecfg = StartingConfig
      [] op.pending.kind = "RecordElectionConfiguration" -> Target.ecfg = TargetConfig
      [] OTHER -> FALSE

\* action_observed and completed_data_loss
ActionState ==
    IF Target.active # NoAction /\ Target.active.id = op.pending.id THEN "InProgress"
    ELSE IF op.pending.id \in DOMAIN Target.done THEN Target.done[op.pending.id]
    ELSE IF Postcondition THEN "Completed" ELSE "Incomplete"

NextPhase ==
    CASE op.phase = "ApplyCandidateEpoch" ->
            IF op.dataLoss THEN "NotifyDataLoss" ELSE "PromoteCandidate"
      [] op.phase = "NotifyDataLoss"       -> "PromoteCandidate"
      [] op.phase = "PromoteCandidate"     -> "CommitPromotion"
      [] op.phase = "CatchUpConfiguration" -> "WaitForCatchUpQuorum"
      [] op.phase = "WaitForCatchUpQuorum" -> "CurrentConfiguration"
      [] op.phase = "CurrentConfiguration" -> "RecordElectionConfiguration"
      [] OTHER                             -> op.phase

ActionCompleted ==
    /\ Probing /\ ActionState = "Completed"
    /\ LET recording == op.phase \in {"RecordStartingConfiguration", "RecordElectionConfiguration"}
       IN  Persist([WithPhase(op, NextPhase) EXCEPT
                       !.cfgIndex = IF recording THEN @ + 1 ELSE @,
                       !.secIndex = IF op.phase = "DistributeEpoch" THEN @ + 1 ELSE @])

\* Nobody else has the state the callback produced: the target is the
\* candidate alone.
DataLossChangedState ==
    /\ Probing /\ ActionState = "StateChanged"
    /\ LET next == [WithPhase(op, "RefreshCandidate") EXCEPT
                        !.insts = [m \in {op.primary} |-> @[m]]]
       IN  Persist(IF MinReplicas > 1 THEN Poison(next) ELSE next)

ActionFailed ==
    /\ Probing
    /\ ActionState = "Failed" \/ (ActionState \in {"InProgress", "Incomplete"} /\ op.pending.late)
    /\ Persist(Poison(op))

AuthorizeDispatch ==
    /\ Probing /\ ActionState = "Incomplete" /\ ~op.pending.late /\ ~op.pending.authorized
    /\ Persist([op EXCEPT !.pending.authorized = TRUE])

\* Configurations carry the addresses of all members.
Dispatchable ==
    /\ Probing /\ ActionState = "Incomplete" /\ ~op.pending.late /\ op.pending.authorized
    /\ Target.inst = op.pending.inst
    /\ op.pending.kind \in {"CatchUpConfiguration", "CurrentConfiguration"} =>
          \A m \in TargetReplicas : rep[m].up

Evidence == [gen |-> Target.gen, ver |-> Target.ver, seen |-> Target.epoch]

\* Mutant: the fences are persisted once.
PlanDispatchOnce ==
    /\ Dispatchable /\ op.pending.evidence = << >>
    /\ Persist([op EXCEPT !.pending.evidence = Evidence])

\* The fences are persisted before the request is sent, and again when the
\* agent has moved.
PlanDispatch ==
    /\ Dispatchable /\ op.pending.evidence # Evidence
    /\ Persist([op EXCEPT !.pending.evidence = Evidence])

DispatchAction ==
    /\ Dispatchable /\ op.pending.evidence = Evidence
    /\ net' = net \cup {[to |-> op.pending.target, inst |-> op.pending.inst,
                         gen |-> Evidence.gen, ver |-> Evidence.ver, seen |-> Evidence.seen,
                         id |-> op.pending.id, kind |-> op.pending.kind,
                         epoch |-> op.pending.epoch, config |-> op.pending.config]}
    /\ net' # net
    /\ UNCHANGED <<op, stable, rep, acked, faults, histVars>>

\* The starting configuration is not recorded on a replica without a handle.
SkipStartingRecord ==
    /\ Active /\ op.pending # NoAction /\ op.pending.kind = "RecordStartingConfiguration"
    /\ ~rep[op.pending.target].up
    /\ Persist([op EXCEPT !.pending = NoAction, !.cfgIndex = @ + 1])

DeadlinePasses ==
    /\ MayBeLate /\ op.pending # NoAction /\ op.pending.kind # "LabelMember" /\ ~op.pending.late
    /\ Persist([op EXCEPT !.pending.late = TRUE])

-----------------------------------------------------------------------------
(* Labels, which route clients.                                            *)

LabelTargets ==
    InOrder(TargetReplicas) \o (IF Failed \in TargetReplicas THEN << >> ELSE <<Failed>>)

LabelOf(m) == IF m = op.primary THEN "primary" ELSE "secondary"

BeginLabel ==
    /\ op.phase = "LabelMembers" /\ op.pending = NoAction /\ Active
    /\ Persist(IF op.labelIndex >= Len(LabelTargets) THEN WithPhase(op, "Attest")
               ELSE [op EXCEPT !.pending =
                        MakePending("LabelMember", LabelTargets[op.labelIndex + 1])])

\* The label is there, or the failed primary has no pod.
LabelDone ==
    /\ op.phase = "LabelMembers" /\ Active /\ op.pending # NoAction
    /\ Target.label = LabelOf(op.pending.target)
          \/ (op.pending.target = Failed /\ ~op.pending.authorized)
    /\ Persist([op EXCEPT !.pending = NoAction, !.labelIndex = @ + 1])

AuthorizeLabel ==
    /\ op.phase = "LabelMembers" /\ Active /\ op.pending # NoAction /\ ~op.pending.authorized
    /\ Target.label # LabelOf(op.pending.target)
    /\ Persist([op EXCEPT !.pending.authorized = TRUE])

PatchLabel ==
    /\ op.phase = "LabelMembers" /\ Active /\ op.pending # NoAction /\ op.pending.authorized
    /\ Target.label # LabelOf(op.pending.target)
    /\ rep' = [rep EXCEPT ![op.pending.target].label = LabelOf(op.pending.target)]
    /\ UNCHANGED <<op, stable, net, acked, faults, histVars>>

-----------------------------------------------------------------------------

\* reconcile_failover_operation and apply_failover_decision
Reconcile ==
    \/ AdoptReplacement \/ RemoveReplaced \/ RejectReplacement
    \/ CollectObservation \/ CollectDone \/ ProbeWaiting \/ Assess
    \/ PersistConfigurationEpoch \/ PersistDataLossEpoch
    \/ RefreshCandidate \/ CommitPromotion \/ Attest \/ CompleteFailover
    \/ BeginAction \/ EndPhase \/ ActionCompleted \/ DataLossChangedState \/ ActionFailed
    \/ AuthorizeDispatch \/ PlanDispatch \/ DispatchAction \/ SkipStartingRecord
    \/ BeginLabel \/ LabelDone \/ AuthorizeLabel \/ PatchLabel

Agent(r) == AdmitAction(r) \/ CompleteAction(r) \/ FailAction(r)

Fault(r) == Disconnect(r) \/ ReplacePod(r) \/ RestartContainer(r)

Next ==
    \/ Reconcile \/ DeadlinePasses
    \/ \E r \in Replica : Agent(r) \/ Fault(r) \/ Reconnect(r)

Spec == Init /\ [][Next]_vars

\* The controller requeues every reconcile, agents and runtimes run, and an
\* unreachable pod is reachable again.
Fairness ==
    /\ WF_vars(Reconcile)
    /\ \A r \in Replica \ {Failed} :
          WF_vars(AdmitAction(r)) /\ WF_vars(CompleteAction(r) \/ FailAction(r))
          /\ WF_vars(Reconnect(r))

FairSpec == Spec /\ Fairness

-----------------------------------------------------------------------------
(* Properties.                                                             *)

Epoch == Nat \X Nat

\* The status, the pods and the requests have the types the code gives them,
\* and a pending action only exists in a phase that dispatches.
TypeOK ==
    /\ op.phase \in Phases
    /\ DOMAIN op.current \subseteq Replica /\ DOMAIN op.obs \subseteq DOMAIN op.current
    /\ op.unavailable \subseteq Replica
    /\ op.primary \in Replica /\ op.primary \in TargetReplicas /\ op.epoch \in Epoch
    /\ DOMAIN op.attested \subseteq TargetReplicas
    /\ op.pending # NoAction =>
          /\ op.phase \in DOMAIN ActionKind \cup {"LabelMembers"}
          /\ op.pending.target \in Replica /\ op.pending.late \in BOOLEAN
    /\ stable.primary \in DOMAIN stable.insts
    /\ \A r \in Replica : /\ rep[r].epoch \in Epoch /\ rep[r].ver \in Nat
                          /\ rep[r].lsn \in 0..MaxLsn /\ rep[r].committed \in 0..rep[r].lsn
    /\ \A q \in net : q.to \in Replica /\ q.epoch \in Epoch
    /\ acked \in 0..MaxLsn /\ faults \in 0..MaxFaults

\* evaluate's reason to exist: a failover that claims no data loss has chosen a
\* candidate that had every write answered Ok, although members may be silent,
\* replaced or restarted, and what the snapshot knows of them may be old.
CandidateHasAcked ==
    op.confirmed /\ ~op.dataLoss => op.obs[op.primary].lsn >= acked

\* "Elapsed time never converts missing safety evidence into data loss"
\* (operator-failure-scenarios.md): as long as every member's process lives, no
\* silence, however long, and no passed deadline leads to data-loss negotiation.
\* When the data loss is decided, a process was lost, or a member has answered
\* that did not have the starting configuration: its recording was skipped
\* because the member could not be reached then.
NoRestartNoDataLoss ==
    op.dataLoss /\ op.phase = "PersistConfigurationEpoch" =>
        \/ \E r \in Replica : rep[r].gen > 0
        \/ \E r \in DOMAIN op.obs : ~op.obs[r].matches

\* "Data loss begins only when an applicable read quorum is conclusively
\* unavailable and no missing member can restore quorum" (protocols.md): when
\* the data loss is decided, fewer processes than a read quorum have kept
\* their state.
\* TLC refutes it; see Known counterexamples in the README.
DataLossOnlyWithoutQuorum ==
    op.dataLoss /\ op.phase = "PersistConfigurationEpoch" =>
        Cardinality({r \in Replica \ {Failed} : rep[r].gen = 0}) < Required(op.current)

\* An operation that waits for a better candidate or for a quorum has somebody
\* to ask: the probe list agrees with what the election calls outstanding.
WaitHasProbe ==
    op.phase \in Waiting => Len(WaitProbes) > 0

\* The state is well typed and a waiting operation has somebody to probe
\* (reconcile_failover_operation, the waiting phases).
Consistent ==
    /\ TypeOK
    /\ WaitHasProbe

\* One failover promotes one replica, once, however often its requests are
\* repeated, whoever is replaced, and although the operation may be poisoned
\* while the promotion is still under way.
AtMostOnePromotion == \A x, y \in crowned : x = y

\* A correlated action id has at most one effect in a process, although the
\* operator resends it until it sees the result and requests arrive late: the
\* agent's record and the fences persisted before the dispatch prevent it.
EffectOnce == \A x \in BagToSet(ran) : ran[x] = 1

\* A snapshot is only published for what runs: when the failover is done, the
\* primary replicates in exactly the published configuration and every member
\* that has not restarted since is in the published epoch and role.
PublishedIsRunning ==
    op.phase = "Completed" =>
        /\ rep[stable.primary].healthy =>
              rep[stable.primary].cfg = [mode |-> "Current", insts |-> stable.insts]
        /\ \A m \in DOMAIN stable.insts : rep[m].healthy =>
              /\ rep[m].epoch = stable.epoch /\ rep[m].inst = stable.insts[m]
              /\ rep[m].role = IF m = stable.primary THEN "Primary" ELSE "ActiveSecondary"

\* "rolls forward after post-commit secondary replacement" (testing.md): after
\* the promotion is committed only a failed action, a restarted process in the
\* target or too few replicas poison the operation.
\* TLC refutes it; see Known counterexamples in the README.
RollsForward ==
    op.phase = "Poisoned" /\ op.promoted =>
        \/ \E r \in Replica : \E id \in DOMAIN rep[r].done : rep[r].done[id] = "Failed"
        \/ \E m \in TargetReplicas : rep[m].gen > 0
        \/ Cardinality(TargetReplicas) - 1 < MinReplicas

\* Nothing waits forever: if everybody can be reached in the end, the failover
\* ends, published or poisoned.
FailoverSettles == <>(op.phase \in {"Completed", "Poisoned"})
=============================================================================
