---------------------------- MODULE CreatePartition ----------------------------
(***************************************************************************)
(* The creation of a partition: the durable operation that fences routing, *)
(* opens and promotes the first replica, then adds the others one by one,  *)
(* each with a commit of its own, and publishes routing at the end         *)
(* (durable/create_partition.rs), the reconciler that starts, drives and   *)
(* restarts it, and the replicas that run its actions (ReplicaControl).    *)
(*                                                                         *)
(* The committed snapshot is a prefix of the target members, which are in  *)
(* the order of their ids, so its length stands for it.                    *)
(***************************************************************************)
EXTENDS ReplicaControl

CONSTANTS
    N,             \* spec.replicas
    MaxFaults,     \* bound on disconnections, restarts, lost and replaced pods
    MaxTrouble,    \* bound on faults, missed deadlines and actions that fail
    MaxAttempts    \* bound on creations started

ASSUME CreateAssumption ==
    N \in Nat \ {0} /\ {MaxFaults, MaxTrouble, MaxAttempts} \subseteq Nat

VARIABLES
    op,        \* DurableOperationStatus
    stable,    \* is a stable snapshot published?
    rep,       \* the processes
    pod,       \* the pods: do they exist, are they reachable, role label
    net,       \* dispatched requests
    budget,    \* attempts, faults and trouble so far
    hit        \* replicas that a fault has befallen

vars == <<op, stable, rep, pod, net, budget, hit>>

Replica == 1..N
Primary == 1
Epoch == 1

\* The pods of a set created by a release that labelled them at once; this one
\* labels the pods it creates "bootstrap" (EnsurePods).
Init ==
    /\ op = [phase |-> "None", insts |-> [r \in Replica |-> 0], committed |-> 0,
             target |-> Primary, index |-> 0, pending |-> NoAction, late |-> FALSE]
    /\ stable = FALSE
    /\ rep = [r \in Replica |-> BlankProcess(0, 0)]
    /\ pod = [r \in Replica |->
                [exists |-> TRUE, up |-> TRUE,
                 label |-> IF r = Primary THEN "primary" ELSE "secondary"]]
    /\ net = {}
    /\ budget = [attempts |-> 0, faults |-> 0, trouble |-> 0]
    /\ hit = {}

-----------------------------------------------------------------------------
(* Phases.                                                                 *)

Compensating ==
    {"CreateCompensateRestoreConfiguration", "CreateCompensateRemoveCandidate",
     "CreateCompensateDemoteCandidate", "CreateCompensateCloseCandidate",
     "CreateCompensateDeleteCandidate", "CreateCompensateFinalize"}

Terminal == {"None", "Completed", "Failed", "Poisoned"}

\* next_phase
After ==
    [CreateOpenPrimary |-> "CreatePromotePrimary",
     CreatePromotePrimary |-> "CreatePrimaryCurrentConfiguration",
     CreatePrimaryCurrentConfiguration |-> "CreateCommitPrimary",
     CreateOpenSecondary |-> "CreateUpdateSecondaryEpoch",
     CreateUpdateSecondaryEpoch |-> "CreateAssignSecondaryIdle",
     CreateAssignSecondaryIdle |-> "CreateBuildSecondary",
     CreateBuildSecondary |-> "CreateAssignSecondaryActive",
     CreateAssignSecondaryActive |-> "CreateCatchUpConfiguration",
     CreateCatchUpConfiguration |-> "CreateWaitForCatchUpQuorum",
     CreateWaitForCatchUpQuorum |-> "CreateCurrentConfiguration",
     CreateCurrentConfiguration |-> "CreateCommitSecondary",
     CreateCompensateRestoreConfiguration |-> "CreateCompensateRemoveCandidate",
     CreateCompensateRemoveCandidate |-> "CreateCompensateDemoteCandidate",
     CreateCompensateDemoteCandidate |-> "CreateCompensateCloseCandidate",
     CreateCompensateCloseCandidate |-> "CreateCompensateDeleteCandidate",
     CreateCompensateDeleteCandidate |-> "CreateCompensateFinalize"]

Labelling == {"CreateFenceRouting", "CreatePublishRouting"}
Configuring == {"CreateCatchUpConfiguration", "CreateWaitForCatchUpQuorum",
                "CreateCurrentConfiguration"}

\* action_allowed_in_phase: the phases that have a pending action.
Acting == DOMAIN After \cup Labelling

\* failure_decision
OnFailure ==
    IF \/ op.phase \in Compensating \cup Labelling
       \/ op.phase \in {"CreateCommitPrimary", "CreateCommitSecondary", "CreateFinalize"}
    THEN "Poisoned"
    ELSE IF op.phase = "CreateOpenPrimary" THEN "CreateCompensateDeleteCandidate"
    ELSE IF op.phase \in Configuring THEN "CreateCompensateRestoreConfiguration"
    ELSE "CreateCompensateRemoveCandidate"

WithPhase(phase) == [op EXCEPT !.phase = phase, !.pending = NoAction, !.late = FALSE]

\* The configuration of the first k members, as its status shows it.
Secondaries(k) == {<<r, op.insts[r]>> : r \in 2..k}
ConfigOf(mode, k) == [mode |-> mode, members |-> Secondaries(k)]

\* What compensation restores.
Restored == Secondaries(op.committed)

\* action_for
ActionFor ==
    CASE op.phase \in {"CreateOpenPrimary", "CreateOpenSecondary"} -> [do |-> "Open"]
      [] op.phase = "CreatePromotePrimary" ->
            [do |-> "ChangeRole", role |-> "Primary", epoch |-> Epoch]
      [] op.phase = "CreateUpdateSecondaryEpoch" -> [do |-> "UpdateEpoch", epoch |-> Epoch]
      [] op.phase = "CreateAssignSecondaryIdle" ->
            [do |-> "ChangeRole", role |-> "IdleSecondary", epoch |-> Epoch]
      [] op.phase = "CreateAssignSecondaryActive" ->
            [do |-> "ChangeRole", role |-> "ActiveSecondary", epoch |-> Epoch]
      [] op.phase = "CreateCompensateDemoteCandidate" ->
            [do |-> "ChangeRole", role |-> "None", epoch |-> Epoch]
      [] op.phase = "CreateBuildSecondary" -> [do |-> "Build", peer |-> op.target]
      [] op.phase = "CreateWaitForCatchUpQuorum" -> [do |-> "Wait", peer |-> op.target]
      [] op.phase = "CreateCatchUpConfiguration" ->
            [do |-> "CatchUp", members |-> Secondaries(op.target)]
      [] op.phase \in {"CreatePrimaryCurrentConfiguration", "CreateCurrentConfiguration"} ->
            [do |-> "Current", members |-> Secondaries(op.target)]
      [] op.phase = "CreateCompensateRestoreConfiguration" ->
            [do |-> "Current", members |-> Restored]
      [] op.phase = "CreateCompensateRemoveCandidate" -> [do |-> "Remove", peer |-> op.target]
      [] OTHER -> [do |-> "Close"]

\* pending_action: who runs the action of a phase.
TargetOf ==
    CASE op.phase \in Labelling -> op.index + 1
      [] op.phase \in Configuring \cup {"CreatePrimaryCurrentConfiguration",
            "CreateBuildSecondary", "CreateCompensateRestoreConfiguration",
            "CreateCompensateRemoveCandidate"} -> Primary
      [] OTHER -> op.target

-----------------------------------------------------------------------------
(* What a reconcile observes.                                              *)

Observed(r) == pod[r].exists /\ pod[r].up
Same(r) == rep[r].inst = op.insts[r]
Is(r, role) == rep[r].role = role /\ rep[r].epoch = Epoch

\* durable_identity_members: the committed members must be the pods they were.
Drifted == \E r \in 1..op.committed : ~pod[r].exists \/ ~Same(r)

\* The primary's configurations that a phase admits.
Expected ==
    CASE op.phase = "CreateCatchUpConfiguration" ->
            {ConfigOf("Current", op.committed), ConfigOf("CatchUp", op.target)}
      [] op.phase = "CreateWaitForCatchUpQuorum" -> {ConfigOf("CatchUp", op.target)}
      [] op.phase \in {"CreateCurrentConfiguration", "CreateCommitSecondary"} ->
            {ConfigOf("CatchUp", op.target), ConfigOf("Current", op.target)}
      [] op.phase = "CreateCompensateRestoreConfiguration" ->
            {ConfigOf("Current", op.committed), ConfigOf("CatchUp", op.target)}
      [] op.phase \in {"CreatePublishRouting", "CreateFinalize"} -> {ConfigOf("Current", N)}
      [] OTHER -> {ConfigOf("Current", op.committed)}

\* validate_committed_observations
CommittedHolds ==
    op.committed > 0 =>
        /\ \A r \in 1..op.committed :
              Observed(r) /\ Is(r, IF r = Primary THEN "Primary" ELSE "ActiveSecondary")
        /\ rep[Primary].cfg \in Expected

\* current_candidate_changed
CandidateChanged ==
    /\ op.phase \notin Compensating \cup Labelling \cup {"CreateFinalize"}
    /\ Observed(op.target) /\ ~Same(op.target)

Active == op.phase \notin Terminal
Sound == Active /\ ~Drifted /\ CommittedHolds

Persist(next) ==
    /\ op' = next
    /\ UNCHANGED <<stable, rep, pod, net, budget, hit>>

-----------------------------------------------------------------------------
(* Starting and restarting.                                                *)

\* reconcile_set, Creating: the pods that are missing are created.
EnsurePods ==
    /\ op.phase \in {"None", "Failed"} /\ \E r \in Replica : ~pod[r].exists
    /\ rep' = [r \in Replica |->
                 IF pod[r].exists THEN rep[r] ELSE BlankProcess(rep[r].inst + 1, rep[r].gen + 1)]
    /\ pod' = [r \in Replica |->
                 IF pod[r].exists THEN pod[r]
                 ELSE [exists |-> TRUE, up |-> TRUE, label |-> "bootstrap"]]
    /\ UNCHANGED <<op, stable, net, budget, hit>>

\* start_create_partition, which refuses when a committed member is not the pod
\* it was.
StartCreate ==
    /\ op.phase \in {"None", "Failed"} /\ budget.attempts < MaxAttempts
    /\ \A r \in Replica : Observed(r)
    /\ \A r \in 1..op.committed : Same(r)
    /\ op' = [phase |-> "CreateFenceRouting", insts |-> [r \in Replica |-> rep[r].inst],
              committed |-> op.committed, target |-> Primary, index |-> 0,
              pending |-> NoAction, late |-> FALSE]
    /\ budget' = [budget EXCEPT !.attempts = @ + 1]
    /\ UNCHANGED <<stable, rep, pod, net, hit>>

-----------------------------------------------------------------------------
(* Steps without an action.                                                *)

\* reconcile_durable_operation and validate_committed_observations: a committed
\* member that is another pod, silent or changed poisons the creation.
FailClosed == Active /\ (Drifted \/ ~CommittedHolds) /\ Persist(WithPhase("Poisoned"))

CandidateLost == CandidateChanged /\ Persist(WithPhase(OnFailure))

\* Mutant: the next member is taken for committed.
NextMemberEarly(k) ==
    IF k = N THEN [WithPhase("CreatePublishRouting") EXCEPT
                      !.committed = k, !.index = 0, !.target = Primary]
    ELSE [WithPhase(IF k = 0 THEN "CreateOpenPrimary" ELSE "CreateOpenSecondary") EXCEPT
             !.committed = IF k = 0 THEN 0 ELSE k + 1,
             !.index = IF k = 0 THEN 0 ELSE k - 1, !.target = k + 1]

\* advance_after_fencing and advance_after_commit: the first member that is not
\* committed is next, or routing when all are.
NextMember(k) ==
    IF k = N THEN [WithPhase("CreatePublishRouting") EXCEPT
                      !.committed = k, !.index = 0, !.target = Primary]
    ELSE [WithPhase(IF k = 0 THEN "CreateOpenPrimary" ELSE "CreateOpenSecondary") EXCEPT
             !.committed = k, !.index = IF k = 0 THEN 0 ELSE k - 1, !.target = k + 1]

\* set_current_target takes the pod's name from its observation.
NextKnown(k) == Observed(IF k = N THEN Primary ELSE k + 1)

Commit ==
    /\ op.phase \in {"CreateCommitPrimary", "CreateCommitSecondary"}
    /\ Observed(Primary)
    /\ IF rep[Primary].cfg # ConfigOf("Current", op.target)
       THEN Persist(WithPhase("Poisoned"))
       ELSE /\ NextKnown(op.target)
            /\ Persist(IF op.target < N /\ ~Same(op.target + 1)
                       THEN [WithPhase("Failed") EXCEPT !.committed = op.target]
                       ELSE NextMember(op.target))

\* validate_final_observations
Finalize ==
    /\ op.phase = "CreateFinalize" /\ op.committed = N
    /\ \A r \in Replica :
          /\ Observed(r) /\ Same(r) /\ Is(r, IF r = Primary THEN "Primary" ELSE "ActiveSecondary")
          /\ pod[r].label = IF r = Primary THEN "primary" ELSE "secondary"
    /\ op' = WithPhase("Completed")
    /\ stable' = TRUE
    /\ UNCHANGED <<rep, pod, net, budget, hit>>

\* Nothing is connected to a candidate when nothing is committed.
SkipRemove ==
    /\ op.phase = "CreateCompensateRemoveCandidate" /\ op.committed = 0
    /\ Persist(WithPhase("CreateCompensateDemoteCandidate"))

\* Mutant: only a creation without a committed member is restarted.
RestartUncommitted ==
    /\ op.phase = "CreateCompensateFinalize" /\ op.committed = 0
    /\ Persist(WithPhase("Failed"))

RestartCreation ==
    /\ op.phase = "CreateCompensateFinalize"
    /\ Persist(WithPhase("Failed"))

-----------------------------------------------------------------------------
(* Fencing: labels only.                                                   *)

F == op.index + 1

\* restart_or_poison_fence
RestartOrPoison == WithPhase(IF F <= op.committed THEN "Poisoned" ELSE "Failed")

FenceDone ==
    /\ Observed(F) /\ Same(F) /\ pod[F].label = "bootstrap"
    /\ IF F = N THEN NextKnown(op.committed) /\ Persist(NextMember(op.committed))
       ELSE Persist([WithPhase(op.phase) EXCEPT !.index = @ + 1])

FenceGivenUp ==
    \/ Observed(F) /\ ~Same(F) /\ Persist(RestartOrPoison)
    \/ /\ Observed(F) /\ Same(F) /\ pod[F].label # "bootstrap" /\ op.late
       /\ Persist(WithPhase("Poisoned"))
    \/ /\ ~Observed(F) /\ op.late
       /\ Persist(IF pod[F].exists /\ Same(F) THEN WithPhase("Poisoned") ELSE RestartOrPoison)

FenceLabel ==
    /\ Observed(F) /\ Same(F) /\ pod[F].label # "bootstrap" /\ ~op.late
    /\ pod' = [pod EXCEPT ![F].label = "bootstrap"]
    /\ UNCHANGED <<op, stable, rep, net, budget, hit>>

-----------------------------------------------------------------------------
(* Steps with an action.                                                   *)

\* The id names the identities of the target members, the phase and the index:
\* a creation restarted over the same pods has the ids of the one before.  The
\* last component is the action's input, whose signature goes with the id.
ActionId ==
    <<op.insts, op.phase, IF op.phase \in Compensating THEN 0 ELSE op.index, ActionFor>>

BeginAction ==
    /\ op.phase \in Acting
    /\ op.phase = "CreateCompensateRemoveCandidate" => op.committed > 0
    /\ Persist([op EXCEPT !.late = FALSE,
                  !.pending = [id |-> ActionId, target |-> TargetOf, fences |-> << >>]])

\* A process knows the id with another signature: the indices of compensations
\* are 0, so those of two candidates have the same ids.
Conflict(p, id) ==
    LET Differs(x) == SubSeq(x, 1, 3) = SubSeq(id, 1, 3) /\ x # id
    IN  \/ p.active # NoAction /\ Differs(p.active.id)
        \/ \E x \in DOMAIN p.done : Differs(x)

T == op.pending.target
P == rep[T]

Either(post, pre) ==
    IF post THEN "Postcondition" ELSE IF pre THEN "Precondition" ELSE "Impossible"

\* configuration_observation
Configuration(expected, before) ==
    Either(Is(T, "Primary") /\ P.cfg = expected, Is(T, "Primary") /\ P.cfg = before)

\* What the state of the target says.
DirectObservation ==
    CASE op.phase \in {"CreateOpenPrimary", "CreateOpenSecondary"} ->
            Either(P.open /\ P.role = "Unknown", ~P.open /\ P.role = "Unknown")
      [] op.phase = "CreatePromotePrimary" ->
            Either(P.open /\ Is(T, "Primary"),
                   P.open /\ P.role = "Unknown" /\ P.epoch = BlankEpoch)
      [] op.phase = "CreateUpdateSecondaryEpoch" ->
            Either(P.open /\ Is(T, "Unknown"),
                   P.open /\ P.role = "Unknown" /\ P.epoch = BlankEpoch)
      [] op.phase = "CreateAssignSecondaryIdle" ->
            Either(Is(T, "IdleSecondary"), Is(T, "Unknown"))
      [] op.phase = "CreateAssignSecondaryActive" ->
            Either(Is(T, "ActiveSecondary"), Is(T, "IdleSecondary"))
      [] op.phase \in {"CreateBuildSecondary", "CreateWaitForCatchUpQuorum",
                       "CreateCompensateRemoveCandidate"} -> "Precondition"
      [] op.phase = "CreatePrimaryCurrentConfiguration" ->
            Configuration(ConfigOf("Current", Primary), NoConfig)
      [] op.phase = "CreateCatchUpConfiguration" ->
            Configuration(ConfigOf("CatchUp", op.target), ConfigOf("Current", op.committed))
      [] op.phase = "CreateCurrentConfiguration" ->
            Configuration(ConfigOf("Current", op.target), ConfigOf("CatchUp", op.target))
      [] op.phase = "CreateCompensateRestoreConfiguration" ->
            Configuration(ConfigOf("Current", op.committed), ConfigOf("CatchUp", op.target))
      [] op.phase = "CreatePublishRouting" ->
            Either(pod[T].label = IF T = Primary THEN "primary" ELSE "secondary", TRUE)
      [] op.phase = "CreateCompensateDemoteCandidate" ->
            Either(P.role \in {"None", "Unknown"}, P.epoch = Epoch)
      [] OTHER ->
            Either(~P.open, P.role \in {"None", "Unknown"})

\* candidate_info and config_for_snapshot need the members they name: without
\* them the action cannot be constructed, nor its record compared.
Constructible ==
    /\ op.phase = "CreateBuildSecondary" => Observed(op.target) /\ Same(op.target)
    /\ op.phase \in {"CreateCatchUpConfiguration", "CreateCurrentConfiguration"} =>
          \A r \in 2..op.target : Observed(r) /\ Same(r)
    /\ op.phase \notin Labelling

\* observe_action
Observation ==
    IF op.phase = "CreateCompensateDeleteCandidate"
    THEN Either(~Observed(T) \/ ~Same(T), TRUE)
    ELSE IF ~Observed(T) THEN "Unavailable"
    ELSE IF ~Same(T)
    THEN Either(op.phase \in {"CreateCompensateDemoteCandidate",
                              "CreateCompensateCloseCandidate"}, FALSE)
    ELSE IF DirectObservation = "Postcondition" \/ ~Constructible THEN DirectObservation
    ELSE IF Conflict(P, op.pending.id) THEN "Impossible"
    ELSE CASE Record(P, op.pending.id) = "Completed" -> "Postcondition"
           [] Record(P, op.pending.id) = "none"      -> DirectObservation
           [] OTHER                                  -> Record(P, op.pending.id)

\* Mutant: an action under way counts as done.
ActionDoneInProgress(o) ==
    /\ o \in {"Postcondition", "InProgress"}
    /\ Persist(IF op.phase # "CreatePublishRouting" THEN WithPhase(After[op.phase])
               ELSE IF op.index + 1 = N THEN WithPhase("CreateFinalize")
               ELSE [WithPhase(op.phase) EXCEPT !.index = @ + 1])

ActionDone(o) ==
    /\ o = "Postcondition"
    /\ Persist(IF op.phase # "CreatePublishRouting" THEN WithPhase(After[op.phase])
               ELSE IF op.index + 1 = N THEN WithPhase("CreateFinalize")
               ELSE [WithPhase(op.phase) EXCEPT !.index = @ + 1])

Skippable == {"CreateCompensateDemoteCandidate", "CreateCompensateCloseCandidate"}

\* A candidate that cannot be reached is not demoted or closed, only deleted.
SkipUnavailable(o) ==
    /\ o = "Unavailable" /\ op.phase \in Skippable
    /\ Persist(WithPhase(After[op.phase]))

ActionGivenUp(o) ==
    /\ \/ o = "Failed"
       \/ o \in {"Precondition", "InProgress"} /\ op.late
       \/ o = "Unavailable" /\ op.late /\ op.phase \notin Skippable
    /\ Persist(WithPhase(OnFailure))

ActionPoisons(o) ==
    /\ o = "Impossible"
    /\ Persist(WithPhase("Poisoned"))

Executing(o) == o = "Precondition" /\ ~op.late

PublishLabel(o) ==
    /\ Executing(o) /\ op.phase = "CreatePublishRouting"
    /\ pod' = [pod EXCEPT ![T].label = IF T = Primary THEN "primary" ELSE "secondary"]
    /\ UNCHANGED <<op, stable, rep, net, budget, hit>>

DeletePod(o) ==
    /\ Executing(o) /\ op.phase = "CreateCompensateDeleteCandidate"
    /\ pod' = [pod EXCEPT ![T].exists = FALSE]
    /\ rep' = [rep EXCEPT ![T] = Restarted(@)]
    /\ UNCHANGED <<op, stable, net, budget, hit>>

Dispatchable(o) ==
    /\ Executing(o) /\ Constructible
    /\ op.phase \notin {"CreateCompensateDeleteCandidate"}

\* plan_dispatch_evidence: the fences are persisted before they are used.
PlanDispatch(o) ==
    /\ Dispatchable(o) /\ op.pending.fences # Fences(P)
    /\ Persist([op EXCEPT !.pending.fences = Fences(P)])

DispatchAction(o) ==
    /\ Dispatchable(o) /\ op.pending.fences = Fences(P)
    /\ LET q == [to |-> T, id |-> op.pending.id, fences |-> op.pending.fences,
                 act |-> ActionFor]
       IN  q \notin net /\ net' = net \cup {q}
    /\ UNCHANGED <<op, stable, rep, pod, budget, hit>>

DeadlinePasses ==
    /\ Active /\ op.pending # NoAction /\ ~op.late /\ budget.trouble < MaxTrouble
    /\ op' = [op EXCEPT !.late = TRUE]
    /\ budget' = [budget EXCEPT !.trouble = @ + 1]
    /\ UNCHANGED <<stable, rep, pod, net, hit>>

-----------------------------------------------------------------------------
(* Replicas.                                                               *)

HandleRequest(r) ==
    /\ pod[r].exists
    /\ \E q \in net :
          /\ q.to = r
          /\ \/ /\ CanAdmit(rep[r], q) /\ ~Conflict(rep[r], q.id)
                /\ rep' = [rep EXCEPT ![r] = Admit(@, q)]
             \/ (Refused(rep[r], q) \/ Conflict(rep[r], q.id)) /\ UNCHANGED rep
          /\ net' = net \ {q}
    /\ UNCHANGED <<op, stable, pod, budget, hit>>

\* A build copies the primary's state to an idle secondary; a catch-up quorum
\* is reached by a candidate that has the copy.
PeerReady(act) ==
    LET c == rep[act.peer]
    IN  /\ pod[act.peer].exists /\ c.open
        /\ act.do = "Build" => c.wal = "IdleSecondary"
        /\ act.do = "Wait" => c.data

CompleteAction(r) ==
    /\ pod[r].exists /\ MayComplete(rep[r])
    /\ LET act == rep[r].active.act
       IN  /\ act.do \in {"Build", "Wait"} => PeerReady(act)
           /\ rep' = [s \in Replica |->
                        IF s = r THEN Completed(rep[s])
                        ELSE IF act.do = "Build" /\ s = act.peer
                        THEN [rep[s] EXCEPT !.data = TRUE] ELSE rep[s]]
    /\ UNCHANGED <<op, stable, pod, net, budget, hit>>

FailAction(r) ==
    /\ pod[r].exists /\ rep[r].active # NoAction /\ budget.trouble < MaxTrouble
    /\ \E after \in FailedOutcomes(rep[r]) : rep' = [rep EXCEPT ![r] = after]
    /\ budget' = [budget EXCEPT !.trouble = @ + 1]
    /\ UNCHANGED <<op, stable, pod, net, hit>>

-----------------------------------------------------------------------------
(* Faults.                                                                 *)

Fault(r) ==
    /\ op.phase \notin {"None", "Completed", "Poisoned"} /\ pod[r].exists
    /\ budget.faults < MaxFaults /\ budget.trouble < MaxTrouble
    /\ budget' = [budget EXCEPT !.faults = @ + 1, !.trouble = @ + 1]
    /\ hit' = hit \cup {r}
    /\ UNCHANGED <<op, stable, net>>

Disconnect(r) ==
    /\ Fault(r) /\ pod[r].up
    /\ pod' = [pod EXCEPT ![r].up = FALSE]
    /\ UNCHANGED rep

Reconnect(r) ==
    /\ ~pod[r].up
    /\ pod' = [pod EXCEPT ![r].up = TRUE]
    /\ UNCHANGED <<op, stable, rep, net, budget, hit>>

RestartContainer(r) ==
    /\ Fault(r)
    /\ rep' = [rep EXCEPT ![r] = Restarted(@)]
    /\ UNCHANGED pod

LosePod(r) ==
    /\ Fault(r)
    /\ pod' = [pod EXCEPT ![r].exists = FALSE]
    /\ rep' = [rep EXCEPT ![r] = Restarted(@)]

ReplacePod(r) ==
    /\ Fault(r)
    /\ rep' = [rep EXCEPT ![r] = BlankProcess(@.inst + 1, @.gen + 1)]
    /\ pod' = [pod EXCEPT ![r].label = "bootstrap"]

-----------------------------------------------------------------------------

Fencing == FenceDone \/ FenceGivenUp \/ FenceLabel

DriveAction(o) ==
    \/ ActionDone(o) \/ SkipUnavailable(o) \/ ActionGivenUp(o) \/ ActionPoisons(o)
    \/ PublishLabel(o) \/ DeletePod(o) \/ PlanDispatch(o) \/ DispatchAction(o)

Advance ==
    \/ /\ op.pending = NoAction
       /\ Commit \/ Finalize \/ SkipRemove \/ RestartCreation \/ BeginAction
    \/ op.pending # NoAction /\ op.phase = "CreateFenceRouting" /\ Fencing
    \/ /\ op.pending # NoAction /\ op.phase # "CreateFenceRouting"
       /\ \E o \in {Observation} : DriveAction(o)

Reconcile ==
    \/ EnsurePods \/ StartCreate \/ FailClosed
    \/ Sound /\ CandidateLost
    \/ Sound /\ ~CandidateChanged /\ Advance

Agent(r) == HandleRequest(r) \/ CompleteAction(r)

Faults(r) == Disconnect(r) \/ RestartContainer(r) \/ LosePod(r) \/ ReplacePod(r)

Next ==
    \/ Reconcile \/ DeadlinePasses
    \/ \E r \in Replica : Agent(r) \/ FailAction(r) \/ Faults(r) \/ Reconnect(r)

Spec == Init /\ [][Next]_vars

\* The controller requeues every set and time passes, agents answer and the
\* network heals: some of this goes on as long as any of it can.
FairSpec ==
    Spec /\ WF_vars(Reconcile \/ DeadlinePasses \/ \E r \in Replica : Agent(r) \/ Reconnect(r))

-----------------------------------------------------------------------------
(* Properties.                                                             *)

\* The operation, the processes and the pods have the types the code gives
\* them; an action is pending only in a phase that has one.
TypeOK ==
    /\ op.phase \in Terminal \cup Acting \cup
          {"CreateCommitPrimary", "CreateCommitSecondary", "CreateFinalize",
           "CreateCompensateFinalize"}
    /\ op.committed \in 0..N /\ op.target \in Replica /\ op.index \in 0..(N - 1)
    /\ op.pending # NoAction => op.phase \in Acting /\ op.pending.target \in Replica
    /\ stable \in BOOLEAN
    /\ \A r \in Replica :
          /\ rep[r].role \in {"Unknown", "None", "Primary", "IdleSecondary", "ActiveSecondary"}
          /\ rep[r].epoch \in 0..Epoch
          /\ pod[r].label \in {"bootstrap", "primary", "secondary"}

\* "never reopens or rebuilds a committed member" (protocols.md): whatever fails,
\* is compensated or restarted around it, a committed member that no fault has
\* befallen keeps its pod, its process and its role.
CommittedUntouched ==
    \A r \in (1..op.committed) \ hit :
        /\ pod[r].exists /\ Same(r) /\ rep[r].open
        /\ Is(r, IF r = Primary THEN "Primary" ELSE "ActiveSecondary")

\* The primary's configuration holds the committed members at all times, in
\* catch-up and while one is restored, and at most the candidate besides.
CommittedIsConfigured ==
    op.committed > 0 /\ Primary \notin hit =>
        /\ Secondaries(op.committed) \subseteq rep[Primary].cfg.members
        /\ Cardinality(rep[Primary].cfg.members) <= op.committed

\* A replica that counts in the primary's quorums, and that no fault has
\* befallen, has a copy of its state.
ConfiguredHasCopy ==
    \A r \in Replica \ hit :
        <<r, rep[r].inst>> \in rep[Primary].cfg.members => rep[r].data

\* "the primary and secondary Services cannot route traffic during unsafe
\* bootstrap" (protocols.md): once routing is fenced, no pod has a serving label
\* before every member is committed, however often the creation is restarted.
RoutedIsCommitted ==
    Active /\ op.phase # "CreateFenceRouting" /\ op.committed < N =>
        \A r \in Replica : pod[r].exists => pod[r].label = "bootstrap"

\* The state is well typed, and configuration, copies and routing agree with the
\* committed members through compensations and restarts.
Consistent ==
    /\ TypeOK
    /\ CommittedIsConfigured
    /\ ConfiguredHasCopy
    /\ RoutedIsCommitted

\* A published partition runs: every replica that no fault has befallen has its
\* role and label, and the primary takes writes in the full configuration.
PublishedIsRunning ==
    stable =>
        /\ \A r \in Replica \ hit :
              /\ rep[r].open /\ Is(r, IF r = Primary THEN "Primary" ELSE "ActiveSecondary")
              /\ pod[r].label = IF r = Primary THEN "primary" ELSE "secondary"
        /\ Primary \notin hit =>
              rep[Primary].write = "Granted" /\ rep[Primary].cfg = ConfigOf("Current", N)

\* A creation does not hang: it completes or is poisoned, unless it has been
\* started as often or disturbed as much as the bounds allow.  Two waits have no
\* deadline: the end of the fencing and every commit wait for pods that nothing
\* creates while the operation is active, and a restart waits for committed
\* members to be the pods they were.
CreationSettles ==
    <>(\/ op.phase \in {"Completed", "Poisoned"}
       \/ budget.attempts = MaxAttempts \/ budget.trouble = MaxTrouble
       \/ /\ op.phase \in {"CreateFenceRouting", "CreateCommitPrimary", "CreateCommitSecondary"}
          /\ \E r \in Replica : ~pod[r].exists
       \/ op.phase = "Failed" /\ \E r \in 1..op.committed : ~Same(r))
=============================================================================
