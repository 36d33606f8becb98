------------------------------ MODULE Switchover ------------------------------
(***************************************************************************)
(* Planned primary changes: the operation the operator keeps in the status *)
(* of the custom resource (durable/switchover.rs), one persisted step or   *)
(* one dispatch per reconcile (reconciler.rs, durable/effects.rs), over    *)
(* replicas that admit and run its actions (ReplicaControl), while clients *)
(* write.                                                                  *)
(*                                                                         *)
(* The operator keeps nothing between reconciles.  A dispatched request    *)
(* stays in net until an agent admits or refuses it.  Replication is an    *)
(* LSN per replica: the log of a primary's tenure has one order, and a     *)
(* replica holds a prefix of it.  An LSN stands for one write as long as   *)
(* no primary assigns it again: a write that is taken after the access was *)
(* revoked may stay behind on the old primary, and the next one assigns    *)
(* its LSN to another write.  From a second switchover on the LSNs tell    *)
(* the writes apart only where that did not happen (LsnIsFresh).           *)
(***************************************************************************)
EXTENDS ReplicaControl, FiniteSetsExt

CONSTANTS
    Replica,          \* replica ids
    MaxLsn,           \* bound on LSNs
    MaxSwitchovers,   \* bound on requested switchovers
    MaxFaults,        \* bound on disconnections, replacements and restarts
    MaxLate           \* bound on deadlines that pass

ASSUME SwitchoverAssumption ==
    /\ Replica \subseteq Nat /\ IsFiniteSet(Replica) /\ Cardinality(Replica) > 1
    /\ {MaxLsn, MaxSwitchovers, MaxFaults, MaxLate} \subseteq Nat

VARIABLES
    op,        \* DurableOperationStatus
    stable,    \* the published snapshot: primary, epoch
    rep,       \* the processes
    pod,       \* pods: reachable or not, role label
    lsn,       \* current_progress of each replica
    log,       \* base: LSN at which the tenure began; queued: writes past the
               \* access check that the actor has not taken yet
    acked,     \* largest LSN answered Ok to a client
    granted,   \* largest LSN assigned while the write status was Granted
    net,       \* dispatched requests
    budget     \* switchovers, faults and missed deadlines so far

vars == <<op, stable, rep, pod, lsn, log, acked, granted, net, budget>>
dataVars == <<lsn, log, acked, granted>>

StartEpoch == 1
First == Min(Replica)
Majority == Cardinality(Replica) \div 2 + 1

Terminal == {"Idle", "Completed", "Failed", "Poisoned"}

Idle == [phase |-> "Idle"]

Others(r) == Replica \ {r}
ConfigOf(mode, primary) == [mode |-> mode, members |-> Others(primary)]

Init ==
    /\ op = Idle
    /\ stable = [primary |-> First, epoch |-> StartEpoch]
    /\ rep = [r \in Replica |->
                [BlankProcess(0, 0) EXCEPT
                    !.open = TRUE, !.epoch = StartEpoch,
                    !.role = IF r = First THEN "Primary" ELSE "ActiveSecondary",
                    !.wal = IF r = First THEN "Primary" ELSE "ActiveSecondary",
                    !.write = IF r = First THEN "Granted" ELSE "NotPrimary",
                    !.cfg = IF r = First THEN ConfigOf("Current", First) ELSE NoConfig]]
    /\ pod = [r \in Replica |-> [up |-> TRUE, label |-> IF r = First THEN "primary" ELSE "secondary"]]
    /\ lsn = [r \in Replica |-> 0]
    /\ log = [base |-> 0, queued |-> [r \in Replica |-> 0]]
    /\ acked = 0 /\ granted = 0
    /\ net = {}
    /\ budget = [switchovers |-> 0, faults |-> 0, late |-> 0]

-----------------------------------------------------------------------------
(* Clients.  replicate() compares the access status and queues; the        *)
(* replicator only compares its own role when it takes the request.        *)

SubmitWrite(r) ==
    /\ rep[r].write = "Granted"
    /\ lsn[r] + log.queued[r] < MaxLsn
    /\ log' = [log EXCEPT !.queued[r] = @ + 1]
    /\ UNCHANGED <<op, stable, rep, pod, lsn, acked, granted, net, budget>>

\* The actor answers NotPrimary when it is not.
TakeWrite(r) ==
    /\ log.queued[r] > 0
    /\ log' = [log EXCEPT !.queued[r] = @ - 1]
    /\ IF rep[r].wal = "Primary"
       THEN /\ lsn' = [lsn EXCEPT ![r] = @ + 1]
            /\ granted' = IF rep[r].write = "Granted" THEN lsn'[r] ELSE granted
       ELSE UNCHANGED <<lsn, granted>>
    /\ UNCHANGED <<op, stable, rep, pod, acked, net, budget>>

\* A secondary in the primary's configuration receives the next item of the
\* tenure; the epoch accept_item compares with is never advanced.
ReceiveItem(p, s) ==
    /\ rep[p].wal = "Primary" /\ s \in rep[p].cfg.members
    /\ rep[s].wal = "ActiveSecondary"
    /\ log.base <= lsn[s] /\ lsn[s] < lsn[p]
    /\ lsn' = [lsn EXCEPT ![s] = @ + 1]
    /\ UNCHANGED <<op, stable, rep, pod, log, acked, granted, net, budget>>

\* The quorum tracker answers the oldest outstanding writes.
AnswerOk(p) ==
    /\ rep[p].wal = "Primary"
    /\ LET held == {l \in 1..lsn[p] :
                      Cardinality({m \in rep[p].cfg.members \cup {p} : lsn[m] >= l}) >= Majority}
       IN  held # {} /\ Max(held) > acked /\ acked' = Max(held)
    /\ UNCHANGED <<op, stable, rep, pod, lsn, log, granted, net, budget>>

-----------------------------------------------------------------------------
(* Agents and runtimes.                                                    *)

\* A new tenure starts at the promoted replica's LSN, and demotion clears the
\* queue of the old one.
Tenure(r, after) ==
    IF rep[r].wal # "Primary" /\ after.wal = "Primary"
    THEN [log EXCEPT !.base = lsn[r]] ELSE log

\* The agent admits a request, or refuses it for good.
HandleRequest(r) ==
    /\ \E q \in net :
          /\ q.to = r
          /\ \/ CanAdmit(rep[r], q) /\ rep' = [rep EXCEPT ![r] = Admit(@, q)]
             \/ Refused(rep[r], q) /\ UNCHANGED rep
          /\ net' = net \ {q}
    /\ UNCHANGED <<op, stable, pod, dataVars, budget>>

CompleteAction(r) ==
    /\ MayComplete(rep[r])
    /\ rep' = [rep EXCEPT ![r] = Completed(@)]
    /\ log' = Tenure(r, rep'[r])
    /\ UNCHANGED <<op, stable, pod, lsn, acked, granted, net, budget>>

FailAction(r) ==
    /\ rep[r].active # NoAction
    /\ \E after \in FailedOutcomes(rep[r]) :
          /\ rep' = [rep EXCEPT ![r] = after]
          /\ log' = Tenure(r, after)
    /\ UNCHANGED <<op, stable, pod, lsn, acked, granted, net, budget>>

-----------------------------------------------------------------------------
(* Faults, during an operation.                                            *)

MayFault ==
    /\ op.phase \notin Terminal /\ budget.faults < MaxFaults
    /\ budget' = [budget EXCEPT !.faults = @ + 1]

Disconnect(r) ==
    /\ MayFault /\ pod[r].up
    /\ pod' = [pod EXCEPT ![r].up = FALSE]
    /\ UNCHANGED <<op, stable, rep, dataVars, net>>

Reconnect(r) ==
    /\ ~pod[r].up
    /\ pod' = [pod EXCEPT ![r].up = TRUE]
    /\ UNCHANGED <<op, stable, rep, dataVars, net, budget>>

\* The container restarts in its pod; its state is gone.
Restart(r) ==
    /\ MayFault
    /\ rep' = [rep EXCEPT ![r] = Restarted(@)]
    /\ log' = [log EXCEPT !.queued[r] = 0]
    /\ UNCHANGED <<op, stable, pod, lsn, acked, granted, net>>

\* The pod is deleted and recreated.
ReplacePod(r) ==
    /\ MayFault
    /\ rep' = [rep EXCEPT ![r] = BlankProcess(@.inst + 1, @.gen + 1)]
    /\ pod' = [pod EXCEPT ![r].label = "bootstrap"]
    /\ log' = [log EXCEPT !.queued[r] = 0]
    /\ UNCHANGED <<op, stable, lsn, acked, granted, net>>

-----------------------------------------------------------------------------
(* The operation.                                                          *)

Kind ==
    [Revoke                         |-> "RevokeWrite",
     DemoteOldPrimary               |-> "DemoteOldPrimary",
     PromoteTarget                  |-> "PromoteTarget",
     DistributeEpoch                |-> "UpdateSecondaryEpoch",
     UpdateCatchUpConfiguration     |-> "UpdateCatchUpConfiguration",
     WaitForCatchUpQuorum           |-> "WaitForCatchUpQuorum",
     UpdateCurrentConfiguration     |-> "UpdateCurrentConfiguration",
     LabelTargetPrimary             |-> "LabelTargetPrimary",
     LabelOldSecondary              |-> "LabelOldSecondary",
     RestorePreviousConfiguration   |-> "RestorePreviousConfiguration",
     CompensatePromoteOldPrimary    |-> "CompensatePromoteOldPrimary",
     CompensateDistributeEpoch      |-> "CompensateUpdateSecondaryEpoch",
     CompensateCatchUpConfiguration |-> "CompensateCatchUpConfiguration",
     CompensateCurrentConfiguration |-> "CompensateCurrentConfiguration",
     CompensateLabelOldPrimary      |-> "CompensateLabelOldPrimary",
     CompensateLabelTargetSecondary |-> "CompensateLabelTargetSecondary"]

\* postcondition_advance; the two distributions count instead.
Advance ==
    [RevokeWrite                    |-> "CaptureLsn",
     DemoteOldPrimary               |-> "PromoteTarget",
     PromoteTarget                  |-> "DistributeEpoch",
     UpdateCatchUpConfiguration     |-> "WaitForCatchUpQuorum",
     WaitForCatchUpQuorum           |-> "UpdateCurrentConfiguration",
     UpdateCurrentConfiguration     |-> "LabelTargetPrimary",
     LabelTargetPrimary             |-> "LabelOldSecondary",
     LabelOldSecondary              |-> "Finalize",
     RestorePreviousConfiguration   |-> "Failing",
     CompensatePromoteOldPrimary    |-> "CompensateDistributeEpoch",
     CompensateCatchUpConfiguration |-> "CompensateCurrentConfiguration",
     CompensateCurrentConfiguration |-> "CompensateLabelOldPrimary",
     CompensateLabelOldPrimary      |-> "CompensateLabelTargetSecondary",
     CompensateLabelTargetSecondary |-> "CompensateFinalize"]

\* timeout_transition
OnTimeout(kind) ==
    CASE kind = "RevokeWrite"      -> "Failing"
      [] kind = "DemoteOldPrimary" -> "RestorePreviousConfiguration"
      [] kind = "PromoteTarget"    -> "CompensatePromoteOldPrimary"
      [] OTHER                     -> "Poisoned"

Labelling == {"LabelTargetPrimary", "LabelOldSecondary",
              "CompensateLabelOldPrimary", "CompensateLabelTargetSecondary"}
Counting == {"UpdateSecondaryEpoch", "CompensateUpdateSecondaryEpoch"}

\* The place of r among the sorted members of S, and who is at place i.
Place(S, r) == Cardinality({s \in S : s < r})
MemberAt(S, i) == CHOOSE r \in S : Place(S, r) = i

\* epoch_distribution_ids and compensation_epoch_distribution_ids
Distribution ==
    IF op.phase = "DistributeEpoch" THEN Replica \ {op.old, op.target} ELSE Others(op.old)

TargetOf(kind) ==
    CASE kind \in Counting -> MemberAt(Distribution, op.index)
      [] kind \in {"PromoteTarget", "UpdateCatchUpConfiguration", "WaitForCatchUpQuorum",
                   "UpdateCurrentConfiguration", "LabelTargetPrimary",
                   "CompensateLabelTargetSecondary"} -> op.target
      [] OTHER -> op.old

\* action_for
ActionFor(kind) ==
    CASE kind = "RevokeWrite" -> [do |-> "Revoke"]
      [] kind = "DemoteOldPrimary" ->
            [do |-> "ChangeRole", role |-> "ActiveSecondary", epoch |-> op.next]
      [] kind \in {"PromoteTarget", "CompensatePromoteOldPrimary"} ->
            [do |-> "ChangeRole", role |-> "Primary", epoch |-> op.next]
      [] kind \in Counting -> [do |-> "UpdateEpoch", epoch |-> op.next]
      [] kind = "WaitForCatchUpQuorum" -> [do |-> "Wait"]
      [] kind = "UpdateCatchUpConfiguration" ->
            [do |-> "CatchUp", members |-> Others(op.target)]
      [] kind = "UpdateCurrentConfiguration" ->
            [do |-> "Current", members |-> Others(op.target)]
      [] kind = "CompensateCatchUpConfiguration" ->
            [do |-> "CatchUp", members |-> Others(op.old)]
      [] OTHER -> [do |-> "Current", members |-> Others(op.old)]

\* start_switchover.  The id of an action names the previous epoch and the
\* target: a second attempt from the same snapshot has the ids of the first.
StartSwitchover(t) ==
    /\ op.phase \in Terminal \ {"Poisoned"} /\ t # stable.primary
    /\ \A r \in Replica : pod[r].up /\ rep[r].open
    /\ budget.switchovers < MaxSwitchovers
    /\ budget' = [budget EXCEPT !.switchovers = @ + 1]
    /\ op' = [phase |-> "Revoke", old |-> stable.primary, target |-> t,
              prev |-> stable.epoch, next |-> stable.epoch + 1,
              insts |-> [r \in Replica |-> rep[r].inst],
              index |-> 0, frozen |-> -1, pending |-> NoAction, late |-> FALSE]
    /\ UNCHANGED <<stable, rep, pod, dataVars, net>>

Persist(next) ==
    /\ op' = next
    /\ UNCHANGED <<stable, rep, pod, dataVars, net, budget>>

WithPhase(phase) == [op EXCEPT !.phase = phase, !.pending = NoAction, !.late = FALSE]

Drifted == \E r \in Replica : rep[r].inst # op.insts[r]

Running == op.phase \notin Terminal /\ ~Drifted
NoPending == Running /\ op.pending = NoAction

\* reconcile_durable_operation: another incarnation fails closed.
FailClosed ==
    /\ op.phase \notin Terminal /\ Drifted
    /\ Persist(WithPhase("Poisoned"))

-----------------------------------------------------------------------------
(* Steps without an action.                                                *)

CaptureLsn ==
    /\ NoPending /\ op.phase = "CaptureLsn"
    /\ IF ~pod[op.old].up THEN op.late /\ Persist(WithPhase("Poisoned"))
       ELSE Persist(IF /\ rep[op.old].epoch = op.prev /\ rep[op.old].role = "Primary"
                       /\ rep[op.old].write = "Pending"
                    THEN [WithPhase("PreCatchUp") EXCEPT !.frozen = lsn[op.old]]
                    ELSE WithPhase("Poisoned"))

\* Mutant: the frozen LSN is not awaited.
PreCatchUpWithoutFrozen ==
    /\ NoPending /\ op.phase = "PreCatchUp" /\ pod[op.target].up
    /\ Persist(IF rep[op.target].epoch = op.prev /\ rep[op.target].role = "ActiveSecondary"
               THEN WithPhase("DemoteOldPrimary") ELSE WithPhase("Poisoned"))

PreCatchUp ==
    /\ NoPending /\ op.phase = "PreCatchUp"
    /\ IF ~pod[op.target].up THEN op.late /\ Persist(WithPhase("RestorePreviousConfiguration"))
       ELSE IF rep[op.target].epoch # op.prev \/ rep[op.target].role # "ActiveSecondary"
       THEN Persist(WithPhase("Poisoned"))
       ELSE IF lsn[op.target] >= op.frozen THEN Persist(WithPhase("DemoteOldPrimary"))
       ELSE op.late /\ Persist(WithPhase("RestorePreviousConfiguration"))

DistributionDone ==
    /\ NoPending /\ op.phase \in {"DistributeEpoch", "CompensateDistributeEpoch"}
    /\ op.index >= Cardinality(Distribution)
    /\ Persist(WithPhase(IF op.phase = "DistributeEpoch" THEN "UpdateCatchUpConfiguration"
                         ELSE "CompensateCatchUpConfiguration"))

\* validate_snapshot_observation
Attested(primary) ==
    /\ \A r \in Replica :
          /\ pod[r].up /\ rep[r].epoch = op.next
          /\ rep[r].role = IF r = primary THEN "Primary" ELSE "ActiveSecondary"
          /\ pod[r].label = IF r = primary THEN "primary" ELSE "secondary"
    /\ rep[primary].cfg = ConfigOf("Current", primary)

Publish(phase, primary, epoch) ==
    /\ op' = WithPhase(phase)
    /\ stable' = [primary |-> primary, epoch |-> epoch]
    /\ UNCHANGED <<rep, pod, dataVars, net, budget>>

Finalize ==
    /\ NoPending /\ op.phase \in {"Finalize", "CompensateFinalize"}
    /\ LET primary == IF op.phase = "Finalize" THEN op.target ELSE op.old
       IN  IF Attested(primary)
           THEN Publish(IF op.phase = "Finalize" THEN "Completed" ELSE "Failed",
                        primary, op.next)
           ELSE op.late /\ Persist(WithPhase("Poisoned"))

\* A failed switchover publishes what the old primary attests.
CompleteFailed ==
    /\ NoPending /\ op.phase = "Failing" /\ pod[op.old].up
    /\ IF rep[op.old].role = "Primary" /\ rep[op.old].epoch \in {op.prev, op.next}
       THEN Publish("Failed", op.old, rep[op.old].epoch)
       ELSE Persist(WithPhase("Poisoned"))

-----------------------------------------------------------------------------
(* Steps with an action.                                                   *)

BeginAction ==
    /\ NoPending /\ op.phase \in DOMAIN Kind
    /\ op.phase \in {"DistributeEpoch", "CompensateDistributeEpoch"} =>
          op.index < Cardinality(Distribution)
    /\ LET kind == Kind[op.phase]
       IN  Persist([op EXCEPT !.late = FALSE,
                      !.pending = [id |-> <<op.prev, op.target, kind, op.index>>,
                                   kind |-> kind, target |-> TargetOf(kind),
                                   fences |-> << >>]])

Pending == Running /\ op.pending # NoAction
P == rep[op.pending.target]

\* config_for_snapshot: a configuration carries the address of every other
\* member, and decide returns an error while one of them is silent.
MembersKnown ==
    op.pending.kind \in {"UpdateCatchUpConfiguration", "UpdateCurrentConfiguration",
                         "RestorePreviousConfiguration", "CompensateCatchUpConfiguration",
                         "CompensateCurrentConfiguration"} =>
        \A r \in Others(op.pending.target) : pod[r].up

Is(role, epoch) == P.role = role /\ P.epoch = epoch

\* configuration_observation
Configuration(expected, before) ==
    IF ~Is("Primary", op.next) THEN "Impossible"
    ELSE IF P.cfg = expected THEN "Postcondition"
    ELSE IF P.cfg = before THEN "Precondition" ELSE "Impossible"

\* What the replica's state says when it has no record of the action.
DirectObservation ==
    LET k == op.pending.kind
        Either(post, pre) == IF post THEN "Postcondition"
                             ELSE IF pre THEN "Precondition" ELSE "Impossible"
    IN  CASE k = "RevokeWrite" ->
                Either(Is("Primary", op.prev) /\ P.write = "Pending",
                       Is("Primary", op.prev) /\ P.write = "Granted")
          [] k = "DemoteOldPrimary" ->
                Either(Is("ActiveSecondary", op.next),
                       Is("Primary", op.prev) /\ P.write = "Pending")
          [] k = "PromoteTarget" ->
                Either(Is("Primary", op.next), Is("ActiveSecondary", op.prev))
          [] k \in Counting ->
                Either(Is("ActiveSecondary", op.next), Is("ActiveSecondary", op.prev))
          [] k = "CompensatePromoteOldPrimary" ->
                Either(Is("Primary", op.next), Is("ActiveSecondary", op.next))
          [] k = "WaitForCatchUpQuorum" -> Either(FALSE, Is("Primary", op.next))
          [] k = "UpdateCatchUpConfiguration" ->
                Configuration(ConfigOf("CatchUp", op.target), NoConfig)
          [] k = "UpdateCurrentConfiguration" ->
                Configuration(ConfigOf("Current", op.target), ConfigOf("CatchUp", op.target))
          [] k = "CompensateCatchUpConfiguration" ->
                Configuration(ConfigOf("CatchUp", op.old), ConfigOf("Current", op.old))
          [] k = "CompensateCurrentConfiguration" ->
                Configuration(ConfigOf("Current", op.old), ConfigOf("CatchUp", op.old))
          [] k = "RestorePreviousConfiguration" ->
                IF Is("Primary", op.prev) /\ P.cfg = ConfigOf("Current", op.old)
                THEN Either(P.write = "Granted", P.write = "Pending") ELSE "Impossible"
          [] k \in {"LabelTargetPrimary", "CompensateLabelOldPrimary"} ->
                Either(Is("Primary", op.next) /\ pod[op.pending.target].label = "primary",
                       Is("Primary", op.next))
          [] OTHER ->
                Either(Is("ActiveSecondary", op.next) /\ pod[op.pending.target].label = "secondary",
                       Is("ActiveSecondary", op.next))

\* observe_action: the agent's record comes first.
Observation ==
    IF ~pod[op.pending.target].up THEN "Unavailable"
    ELSE IF ~MembersKnown THEN "Error"
    ELSE CASE Record(P, op.pending.id) = "Completed" -> "Postcondition"
           [] Record(P, op.pending.id) = "none"      -> DirectObservation
           [] OTHER                                  -> Record(P, op.pending.id)

\* advance_after_switchover_postcondition
ActionDone ==
    /\ Pending /\ Observation = "Postcondition"
    /\ Persist(IF op.pending.kind \in Counting
               THEN [WithPhase(op.phase) EXCEPT !.index = @ + 1]
               ELSE [WithPhase(Advance[op.pending.kind]) EXCEPT
                        !.index = IF op.pending.kind \in {"PromoteTarget",
                                        "CompensatePromoteOldPrimary"} THEN 0 ELSE @])

ActionGivenUp ==
    /\ Pending
    /\ \/ Observation = "Failed"
       \/ Observation \in {"Precondition", "InProgress"} /\ op.late
    /\ Persist(WithPhase(OnTimeout(op.pending.kind)))

ActionPoisons ==
    /\ Pending
    /\ Observation = "Impossible" \/ (Observation = "Unavailable" /\ op.late)
    /\ Persist(WithPhase("Poisoned"))

PatchLabel ==
    /\ Pending /\ op.pending.kind \in Labelling /\ Observation = "Precondition" /\ ~op.late
    /\ pod' = [pod EXCEPT ![op.pending.target].label =
                  IF op.pending.kind \in {"LabelTargetPrimary", "CompensateLabelOldPrimary"}
                  THEN "primary" ELSE "secondary"]
    /\ UNCHANGED <<op, stable, rep, dataVars, net, budget>>

Dispatchable ==
    /\ Pending /\ op.pending.kind \notin Labelling
    /\ Observation = "Precondition" /\ ~op.late

\* plan_dispatch_evidence: the fences are persisted before they are used.
PlanDispatch ==
    /\ Dispatchable /\ op.pending.fences # Fences(P)
    /\ Persist([op EXCEPT !.pending.fences = Fences(P)])

DispatchAction ==
    /\ Dispatchable /\ op.pending.fences = Fences(P)
    /\ LET q == [to |-> op.pending.target, id |-> op.pending.id,
                 fences |-> op.pending.fences, act |-> ActionFor(op.pending.kind)]
       IN  q \notin net /\ net' = net \cup {q}
    /\ UNCHANGED <<op, stable, rep, pod, dataVars, budget>>

DeadlinePasses ==
    /\ op.phase \notin Terminal /\ ~op.late /\ budget.late < MaxLate
    /\ op.pending # NoAction
          \/ op.phase \in {"CaptureLsn", "PreCatchUp", "Finalize", "CompensateFinalize"}
    /\ op' = [op EXCEPT !.late = TRUE]
    /\ budget' = [budget EXCEPT !.late = @ + 1]
    /\ UNCHANGED <<stable, rep, pod, dataVars, net>>

-----------------------------------------------------------------------------

Reconcile ==
    \/ FailClosed \/ CaptureLsn \/ PreCatchUp \/ DistributionDone \/ Finalize
    \/ CompleteFailed \/ BeginAction \/ ActionDone \/ ActionGivenUp \/ ActionPoisons
    \/ PatchLabel \/ PlanDispatch \/ DispatchAction

Clients ==
    \E r \in Replica :
        SubmitWrite(r) \/ TakeWrite(r) \/ AnswerOk(r) \/ \E s \in Replica : ReceiveItem(r, s)

Agent(r) == HandleRequest(r) \/ CompleteAction(r) \/ FailAction(r)

Fault(r) == Disconnect(r) \/ Restart(r) \/ ReplacePod(r)

Next ==
    \/ Reconcile \/ DeadlinePasses \/ Clients
    \/ \E r \in Replica : StartSwitchover(r) \/ Agent(r) \/ Fault(r) \/ Reconnect(r)

Spec == Init /\ [][Next]_vars

-----------------------------------------------------------------------------
(* Properties.                                                             *)

\* The operation, the processes and the requests have the types the code gives
\* them, and a pending action only exists in the phase that dispatches it.
TypeOK ==
    /\ op.phase \in Terminal \cup DOMAIN Kind \cup
          {"CaptureLsn", "PreCatchUp", "Finalize", "CompensateFinalize", "Failing"}
    /\ op.phase # "Idle" =>
          /\ {op.old, op.target} \subseteq Replica /\ op.old # op.target
          /\ {op.prev, op.next} \subseteq Nat /\ op.frozen \in Nat \cup {-1}
          /\ op.pending # NoAction =>
                op.phase \in DOMAIN Kind /\ op.pending.kind = Kind[op.phase]
    /\ stable.primary \in Replica
    /\ lsn \in [Replica -> Nat] /\ {acked, granted} \subseteq Nat
    /\ \A r \in Replica : /\ rep[r].write \in {"Granted", "Pending", "NotPrimary"}
                          /\ rep[r].epoch \in 0..(MaxSwitchovers + StartEpoch)

\* Two replicas never take client writes at once, although requests are resent
\* and arrive after the operator has given up on them, role changes fail half
\* way, and a compensation promotes the old primary while the promotion of the
\* target may still be under way.
AtMostOneWriter ==
    \A r, s \in Replica : rep[r].write = "Granted" /\ rep[s].write = "Granted" => r = s

\* The newest primary.
Leads(r) ==
    /\ rep[r].role = "Primary"
    /\ \A s \in Replica : rep[s].role = "Primary" => rep[s].epoch <= rep[r].epoch

\* What the frozen LSN is for: a write that the replicator took while writes
\* were granted and that was answered Ok is on whoever becomes primary.  Over
\* one switchover an LSN names a write; over several it does unless a write was
\* taken after the revocation.
GrantedWritesSurvive ==
    \A r \in Replica : Leads(r) => lsn[r] >= Min({acked, granted})

\* Two switchovers from the published snapshot, to different targets, have revoked
\* writes.
RevokedTwice ==
    LET done == rep[stable.primary].done
    IN  \E x, y \in {id \in DOMAIN done : id[1] = stable.epoch /\ id[3] = "RevokeWrite"} :
            x # y /\ done[x] = "Completed" /\ done[y] = "Completed"

\* "it never publishes a snapshot containing an old-epoch retained member"
\* (protocols.md), nor one whose primary does not run: when a switchover is
\* published, switched or compensated, every process that has not restarted is
\* in the published epoch and role, and the primary serves the published
\* configuration.  A switchover given up before its first action was seen to
\* happen publishes the previous snapshot without looking at the write status,
\* and one that repeats another may find that one's actions on record.
PublishedIsRunning ==
    op.phase \in {"Completed", "Failed"} /\ ~RevokedTwice =>
        /\ \A r \in Replica : rep[r].open =>
              /\ rep[r].epoch = stable.epoch
              /\ rep[r].role = IF r = stable.primary THEN "Primary" ELSE "ActiveSecondary"
        /\ LET p == rep[stable.primary]
           IN  p.open => /\ p.cfg = ConfigOf("Current", stable.primary)
                         /\ p.write = "Granted" \/ (op.phase = "Failed" /\ op.frozen = -1)

\* The state is well typed and the published snapshot is the one that runs, after
\* a switchover and after a compensation (validate_switchover_terminal).
Consistent ==
    /\ TypeOK
    /\ PublishedIsRunning

\* "Client successful write X is persisted" (Internals.md) across a switchover:
\* the newest primary holds every write that was answered Ok.
AcknowledgedWritesSurvive ==
    \A r \in Replica : Leads(r) => lsn[r] >= acked

\* "A resumed reconcile observes first: a matching postcondition advances"
\* (protocols.md): a switchover that failed after the frozen LSN was captured has
\* given the old primary its write access back.
\* TLC refutes it; see Known counterexamples in the README.
FailedIsRestored ==
    op.phase = "Failed" /\ op.frozen # -1 /\ rep[stable.primary].open =>
        rep[stable.primary].write = "Granted"

\* "Unverifiable post-promotion convergence becomes poisoned" (protocols.md) and
\* nothing else does: without a fault, a missed deadline or a failed action no
\* switchover ends poisoned.
\* TLC refutes it; see Known counterexamples in the README.
PoisonedOnlyAfterTrouble ==
    op.phase = "Poisoned" =>
        \/ budget.faults > 0 \/ budget.late > 0
        \/ \E r \in Replica : \E id \in DOMAIN rep[r].done : rep[r].done[id] = "Failed"
=============================================================================
