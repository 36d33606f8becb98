---------------------------- MODULE SetReconciler ----------------------------
(***************************************************************************)
(* reconcile_set (reconciler.rs) for a partition that has been created:    *)
(* how the operator chooses the next operation from the persisted status,  *)
(* the pods and the replicas' answers, and what it keeps in its memory.    *)
(*                                                                         *)
(* The operations have modules of their own (Failover, Switchover,         *)
(* AddReplica, RemoveReplica).  Here each is one step that publishes one   *)
(* of the outcomes those modules reach.  What is detailed is everything    *)
(* around them: the order of the checks in the Healthy phase, the guards   *)
(* that refuse an operation, the cached driver, the status write that is   *)
(* retried from memory, and pods, processes and the user's edits changing  *)
(* between two reconciles.  All answers of one reconcile come from one     *)
(* state: a replica that stops answering half way is one that stopped      *)
(* before, because every check for it leads to the same decision.  What a  *)
(* reconcile does with a driver of an older topology, which only two       *)
(* failed calls leave behind (MaxErrors), is not followed.                 *)
(***************************************************************************)
EXTENDS Integers, FiniteSets, FiniteSetsExt, TLC

CONSTANTS
    MaxId,        \* replica ids are 1..MaxId (pod index + 1)
    Replicas,     \* spec.replicas at the start
    MinReplicas,  \* spec.minReplicas
    FailoverDelay,\* BOOLEAN: spec.failoverDelay is not zero
    MaxFaults,    \* bound on faults of pods, processes, operations, operator
    MaxEdits,     \* bound on the user's edits
    MaxErrors     \* bound on failed calls that leave something behind

ASSUME SetAssumption ==
    /\ MaxId \in Nat \ {0} /\ Replicas \in 1..MaxId /\ MinReplicas \in 1..Replicas
    /\ FailoverDelay \in BOOLEAN
    /\ MaxFaults \in Nat /\ MaxEdits \in Nat /\ MaxErrors \in Nat

VARIABLES
    desired,   \* spec.replicas
    st,        \* the persisted status: [phase, snap, op, failing, request]
    pending,   \* state.pending_statuses: a status whose write failed
    driver,    \* state.drivers: the topology the cached driver was built from
    pod,       \* the pods of the set: [uid, ready] by replica id
    proc,      \* the process in each pod: [epoch, role, silent]
    born,      \* how many pods each replica id has had
    used       \* the budgets spent: [faults, edits, errors]

vars == <<desired, st, pending, driver, pod, proc, born, used>>

Ids == 1..MaxId
NoPod == [uid |-> 0, ready |-> FALSE]
NoSnapshot == [epoch |-> 0, primary |-> 0, uid |-> << >>]
NoOp == [kind |-> "none", mode |-> "none", target |-> 0, uid |-> 0, state |-> "Completed"]
NoStatus == [phase |-> "none", snap |-> NoSnapshot, op |-> NoOp, failing |-> "none",
             request |-> 0]
BlankProc == [epoch |-> 0, role |-> "Unknown", silent |-> FALSE]

RoleIn(snap, i) == IF i = snap.primary THEN "Primary" ELSE "ActiveSecondary"

Init ==
    /\ desired = Replicas
    /\ st = [phase |-> "Healthy", op |-> NoOp, failing |-> "none", request |-> 1,
             snap |-> [epoch |-> 1, primary |-> 1, uid |-> [i \in 1..Replicas |-> 1]]]
    /\ pending = NoStatus
    /\ driver = st.snap
    /\ pod = [i \in Ids |-> IF i <= Replicas THEN [uid |-> 1, ready |-> TRUE] ELSE NoPod]
    /\ proc = [i \in Ids |-> IF i <= Replicas
                             THEN [epoch |-> 1, role |-> RoleIn(st.snap, i), silent |-> FALSE]
                             ELSE BlankProc]
    /\ born = [i \in Ids |-> IF i <= Replicas THEN 1 ELSE 0]
    /\ used = [faults |-> 0, edits |-> 0, errors |-> 0]

-----------------------------------------------------------------------------
(* What a reconcile reads.                                                 *)

Snap == st.snap
Members == DOMAIN Snap.uid
Secondaries == Members \ {Snap.primary}
Pods == {i \in Ids : pod[i] # NoPod}

\* create_replica_handle and get_status succeed.
Answers(i) == i \in Pods /\ ~proc[i].silent

\* The committed incarnation of a member.
Same(snap, i) == pod[i].uid = snap.uid[i]

\* A member whose process is in the topology's epoch and role.
Serves(snap, i) ==
    /\ Same(snap, i) /\ Answers(i)
    /\ proc[i].epoch = snap.epoch /\ proc[i].role = RoleIn(snap, i)

\* primary_stale_before_topology
PrimaryStale == ~(Serves(Snap, Snap.primary) /\ pod[Snap.primary].ready)

MajorityOf(n) == n \div 2 + 1

\* start_remove_replica accepts the target: the members that stay are enough
\* for minReplicas and for the write quorum the snapshot had.
RemovalAccepted(i) ==
    /\ i \in Secondaries
    /\ Cardinality(Members) - 1 >= MinReplicas
    /\ Cardinality(Members) - 1 >= MajorityOf(Cardinality(Members))

-----------------------------------------------------------------------------
(* What a reconcile writes.                                                *)

MayErr == used.errors < MaxErrors /\ used' = [used EXCEPT !.errors = @ + 1]

\* Mutant: the cached driver survives the start of an operation.
StartsKeepingDriver(phase, op) ==
    /\ st' = [st EXCEPT !.phase = phase, !.op = op]
    /\ UNCHANGED <<driver, used>>

\* An operation is checkpointed, then the driver is dropped.  When the reply to
\* the status write is lost the reconcile ends before it drops the driver.
Starts(phase, op) ==
    /\ st' = [st EXCEPT !.phase = phase, !.op = op]
    /\ \/ driver' = NoSnapshot /\ UNCHANGED used
       \/ UNCHANGED driver /\ MayErr

Operation(kind, mode, i, uid) ==
    [kind |-> kind, mode |-> mode, target |-> i, uid |-> uid, state |-> "active"]

ForceRemove(i) ==
    /\ RemovalAccepted(i)
    /\ Starts("RemovingReplica", Operation("Remove", "Force", i, Snap.uid[i]))

\* ensure_pvc and ensure_pod for every desired ordinal; an existing pod is kept.
EnsurePods ==
    LET new == {i \in 1..desired : i \notin Pods}
    IN  /\ pod' = [i \in Ids |-> IF i \in new THEN [uid |-> born[i] + 1, ready |-> FALSE]
                                 ELSE pod[i]]
        /\ proc' = [i \in Ids |-> IF i \in new THEN BlankProc ELSE proc[i]]
        /\ born' = [i \in Ids |-> IF i \in new THEN born[i] + 1 ELSE born[i]]

-----------------------------------------------------------------------------
(* The Healthy phase, in the order of its checks.                          *)

\* A status write left in memory is retried before anything else.
RetryPending ==
    /\ pending # NoStatus
    /\ st' = pending /\ pending' = NoStatus
    /\ UNCHANGED <<desired, driver, pod, proc, born, used>>

Healthy == pending = NoStatus /\ st.phase = "Healthy"

DelayFailover ==
    /\ Healthy /\ PrimaryStale /\ FailoverDelay /\ st.failing = "none"
    /\ st' = [st EXCEPT !.failing = "since"]
    /\ UNCHANGED <<desired, pending, driver, pod, proc, born, used>>

StartFailover ==
    /\ Healthy /\ PrimaryStale /\ (FailoverDelay => st.failing = "elapsed")
    /\ Starts("FailingOver", Operation("Failover", "none", Snap.primary, 0))
    /\ UNCHANGED <<desired, pending, pod, proc, born>>

\* The branch that recovers the driver repeats the check of the primary, with
\* the same consequences.
Sound == Healthy /\ ~PrimaryStale

\* The candidate of a failed rebuild was deleted by its compensation.
RebuildFailed ==
    st.op.kind = "Add" /\ st.op.mode = "Rebuild" /\ st.op.state = "Failed"

\* Mutant: pods that belong to no desired ordinal are not counted as missing.
ShortOfMembers == Cardinality(Pods) < Cardinality(Members)

Short == Cardinality(Pods) < desired

RecreateRebuilt ==
    /\ Sound /\ Short /\ RebuildFailed
    /\ EnsurePods
    /\ UNCHANGED <<desired, st, pending, driver, used>>

AfterRebuild == Sound /\ ~(Short /\ RebuildFailed)

Missing == Secondaries \ Pods

RemoveMissing ==
    /\ AfterRebuild /\ Missing # {}
    /\ ForceRemove(Min(Missing))
    /\ UNCHANGED <<desired, pending, pod, proc, born>>

Replaced == {i \in Secondaries \cap Pods : ~Same(Snap, i)}

\* A replacement that is not ready: the old incarnation is evicted.
RemoveReplaced ==
    /\ AfterRebuild /\ Missing = {} /\ Replaced # {}
    /\ ~pod[Min(Replaced)].ready
    /\ ForceRemove(Min(Replaced))
    /\ UNCHANGED <<desired, pending, pod, proc, born>>

StartRebuild ==
    /\ AfterRebuild /\ Missing = {} /\ Replaced # {}
    /\ LET i == Min(Replaced)
       IN  /\ pod[i].ready
           /\ Starts("AddingReplica", Operation("Add", "Rebuild", i, pod[i].uid))
    /\ UNCHANGED <<desired, pending, pod, proc, born>>

Identified == AfterRebuild /\ Missing = {} /\ Replaced = {}

CreatePods ==
    /\ Identified /\ Short
    /\ EnsurePods
    /\ UNCHANGED <<desired, st, pending, driver, used>>

Populated == Identified /\ ~Short

-----------------------------------------------------------------------------
(* With the pods there: the driver, the health probe, the user's requests. *)

\* Without a driver, a secondary that lost its state in place is removed.
RestartedSecondaries ==
    {i \in Secondaries : pod[i].ready /\ Answers(i) /\ ~Serves(Snap, i)}

RemoveRestarted ==
    /\ Populated /\ driver = NoSnapshot /\ RestartedSecondaries # {}
    /\ ForceRemove(Min(RestartedSecondaries))
    /\ UNCHANGED <<desired, pending, pod, proc, born>>

\* PartitionDriver::recover: every member must answer as the snapshot says.
CanRecover == RestartedSecondaries = {} /\ \A i \in Members : Serves(Snap, i)

\* The reconcile rebuilds the driver and then ends, in an error or with nothing
\* to do.
RecoverDriver ==
    /\ Populated /\ driver = NoSnapshot /\ CanRecover
    /\ driver' = Snap
    /\ UNCHANGED <<desired, st, pending, pod, proc, born, used>>

\* The driver the rest of the reconcile uses.
Topology == IF driver = NoSnapshot THEN Snap ELSE driver
Tracked == DOMAIN Topology.uid

\* validate_pod_handle_identities
IdentitiesHold ==
    /\ \A i \in Tracked : Same(Topology, i)
    /\ Pods \subseteq Tracked \/ Cardinality(Tracked) < desired

\* Mutant: the probe only asks whether the replica answers.
ProbedUnanswered(i) == ~Answers(i)

\* A replica the health probe finds stale.
ProbedStale(i) ==
    \/ ~Answers(i)
    \/ proc[i].epoch # Topology.epoch
    \/ proc[i].role = "Unknown"

\* A primary found stale only now has the consequences it has in the first check.
Driven ==
    /\ Populated
    /\ driver = NoSnapshot => CanRecover
    /\ IdentitiesHold
    /\ ~ProbedStale(Topology.primary) /\ pod[Topology.primary].ready

ClearFailing ==
    /\ Driven /\ st.failing # "none"
    /\ st' = [st EXCEPT !.failing = "none"]
    /\ driver' = Topology
    /\ UNCHANGED <<desired, pending, pod, proc, born, used>>

Steady == Driven /\ st.failing = "none"

StaleSecondaries == {i \in Tracked \ {Topology.primary} : ProbedStale(i)}

RemoveStale ==
    /\ Steady /\ StaleSecondaries # {}
    /\ ForceRemove(Max(StaleSecondaries))
    /\ UNCHANGED <<desired, pending, pod, proc, born>>

Requested == st.request # Topology.primary

StartSwitchover ==
    /\ Steady /\ StaleSecondaries = {} /\ Requested
    /\ st.request \in Pods \cap Tracked
    /\ Starts("Switchover", Operation("Switchover", "none", st.request, 0))
    /\ UNCHANGED <<desired, pending, pod, proc, born>>

Unrequested == Steady /\ StaleSecondaries = {} /\ ~Requested

Joinable == {i \in Pods \ Members : pod[i].ready}

StartScaleUp ==
    /\ Unrequested /\ Cardinality(Members) < desired /\ Joinable # {}
    /\ LET i == Min(Joinable)
       IN  Starts("AddingReplica", Operation("Add", "ScaleUp", i, pod[i].uid))
    /\ UNCHANGED <<desired, pending, pod, proc, born>>

\* The target must be the pod of record, ready, and answer; the condition a
\* refusal adds to the status is left out.
PreadmitScaleDownTarget(i) == Same(Snap, i) /\ pod[i].ready /\ Answers(i)

StartScaleDown ==
    /\ Unrequested /\ Cardinality(Members) > desired /\ Secondaries # {}
    /\ LET i == Max(Secondaries)
       IN  /\ PreadmitScaleDownTarget(i) /\ RemovalAccepted(i)
           /\ Starts("RemovingReplica", Operation("Remove", "ScaleDown", i, Snap.uid[i]))
    /\ UNCHANGED <<desired, pending, pod, proc, born>>

Reconcile ==
    \/ RetryPending \/ DelayFailover \/ StartFailover \/ RecreateRebuilt \/ RemoveMissing
    \/ RemoveReplaced \/ StartRebuild \/ CreatePods \/ RemoveRestarted \/ RecoverDriver
    \/ ClearFailing \/ RemoveStale \/ StartSwitchover \/ StartScaleUp \/ StartScaleDown

-----------------------------------------------------------------------------
(* The outcomes of the operations.                                         *)

MayFault == used.faults < MaxFaults /\ used' = [used EXCEPT !.faults = @ + 1]

Active == pending = NoStatus /\ st.phase # "Healthy" /\ st.op.state = "active"

\* Every publication requests the primary it publishes.
Published(snap, state) ==
    [phase |-> "Healthy", snap |-> snap, failing |-> "none", request |-> snap.primary,
     op |-> IF st.op.kind = "Failover" THEN NoOp ELSE [st.op EXCEPT !.state = state]]

\* Complete: the status is published and the driver dropped.  After a failover it
\* is rebuilt instead, and left as it was when a member does not answer just then.
\* persist_committed_status keeps a status it could not write, and one whose write
\* was not acknowledged; a removal publishes with a plain write.  Both end the
\* reconcile before the driver is touched.
Complete(snap, state) ==
    LET status == Published(snap, state)
        remembered == IF st.op.kind = "Remove" THEN NoStatus ELSE status
    IN  \/ /\ st' = status /\ driver' = IF st.op.kind = "Failover" THEN snap ELSE NoSnapshot
           /\ UNCHANGED <<pending, used>>
        \/ /\ st.op.kind = "Failover" /\ MayErr
           /\ st' = status
           /\ UNCHANGED <<pending, driver>>
        \/ /\ MayErr
           /\ st' = status \/ (st' = st /\ st.op.kind # "Remove")
           /\ pending' = remembered
           /\ UNCHANGED driver

Configure(snap) ==
    proc' = [i \in Ids |-> IF i \in DOMAIN snap.uid /\ Answers(i) /\ Same(snap, i)
                           THEN [proc[i] EXCEPT !.epoch = snap.epoch, !.role = RoleIn(snap, i)]
                           ELSE proc[i]]

\* A failover keeps secondaries that answer for the committed incarnation, and
\* enough of them; otherwise it waits.
FailoverEnds ==
    /\ Active /\ st.op.kind = "Failover"
    /\ \E S \in SUBSET {i \in Secondaries : Serves(Snap, i)} :
          /\ Cardinality(S) >= MinReplicas
          /\ \E p \in S :
                LET snap == [epoch |-> Snap.epoch + 1, primary |-> p, uid |-> [i \in S |-> Snap.uid[i]]]
                IN  Complete(snap, "Completed") /\ Configure(snap)
    /\ UNCHANGED <<desired, pod, born>>

SwitchoverCompletes ==
    /\ Active /\ st.op.kind = "Switchover" /\ \A i \in Members : Serves(Snap, i)
    /\ LET snap == [Snap EXCEPT !.epoch = @ + 1, !.primary = st.op.target]
       IN  Complete(snap, "Completed") /\ Configure(snap)
    /\ UNCHANGED <<desired, pod, born>>

\* The old primary kept, or got back, its role.
SwitchoverFails ==
    /\ Active /\ st.op.kind = "Switchover" /\ ~(\A i \in Members : Serves(Snap, i))
    /\ Serves(Snap, Snap.primary)
    /\ Complete(Snap, "Failed")
    /\ UNCHANGED <<desired, pod, proc, born>>

\* The target's frozen incarnation, not opened before.
TargetFresh ==
    LET i == st.op.target
    IN  pod[i].uid = st.op.uid /\ Answers(i) /\ proc[i].role = "Unknown"

AddCompletes ==
    /\ Active /\ st.op.kind = "Add" /\ Serves(Snap, Snap.primary) /\ TargetFresh
    /\ LET snap == [Snap EXCEPT !.uid = (st.op.target :> st.op.uid) @@ @]
       IN  Complete(snap, "Completed") /\ Configure(snap)
    /\ UNCHANGED <<desired, pod, born>>

Deleted(i, uid) ==
    /\ pod' = IF pod[i].uid = uid THEN [pod EXCEPT ![i] = NoPod] ELSE pod
    /\ proc' = IF pod[i].uid = uid THEN [proc EXCEPT ![i] = BlankProc] ELSE proc

\* The compensation of an add deletes the frozen incarnation.
AddFails ==
    /\ Active /\ st.op.kind = "Add" /\ Snap.primary \in Pods /\ ~TargetFresh
    /\ Complete(Snap, "Failed")
    /\ Deleted(st.op.target, st.op.uid)
    /\ UNCHANGED <<desired, born>>

\* CompleteDegraded: the add is committed but the target cannot be attested any
\* more.  The operation that is kept says Failed.
AddDegrades ==
    /\ Active /\ st.op.kind = "Add" /\ ~TargetFresh
    /\ Complete([Snap EXCEPT !.uid = (st.op.target :> st.op.uid) @@ @], "Failed")
    /\ UNCHANGED <<desired, pod, proc, born>>

RemoveCompletes ==
    /\ Active /\ st.op.kind = "Remove" /\ Serves(Snap, Snap.primary)
    /\ LET snap == [Snap EXCEPT !.uid = [i \in Members \ {st.op.target} |-> @[i]]]
       IN  Complete(snap, "Completed")
    /\ Deleted(st.op.target, st.op.uid)
    /\ UNCHANGED <<desired, born>>

OperationEnds ==
    \/ FailoverEnds \/ SwitchoverCompletes \/ SwitchoverFails \/ AddCompletes \/ AddFails
    \/ RemoveCompletes

\* An operation that cannot prove where it stands stays where it is.
Poison ==
    /\ Active /\ MayFault
    /\ st' = [st EXCEPT !.op.state = "Poisoned"]
    /\ UNCHANGED <<desired, pending, driver, pod, proc, born>>

\* A removal fails before its commit and publishes the topology it had.
RemoveFails ==
    /\ Active /\ st.op.kind = "Remove" /\ Snap.primary \in Pods /\ MayFault
    /\ st' = Published(Snap, "Failed") /\ driver' = NoSnapshot
    /\ UNCHANGED <<desired, pending, pod, proc, born>>

-----------------------------------------------------------------------------
(* Kubernetes, the user and the operator's process.                        *)

PodReady(i) ==
    /\ i \in Pods /\ ~pod[i].ready
    /\ pod' = [pod EXCEPT ![i].ready = TRUE]
    /\ UNCHANGED <<desired, st, pending, driver, proc, born, used>>

PodUnready(i) ==
    /\ i \in Pods /\ pod[i].ready /\ MayFault
    /\ pod' = [pod EXCEPT ![i].ready = FALSE]
    /\ UNCHANGED <<desired, st, pending, driver, proc, born>>

PodDeleted(i) ==
    /\ i \in Pods /\ MayFault
    /\ Deleted(i, pod[i].uid)
    /\ UNCHANGED <<desired, st, pending, driver, born>>

\* The pod comes back under the same name before the operator looks.
PodReplaced(i) ==
    /\ i \in Pods /\ MayFault
    /\ pod' = [pod EXCEPT ![i] = [uid |-> born[i] + 1, ready |-> FALSE]]
    /\ proc' = [proc EXCEPT ![i] = BlankProc]
    /\ born' = [born EXCEPT ![i] = @ + 1]
    /\ UNCHANGED <<desired, st, pending, driver>>

ProcessRestarts(i) ==
    /\ i \in Pods /\ proc[i].role # "Unknown" /\ MayFault
    /\ proc' = [proc EXCEPT ![i] = BlankProc]
    /\ UNCHANGED <<desired, st, pending, driver, pod, born>>

ProcessSilent(i) ==
    /\ Answers(i) /\ MayFault
    /\ proc' = [proc EXCEPT ![i].silent = TRUE]
    /\ UNCHANGED <<desired, st, pending, driver, pod, born>>

ProcessAnswers(i) ==
    /\ proc[i].silent
    /\ proc' = [proc EXCEPT ![i].silent = FALSE]
    /\ UNCHANGED <<desired, st, pending, driver, pod, born, used>>

OperatorRestarts ==
    /\ MayFault
    /\ driver' = NoSnapshot /\ pending' = NoStatus
    /\ UNCHANGED <<desired, st, pod, proc, born>>

\* failoverDelay seconds have passed since primary_failing_since.
DelayElapses ==
    /\ st.failing = "since"
    /\ st' = [st EXCEPT !.failing = "elapsed"]
    /\ UNCHANGED <<desired, pending, driver, pod, proc, born, used>>

MayEdit == used.edits < MaxEdits /\ used' = [used EXCEPT !.edits = @ + 1]

EditReplicas(n) ==
    /\ n # desired /\ MayEdit
    /\ desired' = n
    /\ UNCHANGED <<st, pending, driver, pod, proc, born>>

RequestPrimary(i) ==
    /\ i # st.request /\ MayEdit
    /\ st' = [st EXCEPT !.request = i]
    /\ UNCHANGED <<desired, pending, driver, pod, proc, born>>

Environment ==
    \/ Poison \/ RemoveFails \/ AddDegrades \/ OperatorRestarts \/ DelayElapses
    \/ \E i \in Ids :
          \/ PodReady(i) \/ PodUnready(i) \/ PodDeleted(i) \/ PodReplaced(i)
          \/ ProcessRestarts(i) \/ ProcessSilent(i) \/ ProcessAnswers(i)
          \/ EditReplicas(i) \/ RequestPrimary(i)

Next == Reconcile \/ OperationEnds \/ Environment

Spec == Init /\ [][Next]_vars

\* The controller requeues every reconcile and watches set and pods; an
\* operation that can publish does; pods start; time passes.  Nothing promises
\* that a silent process answers again.
Fairness ==
    /\ WF_vars(Reconcile) /\ WF_vars(OperationEnds) /\ WF_vars(DelayElapses)
    /\ \A i \in Ids : WF_vars(PodReady(i))

FairSpec == Spec /\ Fairness

-----------------------------------------------------------------------------
(* Properties.                                                             *)

IsSnapshot(s) ==
    /\ s.epoch \in Nat /\ s.primary \in Ids \cup {0}
    /\ DOMAIN s.uid \subseteq Ids /\ \A i \in DOMAIN s.uid : s.uid[i] \in Nat \ {0}
Operations ==
    [kind : {"none", "Failover", "Switchover", "Add", "Remove"},
     mode : {"none", "ScaleUp", "Rebuild", "ScaleDown", "Force"},
     target : Ids \cup {0}, uid : Nat, state : {"active", "Completed", "Failed", "Poisoned"}]
IsStatus(s) ==
    /\ IsSnapshot(s.snap) /\ s.op \in Operations
    /\ s.failing \in {"none", "since", "elapsed"} /\ s.request \in Ids
    /\ s.phase \in {"Healthy", "FailingOver", "Switchover", "AddingReplica", "RemovingReplica"}

\* The type invariant: the status, the cached driver, the pods and processes
\* range over what crd.rs and ReconcilerState can hold.
TypeOK ==
    /\ desired \in Ids
    /\ IsStatus(st) /\ (pending = NoStatus \/ IsStatus(pending)) /\ IsSnapshot(driver)
    /\ pod \in [Ids -> [uid : Nat, ready : BOOLEAN]]
    /\ proc \in [Ids -> [epoch : Nat, role : {"Unknown", "Primary", "ActiveSecondary"},
                         silent : BOOLEAN]]
    /\ born \in [Ids -> Nat]
    /\ used \in [faults : 0..MaxFaults, edits : 0..MaxEdits, errors : 0..MaxErrors]

\* One failed call never leaves the Healthy phase with a driver of another topology
\* than the persisted one: an operation drops the cached driver when it starts and
\* again, or replaces it, when it has published, and each of the two may be missed.
\* Missing both leaves such a driver (DriverNeverStale).
DriverIsCurrent ==
    st.phase = "Healthy" /\ driver # NoSnapshot /\ used.errors <= 1 => driver = Snap

\* Whatever failed, the driver never knows of a topology that was not published
\* (a failover publishes before it rebuilds the driver), nor of another primary in
\* the epoch that was.
DriverIsPublished ==
    /\ driver.epoch <= Snap.epoch
    /\ driver.epoch = Snap.epoch => driver.primary = Snap.primary

\* The state is well typed and the operator's memory agrees with the persisted
\* status (ReconcilerState and KubericSetStatus).
Consistent ==
    /\ TypeOK
    /\ DriverIsCurrent
    /\ DriverIsPublished

\* "don't switchover to a stale target" (the health check in reconcile_set):
\* when a switchover starts every member answers, in the committed epoch, as a
\* process that has not lost its role, even if the driver was cached before.
SwitchoverFromHealth ==
    [][st.phase = "Healthy" /\ st'.phase = "Switchover" =>
          \A i \in Members : Serves(Snap, i)]_vars

\* What stops the reconciler from changing anything: the partition is as it was
\* asked for, or one of the situations in which every reconcile returns an
\* error or waits.
Settled ==
    /\ st.phase = "Healthy" /\ pending = NoStatus
    /\ Cardinality(Members) = desired /\ st.request = Snap.primary
    /\ \A i \in Members : Serves(Snap, i)
OperationStands ==
    /\ st.phase # "Healthy"
    /\ \/ st.op.state = "Poisoned"
       \/ st.op.kind # "Failover" /\ ~Serves(Snap, Snap.primary)
       \/ /\ st.op.kind = "Failover"
          /\ Cardinality({i \in Secondaries : Serves(Snap, i)}) < MinReplicas
Unremovable ==
    \E i \in Secondaries : ~Serves(Snap, i) /\ ~RemovalAccepted(i)
UnansweredWithoutDriver ==
    driver = NoSnapshot /\ \E i \in Secondaries : ~Answers(i)
ExtraPod == Cardinality(Members) >= desired /\ ~(Pods \subseteq Members)
BadRequest == st.request \notin Pods \cap Members
ScaleDownRefused ==
    /\ Cardinality(Members) > desired
    /\ \A i \in Secondaries : ~RemovalAccepted(i)
Waiting ==
    OperationStands \/ Unremovable \/ UnansweredWithoutDriver \/ ExtraPod \/ BadRequest
    \/ ScaleDownRefused

\* Once faults and edits stop, the reconciler reaches the topology that was
\* asked for, with every member serving, or one of the named situations in which
\* it refuses to act: it never cycles and never rests anywhere else.
Converges == <>[](Settled \/ Waiting)

\* "Rebuild process-local driver state before making any Healthy health or topology
\* decision" (reconcile_set): no driver of an older topology outlives an operation.
\* TLC refutes it; see Known counterexamples in the README.
DriverNeverStale == st.phase = "Healthy" /\ driver # NoSnapshot => driver = Snap

\* "An unreachable old incarnation with no ready replacement is force-removed":
\* a secondary that does not answer any more leaves the topology, when enough
\* members stay and nothing else is wrong.
\* TLC refutes it; see Known counterexamples in the README.
UnreachableIsRemoved ==
    \A i \in Ids :
        (Sound /\ i \in Secondaries /\ proc[i].silent /\ RemovalAccepted(i))
            ~> (i \notin Members \/ ~proc[i].silent \/ PrimaryStale
                \/ st.op.state = "Poisoned" \/ ~RemovalAccepted(i))
=============================================================================
