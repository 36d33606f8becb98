# Kuberic in TLA+

Kuberic replicates stateful services on Kubernetes. A *partition* is a set of
replicas, each a pod with a runtime, a replicator and the user's state
provider. One replica is primary: it assigns log sequence numbers (LSNs), sends
operations to the secondaries and answers a write when a write quorum has
acknowledged it. An operator drives the membership: it creates partitions,
adds, removes and switches replicas, and fails over when a primary is lost.

This directory holds TLA+ models of the code, the TLC runs that check them and
TLAPS proofs about them. `PROJECT.json` lists the components, the runs, the
source lines every definition stands for, the hazards, and what was found.

## The system

| Component | State | Operations | What makes it correct |
|---|---|---|---|
| Quorum tracker (`replicator/quorum.rs`) | pending operations with reply channel and deadline, current and previous configuration, must-catch-up set, per-replica acknowledged LSN, committed/highest/baseline LSN, catch-up waiters, attempt flags | register, ack, expire, reconfigure, wait, cancel, fail, reset | every caller answered once; Ok means both quorums; an expired operation stays expired; a wait does not hide a failure |
| Replicator actor (`actor.rs`, `primary.rs`, `queue.rs`) | role, epoch, next LSN, queue, connections | control events, data path; ACK reader per connection; scheduler task | counters ordered through promotion, demotion, data loss; the queue covers what a copy leaves out |
| Secondary receiver (`secondary.rs`) | fence epoch, progress | accept item, forward, deferred ACK, copy stream | ACK only after the user applied; old epochs refused |
| Build (`copy.rs`) | copy boundary | context, snapshot, stream | boundary + replay + live stream = everything committed |
| State provider (kvstore example) | applied operations, WAL, snapshot | apply, roll back, copy state, data loss | acknowledged data survives |
| Pod runtime, agent (`pod.rs`, `replica_agent.rs`) | tracked operation, correlated action ledger, add/remove coordinator | admit, execute, replay, cancel, cleanup | an action id has one effect; a coordinator restarts without repeating or skipping a step |
| Operator operations (`durable/*.rs`) | persisted phase, pending action, snapshots | decide, dispatch, observe, commit | a crash between any two steps neither loses nor repeats an effect; at most one primary |
| Reconciler (`reconciler.rs`, `driver.rs`) | cached driver, status whose write failed | choose and start the next operation, create and delete pods | decides from the persisted topology and healthy answers; converges or refuses for a known reason |
| Durable execution (`durable-execution`) | checkpoint with revision, schedule, exposed effect | evaluate, expose, complete, terminate | compare-and-swap history; an effect is exposed only after its checkpoint; the capacity for its result is reserved |

Concurrency is inside a pod (actor, ACK readers, scheduler and drain task share
a mutex or channels), between pods (streams, ACKs, copy), and between the
operator and the pods (commands retried after restarts). Failures are pod
crashes, lost streams, isolated primaries, timeouts and operator restarts.

## Modules

`QuorumOps` holds the methods of `QuorumTracker` as operators on a tracker
record; each takes the tracker and returns the tracker after the call. A
deadline is the time left (`ttl`), a reply channel is the number of the call
that waits on it, and a reply is a record in `answers`.

`QuorumTracker` is one replica's actor around the tracker. Its actions are the
control events of `WalReplicatorActor::run`, the data path, one acknowledgement
at an ACK reader, a stream that breaks, the three exits of the expiration
scheduler's loop, and the clock. The tracker is behind one mutex, so each call
is one step and the callers interleave freely. Secondaries and the operator are
the environment: ACKs come in any order, because a secondary acknowledges every
item from a task of its own; the operator installs any majority configuration
that contains this replica. Two simplifications: where the actor locks the
tracker twice in a handler (register, then read the committed LSN) both locks
are one step, which only makes the LSN it reads smaller than it may be; and
connecting to a new member is one step with the rest of
`UpdateCatchUpConfiguration`, although ACK readers of other connections may run
while the handler waits. Open and the first change to a secondary role are one
step.

`Replication` is a partition: all actors (with the trackers of `QuorumOps`),
the streams, the receivers, the key-value store's durable state, and the
commands of failover and replica build in the order `durable/failover.rs` and
the add coordinator give them. An item is its LSN and the primary that assigned
it, so two primaries that use one LSN differ. There is no clock: `Expire`
passes the quorum timeout for everything one tracker holds. The election is
what `failover_election.rs` comes to when every member answers, is healthy and
has the expected epoch: progress is recorded one member at a time while the
others, and an isolated primary, go on; then a read quorum, and the largest
recorded progress. A crash loses any tail of what the primary had sent. Waiting decisions and data-loss negotiation are left out, as is
the refusal of a catch-up configuration whose new member cannot be reached.

`FailoverElection` is `failover_election.rs` as operators: the reasons that
exclude an observation and which of them may go away, the read quorums of the
current and the previous configuration, the ranking, the members that might be
better, the decision, and the target. `Outranks` is one comparison for
`compare_candidates` and `compare_last_known`.

`Failover` is one durable failover. `op` is the operation in the status of the
custom resource; every action of `Reconcile` is one pass through
`reconcile_failover_operation` and persists at most one change. Because the
operator keeps nothing between two passes, its restart is no action. The status
is written with a compare-and-swap on the resource version, so a pass that read
an older operation changes nothing, and probe, decision and write are one step.
A pending action goes through intent, authorisation, fences and dispatch, each
persisted; a dispatched request stays in `net` and may be delivered at any
later time, or never. `AdmitAction`, `CompleteAction` and `FailAction` are the
agent: `accept_correlated` with its checks in order, and the completion of the
runtime effect. Pods are unreachable, replaced (new instance id) or restarted
(new agent generation); all three may happen in every phase, up to `MaxFaults`
times. Data is abstracted: a replica's log is its LSN; an action id is the
record of what `make_pending` formats; signatures always agree, because the id
and the payload are built from the same operation. Simplifications: `up` stands
for both the connection and the status call; an action that fails leaves the
runtime as it was, although `handle_change_role` may fail half-way; the agent
keeps every terminal action, not the last 16 (a failover sends fewer to one
replica at these sizes); replicas start with their log complete
(`first_retained_lsn` 0) and without a previous configuration, which a failover
never records; the failed primary has stopped. A process has no election
configuration after it was opened (`pod.rs:792`); an earlier failover or the
refresh of the stable metadata may have recorded the current one. `Unrecorded`
names the replicas that may start without it, in every combination; for the
theorems it may be all of them. A data-loss callback may leave any LSN.
A rejected dispatch clears the fences, which the next pass plans again; that is
`PlanDispatch`.

`ReplicaControl` is a replica as the operator sees it: a record with the pod's
UID, the agent's generation and control version, the action that runs, the
terminal records, and the runtime's role, epoch, configuration and write
status. `CanAdmit` is `accept_correlated`; the effects are what `pod.rs` does,
with the states a role change leaves when it fails half way. The operations
below share it. (`Failover` is older and has its own, equal, admission.)

`Switchover` is `durable/switchover.rs` with `reconcile_switchover_operation`:
revoke writes, capture the frozen LSN, wait for the target, demote, distribute
the epoch, promote, configure, label, publish, and the compensation. As in
`Failover` a reconcile persists one step or dispatches one action and a request
stays in `net` until an agent takes or refuses it. Clients write meanwhile:
`SubmitWrite` is the fast path of `replicate()` and `TakeWrite` the actor, two
steps. Replication is one LSN per replica. An LSN stands for one write until a
primary assigns it again, which happens after a write was taken behind the
revocation and stayed on the old primary. The runs therefore have one
switchover, and the theorem about several excludes such writes by a hypothesis.

`CreatePartition` is `durable/create_partition.rs`: fence routing, open and
promote the first replica, then add the others one by one, each with a commit,
a compensation of its own and at most `MaxAttempts` starts of the whole
operation. The committed snapshot is a prefix of the members, so its length
stands for it. The id of an action is made of the attempt, the phase and the
index of the member; the index is 0 in every compensation, so the compensations
of two candidates have the same ids. The agent and the operator's observation
tell them apart by the signature of the input (`Conflict`): the agent refuses a
known id with another signature, and the observation is then `Impossible`.

Simplifications in these operations. `Residues` has what a role change and an
open leave behind; it has neither a `send_control` that is given up and runs
later (`pod.rs:804`; `RemoveReplica` has that for its own calls, in
`run.queue`) nor the tracker that a failed `UpdateCatchUpConfiguration` leaves
changed (`actor.rs:237`; `AddReplica` has it, in `run.tracker`). `PeerReply`
leaves out the pinned sender (`replica_agent.rs:1139`) and the older epoch
(`:1165`): one primary sends all stages, in one epoch. `InstallCatchUp` always
installs, while the coordinator skips the call when the configuration is already
reported (`replica_agent.rs:3749`). `FinishWait` asks for a target that runs and
has its copy; the tracker may also be satisfied by the copy's LSN, with which it
is seeded.

`ReplicaPeer` is the lifecycle peer protocol: the stages (prepare, activate,
clean up, retire) a target's agent admits, authorizes with a fresh look at the
primary before each step, runs and records.

`AddReplica` and `RemoveReplica` compose four parties: the operator's persisted
phases (`durable/add_replica.rs`, `durable/remove_replica.rs`), the coordinator
on the primary (`replica_agent.rs`), the runtime below it, and the target
(`ReplicaPeer`). The operator freezes an intent with deadlines, hands it over
and then only watches; operator, coordinator and target decide for themselves
when a deadline has passed. Two pieces of state carry the properties: the
configuration the primary *reports* (`rep[Primary].cfg`) and the one its quorum
tracker *uses* (`run.tracker`). They differ when `UpdateCatchUpConfiguration`
fails half way, and, in a removal, when a runtime call was given up and is
still queued (`run.queue`). `Others` are members that only have to answer.
A coordinator of a removal may also end with an error and the record `Failed`:
when the dispatched configuration does not show, when the gate behind a
cancelled wait finds the compensation expired (`WaitCancelled`), and, after the
commit, when a gate of the retirement loop rather than the loop's own check
finds the retirement expired (`Retire`). The progress it published stays, and
the operator decides by that.

`SetReconciler` is `reconcile_set` of a created partition. The operations are
one step each here, which publishes one of the outcomes their own modules
reach; what is detailed is the order of the checks in the Healthy phase, what
refuses an operation, the cached driver, the status write retried from memory,
and pods, processes and the user's edits changing between reconciles.

`DurableExecution` is the contract of the durable execution kernel for one
execution: begin, expose, record, finish, in order, and a permit only from the
write that exposes. `DurableHost` is the kernel: a load followed by replay and
a proposal, which are pure, then the compare-and-swap, whose reply may be lost
while the request is applied, dropped or delayed. Hosts crash and come back
with a new epoch, maybe another build of the workflow and other limits. Sizes
are small numbers. `ImplementsContract` is the refinement: the counters of the
contract are counted in the checkpoint's history.

The `MC` modules give the constants for TLC: `MCQuorumTracker` and
`MCReplication` add symmetry sets, `MCFailover` and `MCSwitchover` the replica
ids (naturals, without symmetry: ids break ties), `MCDurableHost` two builds of
a workflow that disagree about the second activity, with their limits.
The theorems are in `QuorumOpsProofs` and `QuorumTrackerProofs`, in
`FailoverProofs`, `SwitchoverProofs`, `CreatePartitionProofs`,
`AddReplicaProofs` and `RemoveReplicaProofs`, and in `DurableHostProofs`.

## Runs

| Run | Checks | Instance |
|---|---|---|
| `quorum` | `TypeOK`, `EveryCallAccounted`, `ProgressOrdered`, `OkHasBothQuorums`, `DeadlineIsFinal`, `CatchUpNeverMasksExpiry`, `EveryCallAnswered` | 2 replicas, 1 LSN, 2 calls, 2 reconfigurations, 2 role changes, received items or data losses |
| `repl_failover` | `Consistent` (`TypeOK`, `CommittedIsCommitted`), `OkIsDurable`, `CandidateHasReceivedAll` | 2 members and one replica to build, 2 LSNs, 1 failover, crash or isolation |
| `repl_build` | `OnlySnapshotLagIsLost` | 2 members and one replica to build, 3 LSNs |
| `failover_faults` | `CandidateHasAcked`, `AtMostOnePromotion`, `EffectOnce` | 4 replicas, all with the election configuration, LSNs 0 and 1, 1 fault, no deadlines |
| `failover_liveness` | `Consistent` (`TypeOK`, `WaitHasProbe`), `NoRestartNoDataLoss`, `PublishedIsRunning`, `FailoverSettles` | 3 replicas, one that may start without the election configuration, no writes, 2 faults, deadlines pass at any time |
| `durable_host` | `Consistent` (`TypeOK`, `ExposedResultFits`), `PermitIsUniqueAndDurable`, `HistoryIsAppendOnly`, `ImplementsContract` | 2 hosts (symmetric), 2 builds, 1 crash, 1 lost reply |
| `switchover` | `Consistent` (`TypeOK`, `PublishedIsRunning`), `AtMostOneWriter`, `GrantedWritesSurvive` | 3 replicas, 1 write, 1 switchover, 1 fault, 1 missed deadline; every action may fail half way |
| `switchover_frozen` | `AcknowledgedWritesSurvive` (violated) | 3 replicas, 1 write, no fault |
| `create` | `Consistent` (`TypeOK`, `CommittedIsConfigured`, `ConfiguredHasCopy`, `RoutedIsCommitted`), `CommittedUntouched`, `PublishedIsRunning`, `CreationSettles` | 3 replicas, 1 fault, 2 troubles (fault, failed action, missed deadline), 2 attempts |
| `add` | `Consistent` (`TypeOK`, `LabelledIsCommitted`, `PublishedIsTracked`), `CommitStands`, `CommittedTargetServes`, `AddSettles` | primary, target and one more member, 2 attempts, 2 troubles |
| `remove` | `Consistent` (`TypeOK`, `ReportFits`, `PublishedIsClean`), `CommitStands`, `RetiredIsNotCounted`, `RemoveSettles` | primary, target and one more member, 2 attempts, 2 troubles |
| `set_reconciler` | `Consistent` (`TypeOK`, `DriverIsCurrent`, `DriverIsPublished`), `SwitchoverFromHealth`, `Converges` | 3 replica ids, 2 faults, 1 edit, 1 failed call that leaves something behind |

`Consistent` conjoins a module's type invariant with the invariants named in
parentheses; TLC checks all of them.

`CandidateHasAcked` is the reason for the election's waiting decisions: a
silent replica may have an acknowledged write the others lack, and the snapshot
may know an older state of it. `NoRestartNoDataLoss` says that neither silence
nor time is taken for loss: when data loss is decided, a process was lost or a
member has answered without the starting configuration. `EffectOnce` and `AtMostOnePromotion`
are about requests that are resent or arrive after the operation was poisoned,
`PublishedIsRunning` about snapshots published after replacements.

`AtMostOneWriter` is what a switchover must not lose although its compensation
promotes the old primary while the target's promotion may still be under way;
the *roles* are weaker (see below). `GrantedWritesSurvive` is what the frozen
LSN does guarantee, here over one switchover. `CommitStands` of `AddReplica` is limited to the intent the
operator holds, that of `RemoveReplica` is not limited. `Converges` names the
six situations in which the reconciler rests without having reached what was
asked for, and says that there is no other and no cycle.

**Bounds.** Two LSNs are enough for an operation to overtake another, to commit
out of order and to leave a hole; three replicas for a quorum that is neither
one nor all; three LSNs in the build for one below the boundary, one in the
queue and one live. In `quorum` two replicas, one write and one wait are
enough for the liveness property, the only one that is not proved: the
configurations range over all sets with this replica, so that the two in force
differ, and two reconfigurations repeat an attempt; the theorems cover the other
six for every size. For the failover one LSN tells a replica that has the
last acknowledged write from one that has not. With three replicas both
survivors make the read quorum, so silence blocks the election; with four two
of three do, and a candidate is chosen without the third. There everybody starts
with the election configuration; the three properties of that run are proved
for every `Unrecorded`. Two faults let a
member be silent while another is replaced. A timeout of one step makes every
deadline pass at any point of a behaviour. One write in a switchover is enough
to be before or after the frozen LSN. Two attempts of an operation are enough
for what is left of one to meet the other, two troubles for a fault during a
compensation. In `durable_host` one lost reply is enough for a late request,
one crash for a host with another build; hosts differ only by name and the
properties of the run are safety properties, so symmetry is sound.

Deadlock is not checked: all bounds are budgets, and a behaviour may use them
up; a partition without traffic may also stop, and a completed or poisoned
operation does.

**Fairness.** `QuorumTracker`: the clock advances and the tokio runtime polls
the scheduler task; nothing is assumed of secondaries, operator or callers.
`Failover`: the controller requeues after every pass, so `Reconcile` is taken
again; an agent takes up requests and its runtime ends every effect (each has a
reply timeout); an unreachable replica is reachable in the end. Deadlines may
pass and need not. `CreatePartition`, `AddReplica`, `RemoveReplica`: the same,
and deadlines do pass; the coordinator, the runtime and the target's agent are
tasks of a running process, and a replica that fell silent need not come back.
For these three one weak fairness of all these steps together is enough: it
only says that the system does not stop while one of them is possible.
`SetReconciler`: reconciles are repeated, started operations end, the failover
delay elapses, pods that were created become ready. `DurableHost` and `Switchover` are checked for
safety only: nothing in the kernel drives a turn, and a switchover waits for a
silent member without a deadline in its configuration phases.

### Disagreements with the documentation

`switchover_frozen` is kept as a run: "The replicator also checks internally
(authoritative gate)" (`handles.rs`) and "Client successful write X is
persisted" (`Internals.md`). The actor checks only the role. A write that
passed the fast path before the revocation gets its LSN after the frozen LSN
was captured, a quorum without the target commits it, it is answered Ok, and
the new primary does not have it.

### Known counterexamples

Each of these definitions states what a document, a comment or a test says. TLC
refutes it in seconds to minutes; to see the behaviour, give TLC a configuration
with the property, the named constants and `CHECK_DEADLOCK FALSE`.

| Property (module) | Instance | What happens |
|---|---|---|
| `CommittedSurvives` (`Replication`) | `ReplFailover.cfg` with `MaxLsn = 1`, `Isolation = FALSE` | "Client successful write X is persisted". Progress counts received items: a secondary elected with an acknowledged write still in its inbox is promoted, its drain task is cancelled, the write is gone. |
| `CandidateHasReceivedLate` (`Replication`) | `ReplFailover.cfg` | "Client successful write X is persisted". Collecting progress fences nobody: a primary that only the operator cannot reach commits one more write with a secondary whose progress is already on record, and the other one is promoted. (`Failover` takes the failed primary to have stopped.) |
| `GrownHasReceivedAll` (`Replication`) | 2 replicas, `Founders = {r1}`, `MaxLsn = 1`, `MaxFailovers = 1` | The same. A write that a sole primary answers during a build lies below the baseline of the catch-up wait (`quorum.rs:415`), which returns at once; the target, already a member, has not received it when the primary fails, and its one answer is a read quorum. |
| `MembersHoldCommitted` (`Replication`) | 2 replicas, `Founders = {r1}`, `MaxLsn = 1`, `MaxFailovers = 0` | "the state provider snapshot is authoritative through up_to_lsn". A write is committed before the primary's store applies it, so the snapshot may lack it. |
| `StaleItemsRejected` (`Replication`) | `ReplFailover.cfg` with `MaxLsn = 1` | "Secondaries reject operations with `epoch < current_epoch`". Nothing outside the tests advances the epoch the receiver compares with. |
| `DataLossOnlyWithoutQuorum` (`Failover`) | 3 replicas, `Unrecorded = {2}`, `MaxLsn = 0`, `MaxFaults = 1`, `MayBeLate = FALSE` | "Data loss begins only when an applicable read quorum is conclusively unavailable". A replica that could not be reached while the starting configuration was recorded answers without it and is excluded for good; nobody has restarted. |
| `RollsForward` (`Failover`) | 4 replicas, `Unrecorded = {}`, `MaxLsn = 0`, `MaxFaults = 1` | "rolls forward after post-commit secondary replacement". During the distribution of the epoch the jump to the catch-up configuration leaves other secondaries in the old epoch, and the attestation poisons the operation. |
| `ReservationHoldsForLaterHosts` (`DurableHost`) | `DurableHost.cfg` | A later host may use any limit not smaller than the admitted one; the reservation was made under the limit of the host that exposed, so a smaller one refuses a permitted result. |
| `PoisonedOnlyAfterTrouble` (`Switchover`) | `MaxLsn = 0`, `MaxSwitchovers = 2`, no fault, no missed deadline | Switching back to a former primary is poisoned: a demoted primary keeps its `Current` configuration (`pod.rs:791` is the only place that clears it), which the catch-up phase of the next tenure does not accept. |
| `FailedIsRestored` (`Switchover`) | `MaxLsn = 0`, `MaxSwitchovers = 3`, `MaxFaults = 0` | "A resumed reconcile observes first: a matching postcondition advances". Operation and action ids are made of the starting epoch and the target (`durable/switchover.rs:68`, `:1074`) and have no attempt number. A switchover repeated after two that failed finds the restore of the earlier attempt on record, takes it for its own, and ends `Failed` while the primary still refuses writes. |
| `CommitNotUndone` (`AddReplica`) | `AddReplica.cfg`, `Spec` | "After commit, rollback is forbidden". With the primary unreachable, `safely_uncommitted` (`durable/add_replica.rs:233`) looks at the target only; a target that restarted after an earlier intent had committed looks untouched. |
| `CompensationRestores` (`AddReplica`) | `MaxAttempts = 1`, `MaxTrouble = 1`, `Spec` | "failure restores previous configuration when needed". `actor.rs` sets the tracker before it connects; when connecting fails the reported configuration is still the previous one and `replica_agent.rs:4144` skips the restore. |
| `FailedPreCommitIsKnown` (`RemoveReplica`) | `RemoveReplica.cfg`, `Spec` | The operator calls the failure pre-commit by a dispatch mark it recorded before the coordinator dispatched (`durable/remove_replica.rs:1485`). |
| `CompensatedIsPrevious` (`RemoveReplica`) | `RemoveReplica.cfg`, `Spec` | "exact previous Current completes compensation". The coordinator gives up a call after its timeout (`replica_agent.rs:3439`), the call stays queued and runs after the compensation was reported. |
| `DriverNeverStale` (`SetReconciler`) | `Spec`, `MaxEdits = 0`, `MaxErrors = 2` | "Rebuild process-local driver state before making any Healthy health or topology decision". The driver is only rebuilt when there is none. A lost reply at the start of an operation skips the drop there (`reconciler.rs:745`); a failed write at its end, or after a failover a member that does not answer when the driver is rebuilt (`reconciler.rs:2578`), skips the other. After a failover every reconcile then finds the old driver's primary in another epoch and `start_failover` refuses, until the operator restarts; `SwitchoverFromHealth` and `Converges` are therefore checked with one failed call. `DriverIsPublished` holds with two as well. |
| `UnreachableIsRemoved` (`SetReconciler`) | `FairSpec`, `MaxEdits = 0`, `MaxErrors = 0` | "An unreachable old incarnation with no ready replacement is force-removed". The health check skips a secondary that does not answer (`reconciler.rs:1023`), and without a cached driver `PartitionDriver::recover` fails on it in every reconcile. |

Met while modelling, without a property of their own:

- `wait_for_catch_up` promises that a must-catch-up replica has acknowledged
  *all* operations; it compares the largest acknowledged LSN, and
  acknowledgements may overtake each other.
- A write that a replica rolls back on `UpdateEpoch`, because its committed LSN
  lags, is not "re-replicated during catch-up from the new primary": the new
  primary rolls back by the same rule and its queue is empty. For the same
  reason the catch-up wait of a failover returns at once, also when a member
  never received a committed write.
- A built replica may report a committed LSN beyond its progress: the replay of
  the queue announces the primary's committed LSN with every item
  (`actor.rs:318`), also with items below it. If the primary fails before the
  rest arrives, the election excludes the replica for good
  (`InvalidProgressRange`). `Replication` models both. A copy may also give the
  target a progress beyond an item that the store had not applied yet
  (`HiddenByCopies`).
- An ACK reader that ends on a stream error leaves its connection in the map
  (`primary.rs:175`), so that `UpdateCatchUpConfiguration` does not reconnect
  until a send fails; no operation promises more. The copy stream of a process
  can be taken once (`secondary.rs:286`); `AddReplica` allows a second copy.
- A poisoned failover is still looked at for replaced members, and a
  replacement before the confirmation revives it.
- Switchover: a retried switchover uses the action ids of the first; a
  `RevokeWrite` that arrives after the operation failed leaves the primary
  revoked; a promotion that fails late may leave two replicas with the role
  Primary in one epoch, only one of which takes writes.
- Creation: it waits without a deadline for pods that nothing creates while it
  is active (`create_partition.rs:215`, `1262`); a restart waits for a committed
  member's replaced pod; a committed member that is unreachable for a moment
  poisons the operation at once.
- Addition and removal: several waits end only when the primary has a pod or
  answers (`AddSettles` and `RemoveSettles` name them); a transient error of a
  retirement is taken as terminal (`remove_replica.rs:1493`).
- Reconciler: a set of two that lost its secondary is stuck, because the removal
  is refused before the pod is recreated; a scale-down from two to one is always
  refused; an extra pod makes every reconcile fail the identity check.

`OnlySnapshotLagIsLost` and `CandidateHasReceivedAll` say what does hold in
their place: but for the snapshot's lag a build loses nothing, and the replica
elected by the first failover of two or more members has received every write
acknowledged before the failover began, but for what a copy hid.

## Proofs

The theorems hold for every value of the constants that satisfies the named
assumptions: every finite set of replicas, hosts and builds, every workflow and
limit, every bound on faults, LSNs and calls.

| Theorem | Module | Property |
|---|---|---|
| `TypeCorrect`, `CallsAccounted`, `CountersOrdered` | `QuorumTrackerProofs` | `TypeOK`, `EveryCallAccounted`, `ProgressOrdered` |
| `DeadlinesFinal` | `QuorumTrackerProofs` | `DeadlineIsFinal` |
| `OkNeedsBothQuorums` | `QuorumTrackerProofs` | `OkHasBothQuorums` |
| `CatchUpIsHonest` | `QuorumTrackerProofs` | `CatchUpNeverMasksExpiry` |
| `ActionsRunOnce`, `OnePromotion` | `FailoverProofs` | `EffectOnce`, `AtMostOnePromotion` |
| `ElectedHasAcked`, `LivingLoseNothing` | `FailoverProofs` | `CandidateHasAcked`, `NoRestartNoDataLoss` |
| `OneWriter`, `GrantedWritesLast` | `SwitchoverProofs` | `AtMostOneWriter`, `GrantedWritesSurvive` |
| `TheCommittedStay`, `ThePublishedRuns` | `CreatePartitionProofs` | `CommittedUntouched`, `PublishedIsRunning` of `CreatePartition` |
| `ConfigurationsCopiesAndRouting` | `CreatePartitionProofs` | `Consistent` of `CreatePartition` |
| `TheCommitStands`, `TheCommittedTargetServes` | `AddReplicaProofs` | `CommitStands`, `CommittedTargetServes` of `AddReplica` |
| `LabelsAndQuorumsAgree` | `AddReplicaProofs` | `Consistent` of `AddReplica` |
| `CommitIsFinal`, `RetiredIsNeverCounted` | `RemoveReplicaProofs` | `CommitStands`, `RetiredIsNotCounted` of `RemoveReplica` |
| `ReportsAndPublication` | `RemoveReplicaProofs` | `Consistent` of `RemoveReplica` |
| `TypeCorrect`, `PermitsAreUniqueAndDurable`, `HistoryGrows` | `DurableHostProofs` | `TypeOK`, `PermitIsUniqueAndDurable`, `HistoryIsAppendOnly` |
| `Refinement` | `DurableHostProofs` | `ImplementsContract` |
| `ReservationIsKept` | `DurableHostProofs` | `Consistent` of `DurableHost` |

### The quorum tracker

`QuorumOpsProofs` proves one lemma per operator: it keeps a tracker *sound*
for a set of calls (typed; every call pending, waiting or answered exactly
once; counters ordered) and, where it matters, that it only *settles* what the
tracker held: it answers or keeps, never adds. `QuorumTrackerProofs` lifts them
to the actor. The inductive invariant `IInv` adds to the tracker's soundness
what the actor guarantees around it: the next LSN is above `highest`, so
`register` never replaces a pending operation; a primary's progress equals
`highest`; nothing owed by a secondary or kept in the queue lies beyond
`highest`; and a replica that is not primary has nothing in flight, so that a
data loss, which lowers `highest`, cannot be followed by an acknowledgement of
the discarded history. None of this follows from the properties themselves.
`DeadlinesFinal` rests on `expire_due` being the first call of every tracker
method that can commit except `register`, which only commits its own, new
operation. It speaks of operations: a catch-up waiter past its deadline can
still be answered Ok by a `register` that commits at once, because `register`
does not expire first.

`OkNeedsBothQuorums` needs a second inductive invariant, `AckInv`, beside
`IInv`: the acknowledgements an operation counts are in the log of those the ACK
readers delivered (`Logged`), and a replica that is not primary has no pending
operation, so that a data loss cannot let an old acknowledgement count for a new
operation with the same LSN. For every tracker operator one lemma shows that
each Ok it sends is *backed* by both quorums of its configurations, or that it
sends none; the actions combine them. The property speaks of the log and not of
the tracker's own counts, so that it does not follow from the guard of
`commit_ready_ops` alone.

`CatchUpIsHonest` adds `MaskInv`: an attempt to catch up that is not marked as
failed has seen no operation refused since it began, and no pending operation
has LSN 0, so the mark of an expired operation is never below the attempt's
target. Most calls of the tracker are *calm* (they answer no waiter and refuse
nothing) or *honest* (a waiter they answer Ok belongs to an attempt that is not
marked). What makes `set_current_configuration` safe, which clears the mark, is
that `expire_due` runs first and leaves no waiter of a failed attempt behind.

### The failover

`ActionsRunOnce`: what ran in a process is on that process's record, and stays
there as long as the process lives; an action that runs is not on record yet.
The agent's record, not the fences, is what prevents a second effect; the fences
keep a request away from the next process, which has no record. `OnePromotion`
adds that a promotion, pending, in flight or under way, is one of the elected
candidate in its epoch (`RequestInv`), that the epoch and the candidate are
final once the phases before the promotion are left (`Elected`), and that the
operator never returns to them, even when it is poisoned with the request still
in flight.

`ElectedHasAcked` is the argument for the election. Until a candidate is
confirmed there is one history `h`, the progress of every replica at the moment
the primary failed (`Histories`: a majority had what was acknowledged), such
that every process that still has a role, and every observation the operator has
persisted, shows the progress of `h` (`PristineOp`, `PristineRep`): nothing but
the recording of the starting configuration runs before the election, and a
process that was restarted has no role and is not accepted. Then a read quorum
of accepted observations intersects the majority in a member that had the
acknowledged writes, and `SelectCandidate` ranks nobody below it; with too few
observations `Evaluate` waits, unless it declares data loss, which the property
excludes. `LivingLoseNothing` shows that the exclusion is not empty talk: while
every process lives each one answers with the identity and the role the election
expects (`UntouchedOp`, `UntouchedRep`). If all who answered also have the
starting configuration, no member is settled against, the outstanding ones keep
the quorum within reach (`CanStillBeSatisfied`), and data loss is not decided.
A member that answers without it (`Mismatched`) is the one way to data loss
among the living, and a real one: `DataLossOnlyWithoutQuorum` above.

### The switchover

`OneWriter`: a replica *may come to grant writes* (`MayGrant`) if it grants them
now, if it runs the installation of a configuration, or if a request for one is
in flight that its agent would still admit; the invariant `HolderInv` says that
at most one replica may, and which one the phase of the operation says it is.
No step of an agent enlarges that set. The operator does when it dispatches a
configuration, and only to the old primary before it is demoted and in the
compensation, or to the target after its promotion. What carries the argument
from one to the other is the demotion: the operator leaves that phase when the
record of the old primary says it completed, and the process then has an epoch
above the one every earlier request was fenced with (`RequestInv`, `ProcessInv`), so
no late configuration is admitted. Action ids are reused by a later attempt that
starts from the same epoch; that a record of a demotion implies the higher epoch
is therefore part of the invariant and does not follow from the id. `Top` bounds
the epochs of primaries, which makes a promotion of the target exclude a late
promotion of the old primary.

`GrantedWritesLast` has a hypothesis, that the actor takes no write after the
access was revoked (`TakenWhileGranted`), which the code does not ensure; without
it an LSN may be assigned twice and comparing LSNs says nothing about writes
after a second switchover. Under it nobody is ahead of the last granted write
(`OneHistory`), so whoever takes the next one assigns an LSN that nobody holds
(`LsnIsFresh`), and `GrantedWritesSurvive` is about the writes themselves for any
number of switchovers. The argument is about who *may lead* (`MayLead`): a replica that is a
primary, runs a promotion, or has one in flight that its agent would still admit.
The invariant `SurviveInv` says that all of them hold what was taken while writes
were granted (`LsnInv`), and the operator never opens the way to a promotion
while somebody takes writes. `QuietInv`: from the capture of the frozen LSN on
nobody does, until a configuration is installed; the target has to reach the
frozen LSN before the old primary is demoted. `LeadInv` says who may lead in which
phase. In a compensation the target may still be promoted late, and the old
primary must not take writes before that is excluded: the compensation installs
no configuration until the target's record, or its own report, shows it a
secondary of the new epoch. `ApartInv` keeps the two apart: whoever may come to
grant writes is the only one that may lead. Because ids repeat, a record found in a ledger says little
about the attempt at hand; `GrantInv` and `ModeInv` say when a configuration was
installed by the action at hand and not by an earlier one, and `RecordInv` what a
record of a promotion still implies. The code distributes the epoch over a list
sorted by id; the model names a member by its `Place`, the number of smaller ids,
so that "already passed" is a comparison of numbers.

Repeated ids also weaken `PublishedIsRunning`: after two attempts from one
snapshot have revoked writes (`RevokedTwice`) a further one may conclude from
their records, and the property does not speak of it. One switchover, as in the
run, never gets there. Beside the runs TLC checked the three properties with two
switchovers (7.4 million states with one fault and one missed deadline, 8.5
million with two writes and no fault) and, without writes, with three.

### The creation of a partition

The argument follows what is *due* at a replica (`Due`): the action it runs and
the requests its agent may still admit. Agents and faults only take from it, an
admission leaves nothing but the admitted action (its state version is above the
one every other request was fenced with), and only a dispatch adds to it. `IInv`
says, per replica that no fault has befallen, where it stands: the creation has
not come to it, or has undone what it did, and then nothing is due there
(`Clean`); it is the candidate, and either has taken the step of the phase with
nothing due, or has not and nothing but the pending action is due (`Progress`);
it is committed, in its role, and all that may be due are actions of the primary
which change no role (`Settled`). `TheCommittedStay` follows.

The primary's configuration needs more, because the operator gives up waiting
for an installation and goes on to compensate with the request still due.
`ConfigInv` says that every configuration due names the committed members and at
most the candidate, and, phase by phase, what an installation of the current
configuration leaves due. `Installing`: forward, only the pending action installs
one, so once it is seen nothing else is due and the commit is safe. `Restoring`:
the candidate's configuration may still be due beside the restored one; when the
latter is admitted the former is not admissible any more. `Stuck`: a compensation
that went on because of the record of the restoration, while the primary shows
another configuration, takes no further step: `validate_committed_observations`
poisons it.
`LabelInv` adds the labels up to the fencing's index. With both
`ThePublishedRuns` follows.

`ConfigurationsCopiesAndRouting` adds the copies (`CopyInv`). The record of a
build at the primary implies that the incarnation it names has the copy; no
configuration installed or due names an incarnation without it; and the admission
of a removal ends the configurations that name the candidate (`Uncounted`), which
is why the deletion of its pod, and a new pod under the same replica id, are
safe. A record counts for one incarnation because the incarnations are in the id,
and for one member because the input is (`Of`): without the signature the removal
of one candidate would pass for that of the next.

### The addition

A second attempt meets what the first one left: late requests, a target pod that
already has a role, a coordinator that has not ended. The invariant therefore
speaks of a function `g`, hidden by a quantifier in `IInv`, from the attempts
that froze an intent to the generation of the target each of them froze.
`FreezeIntent` extends it; a later attempt has a later generation, so a step of
one attempt never runs on the target of another (`GensInv`), and the agents'
ledgers hold entries of frozen attempts only (`LedgerInv`). `AloneInv`: a process
of the primary other than the first has no part in the addition. `CoInv`: the
primary has a coordinator exactly while it holds an active intent, and one that
finds the requested configuration already current only looks. `ServeInv`: the
target process an attempt activated serves until that attempt cleans up, and an
attempt that cleans up has left the way to the commit and has a record with the
agent, so it is not admitted again. `OpInv`: the phases of the operator after the
coordinator presume the commit, or that the coordinator of the undone attempt has
ended. From these follow that a commit is not undone while the operator holds the
intent (`TheCommitStands`), that the committed target has the role and the
generation it was counted with (`TheCommittedTargetServes`), and that labels and
the published status name committed members only (`LabelsAndQuorumsAgree`).

### The removal

The three theorems rest on one invariant, whose parts say why a call that the
coordinator gave up cannot do harm when the runtime runs it later.
`RuntimeInv`: while the coordinator at hand has not recorded a dispatch of the
reduced configuration, no call for it is queued and none has run; once it has, it
is in one of the steps that make no call which would undo it (`Irreversible`),
and since the runtime takes calls in the order they were made, whatever could
undo it is in front of it in the queue. `AttemptInv`: an attempt that is over has
a record in the agent, so that a late intent for it is refused, and has not
dispatched; therefore the attempt that dispatched is the last one and the
operator, which has the agent's record and the progress before it leaves the
attempt, never declares it failed. `AloneInv`: a process of the primary other
than the first is no primary, has no coordinator and an empty queue, which is why the
properties speak of the process that received the intent (`SamePrimary`) and the
operation poisons itself when that one is gone. `CommitInv` orders what presumes
the commit: the peer step at hand is authorized, the role given up, the label
put, only after it. `ReportInv` is what makes `ReportsAndPublication` inductive:
a connection that the coordinator reported absent stays absent, because nothing
adds one during a removal, and the record that it leaves fits its progress
(`Fits`) also where a gate ends it, since a commit presumes the dispatch and a
compensation is on record before it starts; `CleanInv` keeps the same of what the operator
persisted, although it may conclude it from a primary that ended.

### The durable host

The lemmas of `DurableHostProofs` describe every checkpoint the kernel proposes
as a `Successor` of the one it has loaded: at most one recorded result, one
activity begun and one exposure, in this order, or the end of the execution. The
invariant says that each request in flight is stale or proposes a successor of
what is stored, and that what was permitted is exposed or completed there. The compare-and-swap then applies a request
to exactly the checkpoint it was computed from, or not at all, and a permit that
has been given makes every other request for the same place stale.
`Refinement` maps the checkpoint to the contract's counters and shows that the
initial state is one of the contract's and that every step is a step of the
contract or a stutter.

`ReservationIsKept` needs the size of a history, a sum over its records, after
its last record is replaced; the recursive function is handled by taking the
least place at which two sums could differ. The proof attempt corrected the
property: a result fits under every build that admits at least as many bytes
*and records* as the build that exposed. A build with the same bytes and fewer
records refuses it.

### Assumptions

`ReplicaAssumption`, `QuorumTimeoutAssumption`, `SelfAssumption`,
`BoundsAssumption`, `NoAlarmAssumption` (tracker); `ReplicaAssumption`,
`FailedAssumption`, `UnrecordedAssumption`, `FailoverBoundsAssumption`,
`UnknownAssumption` (failover:
ids are naturals, as in the code, the failed primary is a member, and an absent
`Option` is no value); `SwitchoverAssumption` (switchover); `AddAssumption` and
`RemoveAssumption` (addition and removal: the ids are distinct naturals and the
bounds are naturals); `CreateAssumption` (creation: at least one replica, and the
bounds are naturals); `ConstantsAreDistinct`, `SizesAreNatural`,
`FirstBuildIsABuild`, `BoundsAreNatural` and `WorkflowAsks` (durable host: what a
workflow returns within its own limits is an activity, an outcome or nothing).
TLC evaluates them in every run of those modules.

### Only model-checked

Liveness (`EveryCallAnswered`, `FailoverSettles`, `CreationSettles`,
`AddSettles`, `RemoveSettles`, `Converges`) is out of the prover's reach.
`Consistent` and `PublishedIsRunning` of `Failover`, `Consistent` of
`Switchover`, and everything about `Replication` and `SetReconciler` have no
proof.

## What is left

1. `PublishedIsRunning` of `Failover` and `Switchover`: the argument is one about
   records and roles, phase by phase, like that of `ThePublishedRuns`.
2. `Consistent` of `Replication`, whose invariant has to follow every item
   between the sender, the inbox and the store.

## Not modelled

- The operator's pilot workflows (`durable/pilot.rs`, `pilot_store.rs`): a
  feature-gated wrapper that runs the switchover's steps over the durable host.
  Both sides are modelled; their product is beyond TLC at sizes where either is
  interesting.
- In the reconciler, the refresh of the election metadata of a healthy
  partition and the attestation of a degraded addition; in the agent, the limit
  of 16 retained terminal actions, which no operation reaches at these sizes.
- WAL and snapshot files of the key-value store: a write is durable when the
  call returns.
- gRPC conversions and plumbing (no state of their own), CRD schemas and
  Kubernetes objects (data), the SQLite and PostgreSQL examples (they delegate
  to those systems).
