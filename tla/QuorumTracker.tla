---------------------------- MODULE QuorumTracker ----------------------------
(***************************************************************************)
(* One replica's replicator actor (kuberic-core/src/replicator/actor.rs)   *)
(* around its quorum tracker: the control handlers and the data path that  *)
(* call the tracker, the ACK readers of its connections (primary.rs), and  *)
(* the expiration scheduler task.  These tasks run concurrently and share  *)
(* the tracker behind one mutex, so every tracker call is atomic and the   *)
(* calls interleave.                                                       *)
(*                                                                         *)
(* The secondaries and the operator are the environment: a connected       *)
(* secondary may acknowledge what was sent to it in any order (it spawns a *)
(* task per item), its stream may break, and the operator may install any  *)
(* majority configuration that contains this replica.                      *)
(***************************************************************************)
EXTENDS QuorumOps

CONSTANTS Self,          \* the replica this actor runs on
          MaxLsn,        \* bound: highest LSN assigned or received
          MaxCalls,      \* bound: replicate and wait calls made
          MaxTenure,     \* bound: items received, role changes and data losses
          MaxReconfigs,  \* bound: configuration updates
          NoAlarm        \* the scheduler sleeps without a deadline

ASSUME SelfAssumption == Self \in Replica
ASSUME BoundsAssumption ==
    MaxLsn \in Nat /\ MaxCalls \in Nat /\ MaxTenure \in Nat /\ MaxReconfigs \in Nat
ASSUME NoAlarmAssumption == NoAlarm \notin Nat

VARIABLES
    t,            \* the tracker record of QuorumOps
    role,         \* "Unknown" until opened, "Primary", "Secondary" or "Closed"
    nextLsn,      \* next_lsn of the actor
    ps,           \* PartitionState: current_progress and committed_lsn
    queue,        \* LSNs the replication queue retains
    conns,        \* replicas in PrimarySender.connections
    live,         \* those of them whose stream still works
    owed,         \* <<replica, lsn>> sent on a live stream and not yet acknowledged
    calls,        \* number of calls made so far; calls are numbered 1..calls
    controls,     \* control operations so far, per bound
    sched,        \* expiration scheduler: "check" or "sleep"
    alarm,        \* time left on its sleep_until, or NoAlarm
    wakeup,       \* the stored permit of the Notify it sleeps on
    \* History, read by properties only:
    ackLog,       \* <<lsn, replica>> acknowledgements processed since the promotion
    settled       \* the answers that existed when the catch-up attempt began

actorVars == <<role, nextLsn, ps, queue>>
connVars  == <<conns, live, owed>>
schedVars == <<sched, alarm, wakeup>>
histVars  == <<ackLog, settled>>
vars == <<t, actorVars, connVars, calls, controls, schedVars, histVars>>

-----------------------------------------------------------------------------

Majority(S) == Cardinality(S) \div 2 + 1

\* Configurations the operator sends: this replica is always inserted.
Configurations ==
    {[members |-> S, quorum |-> Majority(S)] : S \in {S \in SUBSET Replica : Self \in S}}

\* The previous configuration the operator names: none, the one in force
\* here, or every replica when this primary was never configured.
PreviousConfigurations ==
    {NoConfiguration,
     IF t.cur # NoConfiguration THEN t.cur
     ELSE [members |-> Replica, quorum |-> Majority(Replica)]}

Init ==
    /\ t = NewTracker
    /\ role = "Unknown"
    /\ nextLsn = 1
    /\ ps = [progress |-> 0, committed |-> 0]
    /\ queue = {}
    /\ conns = {}
    /\ live = {}
    /\ owed = {}
    /\ calls = 0
    /\ controls = [tenure |-> 0, reconfigs |-> 0]
    /\ sched = "check"
    /\ alarm = NoAlarm
    /\ wakeup = FALSE
    /\ ackLog = {}
    /\ settled = {}

\* Bounds on the part of a behaviour that is not this actor's choice.
TenureStep ==
    /\ controls.tenure < MaxTenure
    /\ controls' = [controls EXCEPT !.tenure = @ + 1]

ReconfigStep ==
    /\ controls.reconfigs < MaxReconfigs
    /\ controls' = [controls EXCEPT !.reconfigs = @ + 1]

\* PartitionState::advance_committed_lsn with the tracker's committed LSN.
AdvanceCommitted(state, tracker) ==
    [state EXCEPT !.committed = Larger(@, CommittedLsn(tracker))]

-----------------------------------------------------------------------------
(* Control handlers.                                                       *)

\* Open, and the first ChangeRole to a secondary role.  An existing replica
\* resumes at the LSN its state provider reports; a new one starts at 0.
Open ==
    /\ role = "Unknown"
    /\ role' = "Secondary"
    /\ \E lsn \in 0..MaxLsn :
          /\ ps' = [progress |-> lsn, committed |-> lsn]
          /\ nextLsn' = Larger(nextLsn, lsn + 1)
    /\ UNCHANGED <<t, queue, connVars, calls, schedVars, histVars, controls>>

\* The replica receives an item from another primary (secondary.rs).
ReceiveItem ==
    /\ role = "Secondary"
    /\ TenureStep
    /\ \E lsn \in 1..MaxLsn, committed \in 0..MaxLsn :
          /\ committed <= lsn
          /\ lsn > ps.progress \/ committed > ps.committed
          /\ ps' = [progress  |-> Larger(ps.progress, lsn),
                    committed |-> Larger(ps.committed, committed)]
    /\ UNCHANGED <<t, role, nextLsn, queue, connVars, calls, schedVars, histVars>>

\* ChangeRole to Primary.
Promote ==
    /\ role = "Secondary"
    /\ TenureStep
    /\ role' = "Primary"
    /\ t' = SeedProgress(t, ps.progress, ps.committed)
    /\ nextLsn' = Larger(nextLsn, ps.progress + 1)
    /\ ackLog' = {}
    /\ UNCHANGED <<ps, queue, connVars, calls, schedVars, settled>>

\* ChangeRole away from Primary.  A one-member partition has nobody to take
\* over, so the operator demotes only under a larger configuration.
Demote ==
    /\ role = "Primary"
    /\ TenureStep
    /\ Cardinality(t.cur.members) > 1
    /\ role' = "Secondary"
    /\ t' = FailAll(t, "NotPrimary")
    /\ queue' = {}
    /\ conns' = {}
    /\ live' = {}
    /\ owed' = {}
    /\ UNCHANGED <<nextLsn, ps, calls, schedVars, histVars>>

\* OnDataLoss on the failover candidate, before its promotion: the state
\* provider reports that it changed state and now ends at `lsn`.
OnDataLoss ==
    /\ role = "Secondary"
    /\ TenureStep
    /\ \E lsn \in 0..ps.progress :
          /\ ps' = [progress |-> lsn, committed |-> lsn]
          /\ t' = ResetProgressAfterDataLoss(t, lsn, lsn)
          /\ nextLsn' = lsn + 1
    /\ queue' = {}
    /\ UNCHANGED <<role, connVars, calls, schedVars, histVars>>

\* UpdateCatchUpConfiguration: the tracker is reconfigured first; then every
\* member without a connection is connected if that succeeds (`fresh`), and
\* the queue beyond its copy boundary is replayed to it.  The operator marks
\* at most the replica it builds as must_catch_up and reports the boundary
\* of its copy as that replica's progress.
UpdateCatchUpConfiguration ==
    /\ role = "Primary"
    /\ ReconfigStep
    /\ \E current \in Configurations, previous \in PreviousConfigurations :
       \E must \in {S \in SUBSET (current.members \ {Self}) : Cardinality(S) <= 1},
          fresh \in SUBSET (current.members \ (conns \cup {Self})),
          reported \in {0, ps.progress}, boundary \in 0..ps.committed :
          LET progress == [r \in Replica |-> IF r \in must THEN boundary
                                             ELSE IF r \in current.members THEN reported ELSE 0]
              next     == SetCatchUpConfiguration(t, current, previous, must, progress)
          IN  /\ t' = next
              /\ ps' = AdvanceCommitted(ps, next)
              /\ conns' = conns \cup fresh
              /\ live' = live \cup fresh
              /\ owed' = owed \cup (fresh \X {l \in queue : l > boundary})
              /\ settled' = IF t.active THEN settled ELSE next.answers
    /\ UNCHANGED <<role, nextLsn, queue, calls, schedVars, ackLog>>

\* UpdateCurrentConfiguration, including the queue's garbage collection.
UpdateCurrentConfiguration ==
    /\ role = "Primary"
    /\ ReconfigStep
    /\ \E current \in Configurations :
          /\ t' = SetCurrentConfiguration(t, current)
          /\ ps' = AdvanceCommitted(ps, t')
    /\ queue' = {l \in queue : l > ps'.committed}
    /\ UNCHANGED <<role, nextLsn, connVars, calls, schedVars, histVars>>

\* WaitForCatchUpQuorum, tracked or not.
WaitForCatchUpQuorum ==
    /\ role # "Closed"
    /\ calls < MaxCalls
    /\ calls' = calls + 1
    /\ \E id \in WaitId, mode \in Mode :
          t' = WaitForCatchUp(t, calls', id, mode)
    /\ wakeup' = TRUE
    /\ UNCHANGED <<actorVars, connVars, sched, alarm, histVars, controls>>

CancelCatchUpQuorumWait ==
    /\ role # "Closed"
    /\ \E w \in t.waiters : w.id = "tracked"
    /\ t' = CancelCatchUpWait(t, "tracked")
    /\ UNCHANGED <<actorVars, connVars, calls, schedVars, histVars, controls>>

\* RemoveReplica: the connection goes away with what was in flight on it.
RemoveReplica ==
    /\ role = "Primary"
    /\ \E r \in conns :
          /\ conns' = conns \ {r}
          /\ live' = live \ {r}
          /\ owed' = {m \in owed : m[1] # r}
    /\ UNCHANGED <<t, actorVars, calls, schedVars, histVars, controls>>

\* Close and Abort end the actor's loop and the scheduler.
Close ==
    /\ role # "Closed"
    /\ role' = "Closed"
    /\ t' = FailAll(t, "Closed")
    /\ queue' = {}
    /\ conns' = {}
    /\ live' = {}
    /\ owed' = {}
    /\ UNCHANGED <<nextLsn, ps, calls, schedVars, histVars, controls>>

-----------------------------------------------------------------------------
(* Data path.                                                              *)

\* A replicate request at the primary.  The item goes to every working
\* connection; one whose stream broke may be found out and dropped (`dead`).
Replicate ==
    /\ role = "Primary"
    /\ nextLsn <= MaxLsn
    /\ calls < MaxCalls
    /\ calls' = calls + 1
    /\ t' = Register(t, nextLsn, Self, calls')
    /\ nextLsn' = nextLsn + 1
    /\ queue' = queue \cup {nextLsn}
    /\ ps' = AdvanceCommitted([ps EXCEPT !.progress = nextLsn], t')
    /\ \E dead \in SUBSET (conns \ live) : conns' = conns \ dead
    /\ owed' = owed \cup (live \X {nextLsn})
    /\ ackLog' = ackLog \cup {<<nextLsn, Self>>}
    /\ wakeup' = TRUE
    /\ UNCHANGED <<role, live, sched, alarm, settled, controls>>

\* A replicate request that reaches an actor that is not primary.
RejectReplicate ==
    /\ role \notin {"Primary", "Closed"}
    /\ calls < MaxCalls
    /\ calls' = calls + 1
    /\ t' = [t EXCEPT !.answers = @ \cup {[call |-> calls', lsn |-> 0, result |-> "NotPrimary"]}]
    /\ UNCHANGED <<actorVars, connVars, schedVars, histVars, controls>>

\* An ACK reader hands one acknowledgement to the tracker.
ReceiveAck ==
    /\ role = "Primary"
    /\ \E m \in owed :
          /\ t' = Ack(t, m[2], m[1])
          /\ owed' = owed \ {m}
          /\ ackLog' = ackLog \cup {<<m[2], m[1]>>}
    /\ ps' = AdvanceCommitted(ps, t')
    /\ UNCHANGED <<role, nextLsn, queue, conns, live, calls, schedVars, settled, controls>>

\* A secondary's stream ends.  The reader task exits; the connection stays
\* in the map until a send fails or the replica is removed.
StreamBreaks ==
    /\ \E r \in live :
          /\ live' = live \ {r}
          /\ owed' = {m \in owed : m[1] # r}
    /\ UNCHANGED <<t, actorVars, conns, calls, schedVars, histVars, controls>>

-----------------------------------------------------------------------------
(* Expiration scheduler and clock.                                         *)

SchedulerCheck ==
    /\ role # "Closed"
    /\ sched = "check"
    /\ t' = ExpireDue(t)
    /\ sched' = "sleep"
    /\ alarm' = IF Deadlines(t') = {} THEN NoAlarm ELSE NextDeadline(t')
    /\ UNCHANGED <<actorVars, connVars, calls, wakeup, histVars, controls>>

SchedulerWoken ==
    /\ role # "Closed"
    /\ sched = "sleep" /\ wakeup
    /\ wakeup' = FALSE
    /\ sched' = "check"
    /\ alarm' = NoAlarm
    /\ UNCHANGED <<t, actorVars, connVars, calls, histVars, controls>>

\* The select is biased: a stored permit wins over an elapsed deadline.
SchedulerTimeout ==
    /\ role # "Closed"
    /\ sched = "sleep" /\ ~wakeup
    /\ alarm = 0
    /\ t' = ExpireDue(t)
    /\ sched' = "check"
    /\ alarm' = NoAlarm
    /\ UNCHANGED <<actorVars, connVars, calls, wakeup, histVars, controls>>

Scheduler == SchedulerCheck \/ SchedulerWoken \/ SchedulerTimeout

Tick ==
    /\ t' = Elapse(t)
    /\ alarm' = IF alarm \in Nat \ {0} THEN alarm - 1 ELSE alarm
    /\ <<t, alarm>>' # <<t, alarm>>
    /\ UNCHANGED <<actorVars, connVars, calls, sched, wakeup, histVars, controls>>

Next ==
    \/ Open
    \/ ReceiveItem
    \/ Promote
    \/ Demote
    \/ OnDataLoss
    \/ UpdateCatchUpConfiguration
    \/ UpdateCurrentConfiguration
    \/ WaitForCatchUpQuorum
    \/ CancelCatchUpQuorumWait
    \/ RemoveReplica
    \/ Close
    \/ Replicate
    \/ RejectReplicate
    \/ ReceiveAck
    \/ StreamBreaks
    \/ Scheduler
    \/ Tick

Spec == Init /\ [][Next]_vars

\* The clock advances and the runtime keeps polling the scheduler task.
FairSpec == Spec /\ WF_vars(Tick) /\ WF_vars(Scheduler)

-----------------------------------------------------------------------------
(* Properties.                                                             *)

\* Every variable has the type the code gives it.
TypeOK ==
    /\ t \in Tracker
    /\ role \in {"Unknown", "Primary", "Secondary", "Closed"}
    /\ nextLsn \in Nat
    /\ ps \in [progress : Nat, committed : Nat]
    /\ queue \subseteq Nat
    /\ conns \subseteq Replica
    /\ live \subseteq conns
    /\ owed \subseteq Replica \X Nat
    /\ calls \in Nat
    /\ controls \in [tenure : Nat, reconfigs : Nat]
    /\ sched \in {"check", "sleep"}
    /\ alarm \in 0..QuorumTimeout \cup {NoAlarm}
    /\ wakeup \in BOOLEAN
    /\ ackLog \subseteq Nat \X Replica
    /\ settled \subseteq Answer

\* Every call that was made is still tracked or has been answered, never both
\* and never twice: no expiry, commit, cancellation, reconfiguration, role
\* change or reuse of an LSN drops a reply channel or leaves one behind that
\* a later ACK could complete (pending.insert, expire_due, fail_all).
EveryCallAccounted ==
    /\ CallsOf(t.pending) \cup CallsOf(t.waiters) \cup CallsOf(t.answers) = 1..calls
    /\ CallsOf(t.pending) \cap CallsOf(t.waiters) = {}
    /\ (CallsOf(t.pending) \cup CallsOf(t.waiters)) \cap CallsOf(t.answers) = {}
    /\ \A a, b \in t.answers : a.call = b.call => a = b
    /\ \A o, p \in t.pending : o.call = p.call \/ o.lsn = p.lsn => o = p

\* The tracker's counters stay ordered through promotion, demotion and a
\* data-loss reset that moves them backwards: nothing is committed,
\* acknowledged or taken as baseline beyond the highest LSN, and no LSN the
\* actor will assign has been used (seed_progress, reset_progress_after_data_loss).
ProgressOrdered ==
    /\ \A c \in t.commits : c <= t.highest
    /\ \A r \in Replica : t.ackedLsn[r] <= t.highest
    /\ t.baseline <= t.highest
    /\ t.highest < nextLsn
    /\ ps.committed <= ps.progress
    /\ role = "Primary" => ps.progress <= t.highest

AckedBy(lsn, log) == {r \in Replica : <<lsn, r>> \in log}

NewAnswers == t'.answers \ t.answers

\* A write is acknowledged to its caller only when the acknowledgements the
\* ACK readers really processed since the promotion reach the write quorum of
\* the configuration in force, and of the previous one while there is one.
OkHasBothQuorums ==
    [][\A a \in NewAnswers : a.result = "Ok" /\ a.lsn # 0 =>
          /\ t'.cur.quorum # 0
          /\ CountReached(AckedBy(a.lsn, ackLog'), t'.cur)
          /\ t'.prev.members # {} => CountReached(AckedBy(a.lsn, ackLog'), t'.prev)]_vars

\* An operation whose deadline has passed is never answered Ok, whatever the
\* next tracker call is: "an ACK processed at or after its deadline cannot
\* revive an operation" (quorum.rs, ack).
DeadlineIsFinal ==
    [][\A o \in t.pending : o.ttl = 0 =>
          \A a \in NewAnswers : a.call = o.call => a.result # "Ok"]_vars

\* A catch-up wait succeeds during an attempt only if no operation has been
\* refused since the attempt began: removing an expired operation, or
\* repeating the catch-up configuration, must not make the attempt look
\* successful (catch_up_failed, catch_up_active).
CatchUpNeverMasksExpiry ==
    [][t.active /\ (\E a \in NewAnswers : a.lsn = 0 /\ a.result = "Ok") =>
          \A b \in t'.answers \ settled : b.lsn # 0 => b.result # "NoWriteQuorum"]_vars

\* Every replicate and every catch-up call is answered, although the tasks
\* race: the scheduler may be about to sleep when the operation is registered.
EveryCallAnswered ==
    \A c \in 1..MaxCalls : c <= calls ~> c \in CallsOf(t.answers)
=============================================================================
