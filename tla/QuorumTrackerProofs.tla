------------------------- MODULE QuorumTrackerProofs -------------------------
(***************************************************************************)
(* Theorems about the replicator actor and its quorum tracker, for every   *)
(* finite set of replicas, every timeout and every bound.                  *)
(***************************************************************************)
EXTENDS QuorumTracker, QuorumOpsProofs

\* The variables around the tracker have their types.
ActorTypeOK ==
    /\ role \in {"Unknown", "Primary", "Secondary", "Closed"}
    /\ nextLsn \in Nat
    /\ ps \in [progress : Nat, committed : Nat]
    /\ queue \in SUBSET Nat
    /\ conns \in SUBSET Replica
    /\ live \in SUBSET conns
    /\ owed \in SUBSET (Replica \X Nat)
    /\ calls \in Nat
    /\ controls \in [tenure : Nat, reconfigs : Nat]
    /\ sched \in {"check", "sleep"}
    /\ alarm \in 0..QuorumTimeout \cup {NoAlarm}
    /\ wakeup \in BOOLEAN
    /\ ackLog \in SUBSET (Nat \X Replica)
    /\ settled \in SUBSET Answer

\* How the actor's own counters stand to the tracker's: the next LSN is unused,
\* PartitionState follows the tracker, and nothing that can come back as an
\* acknowledgement lies beyond `highest`, which a data loss may lower only
\* while no stream is open.
ActorOrdered ==
    /\ t.highest < nextLsn
    /\ ps.committed <= ps.progress
    /\ t.highest <= ps.progress
    /\ role = "Unknown" => t.highest = 0
    /\ role = "Primary" => ps.progress <= t.highest
    /\ \A m \in owed : m[2] <= t.highest
    /\ role # "Primary" => owed = {}
    /\ \A l \in queue : l <= t.highest

\* The inductive invariant.
IInv ==
    /\ ActorTypeOK
    /\ Sound(t, 1..calls)
    /\ ActorOrdered

-----------------------------------------------------------------------------

\* The invariant gives the type invariant and both safety invariants.
LEMMA IInvImplies ==
    ASSUME IInv
    PROVE  TypeOK /\ EveryCallAccounted /\ ProgressOrdered
<1>1. TypeOK
  BY DEF IInv, ActorTypeOK, Sound, TypeOK
<1>2. EveryCallAccounted
  BY DEF IInv, Sound, Accounted, EveryCallAccounted
<1>3. ProgressOrdered
  BY DEF IInv, ActorOrdered, Sound, Ordered, ProgressOrdered
<1> QED
  BY <1>1, <1>2, <1>3

\* A majority configuration is a configuration: its quorum is a number.
LEMMA MajorityType ==
    ASSUME NEW S \in SUBSET Replica
    PROVE  [members |-> S, quorum |-> Majority(S)] \in Configuration
<1>1. IsFiniteSet(S)
  BY ReplicaAssumption, FS_Subset
<1>2. Cardinality(S) \in Nat
  BY <1>1, FS_CardinalityType
<1>3. Majority(S) \in Nat
  BY <1>2 DEF Majority
<1> QED
  BY <1>3 DEF Configuration

\* Numbering a new call.
LEMMA NextCall ==
    ASSUME NEW n \in Nat
    PROVE  1..(n + 1) = (1..n) \cup {n + 1} /\ n + 1 \notin 1..n /\ n + 1 \in Nat
OBVIOUS

\* Following the tracker's commit point keeps PartitionState ordered.
LEMMA AdvanceCommittedType ==
    ASSUME NEW state \in [progress : Nat, committed : Nat], NEW tk, NEW C, Sound(tk, C),
           tk.highest <= state.progress, state.committed <= state.progress
    PROVE  /\ AdvanceCommitted(state, tk) \in [progress : Nat, committed : Nat]
           /\ AdvanceCommitted(state, tk).progress = state.progress
           /\ AdvanceCommitted(state, tk).committed <= state.progress
<1>1. CommittedLsn(tk) \in Nat /\ CommittedLsn(tk) <= tk.highest /\ tk.highest \in Nat
  BY CommittedLsnIsMax DEF Sound, Tracker
<1>2. /\ Larger(state.committed, CommittedLsn(tk)) \in Nat
      /\ Larger(state.committed, CommittedLsn(tk)) <= state.progress
  BY <1>1 DEF Larger
<1> QED
  BY <1>2 DEF AdvanceCommitted

\* The initial state satisfies the invariant.
LEMMA InitIInv ==
    Init => IInv
<1> SUFFICES ASSUME Init PROVE IInv
  OBVIOUS
<1>1. ActorTypeOK
  BY DEF Init, ActorTypeOK
<1>2. NewTracker \in Tracker
  BY DEF NewTracker, Tracker, NoConfiguration, Configuration
<1>3. Accounted(NewTracker, 1..0)
  BY DEF NewTracker, Accounted, CallsOf
<1>4. Ordered(NewTracker)
  BY DEF NewTracker, Ordered
<1>5. ActorOrdered
  BY DEF Init, ActorOrdered, NewTracker
<1> QED
  BY <1>1, <1>2, <1>3, <1>4, <1>5 DEF Init, IInv, Sound

-----------------------------------------------------------------------------
(* One lemma per group of actions.                                         *)

\* A bound's counter stays a number.
LEMMA StepBounds ==
    ASSUME ActorTypeOK, TenureStep \/ ReconfigStep
    PROVE  controls' \in [tenure : Nat, reconfigs : Nat]
BY DEF ActorTypeOK, TenureStep, ReconfigStep

\* Opening, items received from another primary, and role changes.
LEMMA TenureIInv ==
    ASSUME IInv, Open \/ ReceiveItem \/ Promote \/ Demote \/ OnDataLoss
    PROVE  IInv'
<1> DEFINE C == 1..calls
<1>1. ActorTypeOK /\ ActorOrdered /\ Sound(t, C) /\ t.highest \in Nat
  BY DEF IInv, Sound, Tracker
<1>2. CASE ReceiveItem
  <2>1. controls' \in [tenure : Nat, reconfigs : Nat]
    BY <1>1, <1>2, StepBounds DEF ReceiveItem
  <2>2. PICK lsn \in 1..MaxLsn, committed \in 0..MaxLsn :
           /\ committed <= lsn
           /\ ps' = [progress  |-> Larger(ps.progress, lsn),
                     committed |-> Larger(ps.committed, committed)]
    BY <1>2 DEF ReceiveItem
  <2>3. /\ ps' \in [progress : Nat, committed : Nat]
        /\ ps'.committed <= ps'.progress /\ ps'.progress >= ps.progress
    BY <1>1, <2>2, BoundsAssumption DEF Larger, ActorTypeOK, ActorOrdered
  <2>4. Sound(t, C)'
    BY <1>1, <1>2 DEF ReceiveItem, Sound, Accounted, Ordered
  <2>5. ActorTypeOK'
    BY <1>1, <1>2, <2>1, <2>3 DEF ReceiveItem, ActorTypeOK, connVars, schedVars, histVars
  <2>6. ActorOrdered'
    BY <1>1, <1>2, <2>3, SMTT(60) DEF ReceiveItem, ActorTypeOK, ActorOrdered, connVars
  <2> QED
    BY <2>4, <2>5, <2>6 DEF IInv
<1>3. CASE Promote
  <2> DEFINE u == SeedProgress(t, ps.progress, ps.committed)
  <2>1. controls' \in [tenure : Nat, reconfigs : Nat]
    BY <1>1, <1>3, StepBounds DEF Promote
  <2>2. ps.progress \in Nat /\ ps.committed \in Nat /\ ps.committed <= ps.progress
    BY <1>1 DEF ActorTypeOK, ActorOrdered
  <2>3. Sound(u, C) /\ u.highest = Larger(t.highest, ps.progress)
    BY <1>1, <2>2, SeedProgressSound
  <2>4. t' = u /\ calls' = calls
    BY <1>3 DEF Promote
  <2> HIDE DEF u
  <2>5. ActorTypeOK'
    BY <1>1, <1>3, <2>1, <2>2 DEF Promote, ActorTypeOK, Larger, connVars, schedVars
  <2>6. ActorOrdered'
    BY <1>1, <1>3, <2>2, <2>3, <2>4 DEF Promote, ActorTypeOK, ActorOrdered, Larger, connVars
  <2> QED
    BY <2>3, <2>4, <2>5, <2>6 DEF IInv
<1>4. CASE Demote
  <2> DEFINE u == FailAll(t, "NotPrimary")
  <2>1. controls' \in [tenure : Nat, reconfigs : Nat]
    BY <1>1, <1>4, StepBounds DEF Demote
  <2>2. Sound(u, C) /\ u.highest = t.highest
    BY <1>1, FailAllSound DEF Settles, Result
  <2>3. t' = u /\ calls' = calls
    BY <1>4 DEF Demote
  <2> HIDE DEF u
  <2>4. ActorTypeOK'
    BY <1>1, <1>4, <2>1 DEF Demote, ActorTypeOK, schedVars, histVars
  <2>5. ActorOrdered'
    BY <1>1, <1>4, <2>2, <2>3 DEF Demote, ActorOrdered
  <2> QED
    BY <2>2, <2>3, <2>4, <2>5 DEF IInv
<1>5. CASE OnDataLoss
  <2>1. controls' \in [tenure : Nat, reconfigs : Nat]
    BY <1>1, <1>5, StepBounds DEF OnDataLoss
  <2>2. PICK lsn \in 0..ps.progress :
           /\ ps' = [progress |-> lsn, committed |-> lsn]
           /\ t' = ResetProgressAfterDataLoss(t, lsn, lsn)
           /\ nextLsn' = lsn + 1
    BY <1>5 DEF OnDataLoss
  <2>3. lsn \in Nat /\ lsn <= lsn
    BY <1>1 DEF ActorTypeOK
  <2>4. Sound(t', C) /\ t'.highest = lsn
    <3> DEFINE u == ResetProgressAfterDataLoss(t, lsn, lsn)
    <3> HIDE DEF C
    <3>1. Sound(u, C) /\ u.highest = lsn
      BY <1>1, <2>3, ResetProgressSound
    <3> QED
      BY <2>2, <3>1
  <2>5. calls' = calls /\ queue' = {} /\ owed' = {} /\ role' = "Secondary"
    BY <1>1, <1>5 DEF OnDataLoss, ActorOrdered, connVars
  <2>6. ActorTypeOK'
    BY <1>1, <1>5, <2>1, <2>2, <2>3 DEF OnDataLoss, ActorTypeOK, connVars, schedVars, histVars
  <2>7. ActorOrdered'
    BY <2>2, <2>3, <2>4, <2>5 DEF ActorOrdered
  <2> QED
    BY <2>4, <2>5, <2>6, <2>7 DEF IInv
<1>6. CASE Open
  <2>1. PICK lsn \in 0..MaxLsn :
           /\ ps' = [progress |-> lsn, committed |-> lsn]
           /\ nextLsn' = Larger(nextLsn, lsn + 1)
    BY <1>6 DEF Open
  <2>2. lsn \in Nat /\ nextLsn' \in Nat /\ nextLsn' >= nextLsn
    BY <1>1, <2>1, BoundsAssumption DEF Larger, ActorTypeOK
  <2>3. Sound(t, C)'
    BY <1>1, <1>6 DEF Open, Sound, Accounted, Ordered
  <2>4. ActorTypeOK'
    BY <1>1, <1>6, <2>1, <2>2 DEF Open, ActorTypeOK, connVars, schedVars, histVars
  <2>5. ActorOrdered'
    BY <1>1, <1>6, <2>1, <2>2 DEF Open, ActorTypeOK, ActorOrdered, connVars
  <2> QED
    BY <2>3, <2>4, <2>5 DEF IInv
<1> QED
  BY <1>2, <1>3, <1>4, <1>5, <1>6

\* Configuration updates, which begin with expire_due.
LEMMA ReconfigIInv ==
    ASSUME IInv, UpdateCatchUpConfiguration \/ UpdateCurrentConfiguration
    PROVE  IInv' /\ Settles(ExpireDue(t), t')
<1> DEFINE C == 1..calls
<1>1. ActorTypeOK /\ ActorOrdered /\ Sound(t, C) /\ t.highest \in Nat
  BY DEF IInv, Sound, Tracker
<1>2. \A current \in Configurations :
         current \in Configuration /\ current.members \in SUBSET Replica
  <2>1. ASSUME NEW S \in SUBSET Replica
        PROVE  [members |-> S, quorum |-> Majority(S)] \in Configuration
    BY MajorityType
  <2> QED
    BY <2>1 DEF Configurations
<1>3. PreviousConfigurations \in SUBSET Configuration
  <2>1. NoConfiguration \in Configuration /\ t.cur \in Configuration
    BY <1>1 DEF NoConfiguration, Configuration, Sound, Tracker
  <2>2. [members |-> Replica, quorum |-> Majority(Replica)] \in Configuration
    BY MajorityType
  <2> QED
    BY <2>1, <2>2 DEF PreviousConfigurations
<1>4. controls' \in [tenure : Nat, reconfigs : Nat]
  BY <1>1, StepBounds DEF UpdateCatchUpConfiguration, UpdateCurrentConfiguration
<1> HIDE DEF C
<1>5. CASE UpdateCatchUpConfiguration
  <2>1. PICK current \in Configurations, previous \in PreviousConfigurations :
        \E must \in {S \in SUBSET (current.members \ {Self}) : Cardinality(S) <= 1},
           fresh \in SUBSET (current.members \ (conns \cup {Self})),
           reported \in {0, ps.progress}, boundary \in 0..ps.committed :
           LET progress == [r \in Replica |-> IF r \in must THEN boundary
                                              ELSE IF r \in current.members THEN reported ELSE 0]
               next     == SetCatchUpConfiguration(t, current, previous, must, progress)
           IN  /\ t' = next
               /\ ps' = AdvanceCommitted(ps, next)
               /\ conns' = conns \cup fresh
               /\ live' = live \cup fresh
               /\ owed' = owed \cup (fresh \X {l \in queue : l > boundary})
               /\ settled' = IF t.active THEN settled ELSE next.answers
    BY <1>5 DEF UpdateCatchUpConfiguration
  <2>2. PICK must \in {S \in SUBSET (current.members \ {Self}) : Cardinality(S) <= 1},
             fresh \in SUBSET (current.members \ (conns \cup {Self})),
             reported \in {0, ps.progress}, boundary \in 0..ps.committed :
           LET progress == [r \in Replica |-> IF r \in must THEN boundary
                                              ELSE IF r \in current.members THEN reported ELSE 0]
               next     == SetCatchUpConfiguration(t, current, previous, must, progress)
           IN  /\ t' = next
               /\ ps' = AdvanceCommitted(ps, next)
               /\ conns' = conns \cup fresh
               /\ live' = live \cup fresh
               /\ owed' = owed \cup (fresh \X {l \in queue : l > boundary})
               /\ settled' = IF t.active THEN settled ELSE next.answers
    BY <2>1
  <2> DEFINE progress == [r \in Replica |-> IF r \in must THEN boundary
                                            ELSE IF r \in current.members THEN reported ELSE 0]
             u == SetCatchUpConfiguration(t, current, previous, must, progress)
  <2>3. /\ current \in Configuration /\ previous \in Configuration
        /\ must \in SUBSET Replica /\ fresh \in SUBSET Replica
    BY <1>2, <1>3
  <2>4. role = "Primary" /\ ps.progress <= t.highest
    BY <1>1, <1>5 DEF UpdateCatchUpConfiguration, ActorOrdered
  <2>5. progress \in [Replica -> Nat] /\ \A r \in Replica : progress[r] <= t.highest
    BY <1>1, <2>4 DEF ActorTypeOK, ActorOrdered
  <2> HIDE DEF progress
  <2>6. Sound(u, C) /\ Settles(t, u) /\ Settles(ExpireDue(t), u)
    BY <1>1, <2>3, <2>5, SetCatchUpSound
  <2>7. /\ t' = u /\ ps' = AdvanceCommitted(ps, u)
        /\ conns' = conns \cup fresh /\ live' = live \cup fresh
        /\ owed' = owed \cup (fresh \X {l \in queue : l > boundary})
        /\ settled' = IF t.active THEN settled ELSE u.answers
    BY <2>2 DEF progress
  <2> HIDE DEF u
  <2>8. /\ ps' \in [progress : Nat, committed : Nat] /\ ps'.progress = ps.progress
        /\ ps'.committed <= ps'.progress
    BY <1>1, <2>6, <2>7, AdvanceCommittedType DEF ActorTypeOK, ActorOrdered, Settles
  <2>9. u.answers \in SUBSET Answer
    BY <2>6 DEF Sound, Tracker
  <2>10. /\ role' = role /\ nextLsn' = nextLsn /\ queue' = queue /\ calls' = calls
         /\ sched' = sched /\ alarm' = alarm /\ wakeup' = wakeup /\ ackLog' = ackLog
    BY <1>5 DEF UpdateCatchUpConfiguration, schedVars
  <2>11. owed' \in SUBSET (Replica \X Nat) /\ \A m \in owed' : m[2] <= t.highest
    BY <1>1, <2>3, <2>7 DEF ActorTypeOK, ActorOrdered
  <2>12. ActorTypeOK'
    BY <1>1, <1>4, <2>3, <2>7, <2>8, <2>9, <2>10, <2>11 DEF ActorTypeOK
  <2>13. ActorOrdered'
    BY <1>1, <2>4, <2>6, <2>7, <2>8, <2>10, <2>11 DEF ActorOrdered, Settles
  <2> QED
    BY <2>6, <2>7, <2>10, <2>12, <2>13 DEF IInv, C
<1>6. CASE UpdateCurrentConfiguration
  <2>1. PICK current \in Configurations :
           t' = SetCurrentConfiguration(t, current) /\ ps' = AdvanceCommitted(ps, t')
    BY <1>6 DEF UpdateCurrentConfiguration
  <2>2. current \in Configuration
    BY <1>2
  <2>3. Sound(t', C) /\ t'.highest = t.highest /\ Settles(ExpireDue(t), t')
    BY <1>1, <2>1, <2>2, SetCurrentSound DEF Settles
  <2>4. /\ ps' \in [progress : Nat, committed : Nat] /\ ps'.progress = ps.progress
        /\ ps'.committed <= ps'.progress
    BY <1>1, <2>1, <2>3, AdvanceCommittedType DEF ActorTypeOK, ActorOrdered
  <2>5. /\ role' = role /\ nextLsn' = nextLsn /\ calls' = calls /\ queue' \in SUBSET queue
        /\ conns' = conns /\ live' = live /\ owed' = owed
        /\ sched' = sched /\ alarm' = alarm /\ wakeup' = wakeup
        /\ ackLog' = ackLog /\ settled' = settled
    BY <1>6 DEF UpdateCurrentConfiguration, connVars, schedVars, histVars
  <2>6. ActorTypeOK'
    BY <1>1, <1>4, <2>4, <2>5 DEF ActorTypeOK
  <2>7. ActorOrdered'
    BY <1>1, <2>3, <2>4, <2>5 DEF ActorOrdered
  <2> QED
    BY <2>3, <2>5, <2>6, <2>7 DEF IInv, C
<1> QED
  BY <1>5, <1>6

\* Steps in which the tracker answers, forgets or ages what it holds and the
\* actor's counters stay where they are.
LEMMA SteadyIInv ==
    ASSUME IInv, Sound(t', 1..calls'), t'.highest = t.highest, calls' \in Nat,
           role' \in {role, "Closed"}, nextLsn' = nextLsn, ps' = ps,
           queue' \in SUBSET queue, owed' \in SUBSET owed,
           role' = "Closed" => owed' = {},
           conns' \in SUBSET conns, live' \in SUBSET live, live' \in SUBSET conns',
           controls' = controls, ackLog' = ackLog, settled' = settled,
           sched' \in {"check", "sleep"}, alarm' \in 0..QuorumTimeout \cup {NoAlarm},
           wakeup' \in BOOLEAN
    PROVE  IInv'
<1>1. ActorTypeOK /\ ActorOrdered
  BY DEF IInv
<1>2. ActorTypeOK'
  BY <1>1 DEF ActorTypeOK
<1>3. ActorOrdered'
  BY <1>1 DEF ActorOrdered
<1> QED
  BY <1>2, <1>3 DEF IInv

\* Waiting for the catch-up quorum and cancelling the wait.
LEMMA WaitIInv ==
    ASSUME IInv, WaitForCatchUpQuorum \/ CancelCatchUpQuorumWait
    PROVE  IInv'
<1>1. ActorTypeOK /\ Sound(t, 1..calls) /\ calls \in Nat
  BY DEF IInv, ActorTypeOK
<1>2. CASE WaitForCatchUpQuorum
  <2>1. PICK id \in WaitId, mode \in Mode : t' = WaitForCatchUp(t, calls + 1, id, mode)
    BY <1>2 DEF WaitForCatchUpQuorum
  <2>2. /\ 1..(calls + 1) = (1..calls) \cup {calls + 1}
        /\ calls + 1 \notin 1..calls /\ calls + 1 \in Nat
    BY <1>1, NextCall
  <2>3. Sound(t', (1..calls) \cup {calls + 1}) /\ t'.highest = t.highest
    BY <1>1, <2>1, <2>2, WaitForCatchUpSound
  <2>4. calls' = calls + 1 /\ Sound(t', 1..calls')
    BY <1>2, <2>2, <2>3 DEF WaitForCatchUpQuorum
  <2> QED
    BY <1>1, <1>2, <2>2, <2>3, <2>4, SteadyIInv
    DEF WaitForCatchUpQuorum, IInv, ActorTypeOK, ActorOrdered, actorVars, connVars, histVars
<1>3. CASE CancelCatchUpQuorumWait
  <2>1. Sound(t', 1..calls) /\ t'.highest = t.highest
    BY <1>1, <1>3, CancelCatchUpWaitSound DEF CancelCatchUpQuorumWait, Settles
  <2> QED
    BY <1>1, <1>3, <2>1, SteadyIInv
    DEF CancelCatchUpQuorumWait, IInv, ActorTypeOK, ActorOrdered, actorVars, connVars, schedVars, histVars
<1> QED
  BY <1>2, <1>3

\* Connections that go away, and the end of the actor.
LEMMA CloseIInv ==
    ASSUME IInv, RemoveReplica \/ StreamBreaks \/ Close
    PROVE  IInv'
<1>1. ActorTypeOK /\ ActorOrdered /\ Sound(t, 1..calls) /\ calls \in Nat
  BY DEF IInv, ActorTypeOK
<1>2. CASE RemoveReplica \/ StreamBreaks
  <2>1. /\ t' = t /\ role' = role /\ nextLsn' = nextLsn /\ ps' = ps /\ queue' = queue
        /\ calls' = calls /\ controls' = controls /\ ackLog' = ackLog /\ settled' = settled
        /\ sched' = sched /\ alarm' = alarm /\ wakeup' = wakeup
    BY <1>2 DEF RemoveReplica, StreamBreaks, actorVars, schedVars, histVars
  <2>2. /\ owed' \in SUBSET owed /\ conns' \in SUBSET conns
        /\ live' \in SUBSET live /\ live' \in SUBSET conns'
    BY <1>1, <1>2 DEF RemoveReplica, StreamBreaks, ActorTypeOK
  <2>3. Sound(t', 1..calls')
    BY <1>1, <2>1
  <2>4. role' = "Closed" => owed' = {}
    BY <1>1, <2>1, <2>2 DEF ActorOrdered
  <2> QED
    BY <1>1, <2>1, <2>2, <2>3, <2>4, SteadyIInv DEF ActorTypeOK
<1>3. CASE Close
  <2>1. Sound(t', 1..calls) /\ t'.highest = t.highest
    BY <1>1, <1>3, FailAllSound DEF Close, Settles, Result
  <2> QED
    BY <1>1, <1>3, <2>1, SteadyIInv DEF Close, ActorTypeOK, schedVars, histVars
<1> QED
  BY <1>2, <1>3

\* The expiration scheduler and the clock.
LEMMA TimeIInv ==
    ASSUME IInv, Scheduler \/ Tick
    PROVE  IInv'
<1>1. ActorTypeOK /\ ActorOrdered /\ Sound(t, 1..calls) /\ calls \in Nat
  BY DEF IInv, ActorTypeOK
<1>2. Sound(ExpireDue(t), 1..calls) /\ ExpireDue(t).highest = t.highest
  BY <1>1, ExpireDueSound DEF Settles
<1>3. Sound(Elapse(t), 1..calls) /\ Elapse(t).highest = t.highest
  BY <1>1, ElapseSound
<1>4. /\ role' = role /\ nextLsn' = nextLsn /\ ps' = ps /\ queue' = queue
      /\ conns' = conns /\ live' = live /\ owed' = owed
      /\ calls' = calls /\ controls' = controls /\ ackLog' = ackLog /\ settled' = settled
  BY DEF Scheduler, SchedulerCheck, SchedulerWoken, SchedulerTimeout, Tick,
         actorVars, connVars, histVars
<1>5. t' \in {t, ExpireDue(t), Elapse(t)}
  BY DEF Scheduler, SchedulerCheck, SchedulerWoken, SchedulerTimeout, Tick
<1>6. Sound(t', 1..calls') /\ t'.highest = t.highest
  BY <1>1, <1>2, <1>3, <1>4, <1>5
<1>7. sched' \in {"check", "sleep"} /\ wakeup' \in BOOLEAN
  BY <1>1 DEF Scheduler, SchedulerCheck, SchedulerWoken, SchedulerTimeout, Tick, ActorTypeOK
<1>8. alarm' \in 0..QuorumTimeout \cup {NoAlarm}
  <2>1. CASE SchedulerCheck
    <3>1. Deadlines(t') # {} => NextDeadline(t') \in 0..QuorumTimeout
      BY <1>6, NextDeadlineType DEF Sound
    <3> QED
      BY <2>1, <3>1 DEF SchedulerCheck
  <2>2. CASE SchedulerWoken \/ SchedulerTimeout
    BY <2>2 DEF SchedulerWoken, SchedulerTimeout
  <2>3. CASE Tick
    BY <1>1, <2>3, QuorumTimeoutAssumption, NoAlarmAssumption DEF Tick, ActorTypeOK
  <2> QED
    BY <2>1, <2>2, <2>3 DEF Scheduler
<1> QED
  BY <1>1, <1>4, <1>6, <1>7, <1>8, SteadyIInv DEF ActorTypeOK, ActorOrdered

\* The data path: requests and acknowledgements.
LEMMA DataIInv ==
    ASSUME IInv, Replicate \/ RejectReplicate \/ ReceiveAck
    PROVE  IInv'
<1>1. /\ ActorTypeOK /\ ActorOrdered /\ Sound(t, 1..calls) /\ calls \in Nat
      /\ t.highest \in Nat /\ nextLsn \in Nat
  BY DEF IInv, ActorTypeOK, Sound, Tracker
<1>2. /\ 1..(calls + 1) = (1..calls) \cup {calls + 1}
      /\ calls + 1 \notin 1..calls /\ calls + 1 \in Nat
  BY <1>1, NextCall
<1>3. CASE Replicate
  <2> DEFINE u == Register(t, nextLsn, Self, calls + 1)
             state == [ps EXCEPT !.progress = nextLsn]
  <2>1. nextLsn > t.highest /\ ps.committed < nextLsn
    BY <1>1, <1>3 DEF Replicate, ActorOrdered, ActorTypeOK
  <2>2. Sound(u, (1..calls) \cup {calls + 1}) /\ u.highest = nextLsn
    <3> DEFINE C == 1..calls
               c == calls + 1
               v == Register(t, nextLsn, Self, c)
    <3>1. /\ Sound(t, C) /\ c \in Nat /\ c \notin C
          /\ nextLsn \in Nat /\ nextLsn > t.highest /\ Self \in Replica
      BY <1>1, <1>2, <2>1, SelfAssumption
    <3> HIDE DEF C, c, u
    <3>2. Sound(v, C \cup {c}) /\ v.highest = nextLsn /\ t.pending \subseteq v.pending
      BY <3>1, RegisterSound
    <3> QED
      BY <3>2 DEF C, c, u
  <2>3. t' = u /\ calls' = calls + 1 /\ ps' = AdvanceCommitted(state, u)
    BY <1>3 DEF Replicate
  <2> HIDE DEF u
  <2>4. /\ state \in [progress : Nat, committed : Nat]
        /\ state.progress = nextLsn /\ state.committed <= state.progress
    BY <1>1, <2>1 DEF ActorTypeOK
  <2> HIDE DEF state
  <2>5. /\ ps' \in [progress : Nat, committed : Nat] /\ ps'.progress = nextLsn
        /\ ps'.committed <= ps'.progress
    BY <1>1, <2>2, <2>3, <2>4, AdvanceCommittedType
  <2>6. /\ role' = "Primary" /\ nextLsn' = nextLsn + 1 /\ queue' = queue \cup {nextLsn}
        /\ conns' \in SUBSET conns /\ live' = live /\ live \in SUBSET conns'
        /\ owed' = owed \cup (live \X {nextLsn})
        /\ ackLog' = ackLog \cup {<<nextLsn, Self>>}
        /\ wakeup' = TRUE /\ sched' = sched /\ alarm' = alarm
        /\ settled' = settled /\ controls' = controls
    BY <1>1, <1>3 DEF Replicate, ActorTypeOK
  <2>7. owed' \in SUBSET (Replica \X Nat) /\ \A m \in owed' : m[2] <= nextLsn
    BY <1>1, <2>1, <2>6 DEF ActorTypeOK, ActorOrdered
  <2>8. ActorTypeOK'
    BY <1>1, <1>2, <2>3, <2>5, <2>6, <2>7, SelfAssumption DEF ActorTypeOK
  <2>9. ActorOrdered'
    BY <1>1, <2>1, <2>2, <2>3, <2>5, <2>6, <2>7 DEF ActorTypeOK, ActorOrdered
  <2>10. Sound(t', 1..calls')
    BY <1>2, <2>2, <2>3
  <2> QED
    BY <2>8, <2>9, <2>10 DEF IInv
<1>4. CASE RejectReplicate
  <2> DEFINE a == [call |-> calls + 1, lsn |-> 0, result |-> "NotPrimary"]
  <2>1. a \in Answer /\ a.call = calls + 1
    BY <1>2 DEF Answer, Result
  <2>2. t' = [t EXCEPT !.answers = @ \cup {a}] /\ calls' = calls + 1
    BY <1>4 DEF RejectReplicate
  <2> HIDE DEF a
  <2>3. Sound(t', (1..calls) \cup {calls + 1}) /\ t'.highest = t.highest
    BY <1>1, <1>2, <2>1, <2>2, ReplySound
  <2>4. Sound(t', 1..calls')
    BY <1>2, <2>2, <2>3
  <2> QED
    BY <1>1, <1>2, <1>4, <2>2, <2>3, <2>4, SteadyIInv
    DEF RejectReplicate, ActorTypeOK, ActorOrdered, actorVars, connVars, schedVars, histVars
<1>5. CASE ReceiveAck
  <2>1. PICK m \in owed : /\ t' = Ack(t, m[2], m[1])
                          /\ owed' = owed \ {m}
                          /\ ackLog' = ackLog \cup {<<m[2], m[1]>>}
    BY <1>5 DEF ReceiveAck
  <2>2. m[1] \in Replica /\ m[2] \in Nat /\ m[2] <= t.highest
    BY <1>1 DEF ActorTypeOK, ActorOrdered
  <2>3. Sound(t', 1..calls) /\ t'.highest = t.highest
    BY <1>1, <2>1, <2>2, AckSound DEF Settles
  <2>4. ps' = AdvanceCommitted(ps, t')
    BY <1>5 DEF ReceiveAck
  <2>5. /\ ps' \in [progress : Nat, committed : Nat] /\ ps'.progress = ps.progress
        /\ ps'.committed <= ps'.progress
    BY <1>1, <2>3, <2>4, AdvanceCommittedType DEF ActorTypeOK, ActorOrdered
  <2>6. /\ role' = role /\ nextLsn' = nextLsn /\ queue' = queue /\ conns' = conns
        /\ live' = live /\ calls' = calls /\ settled' = settled /\ controls' = controls
        /\ sched' = sched /\ alarm' = alarm /\ wakeup' = wakeup
    BY <1>5 DEF ReceiveAck, schedVars
  <2>7. ActorTypeOK'
    BY <1>1, <2>1, <2>2, <2>5, <2>6 DEF ActorTypeOK
  <2>8. ActorOrdered'
    BY <1>1, <2>1, <2>3, <2>5, <2>6 DEF ActorOrdered
  <2> QED
    BY <2>3, <2>6, <2>7, <2>8 DEF IInv
<1> QED
  BY <1>3, <1>4, <1>5

\* Every step keeps the invariant.
LEMMA NextIInv ==
    IInv /\ [Next]_vars => IInv'
<1> SUFFICES ASSUME IInv, [Next]_vars PROVE IInv'
  OBVIOUS
<1>1. CASE Open \/ ReceiveItem \/ Promote \/ Demote \/ OnDataLoss
  BY <1>1, TenureIInv
<1>2. CASE UpdateCatchUpConfiguration \/ UpdateCurrentConfiguration
  BY <1>2, ReconfigIInv
<1>3. CASE WaitForCatchUpQuorum \/ CancelCatchUpQuorumWait
  BY <1>3, WaitIInv
<1>4. CASE RemoveReplica \/ StreamBreaks \/ Close
  BY <1>4, CloseIInv
<1>5. CASE Scheduler \/ Tick
  BY <1>5, TimeIInv
<1>6. CASE Replicate \/ RejectReplicate \/ ReceiveAck
  BY <1>6, DataIInv
<1>7. CASE UNCHANGED vars
  <2>1. /\ t' = t /\ role' = role /\ nextLsn' = nextLsn /\ ps' = ps /\ queue' = queue
        /\ conns' = conns /\ live' = live /\ owed' = owed /\ calls' = calls
        /\ controls' = controls /\ sched' = sched /\ alarm' = alarm /\ wakeup' = wakeup
        /\ ackLog' = ackLog /\ settled' = settled
    BY <1>7 DEF vars, actorVars, connVars, schedVars, histVars
  <2>2. Sound(t', 1..calls')
    BY <2>1 DEF IInv
  <2> QED
    BY <2>1, <2>2 DEF IInv, ActorTypeOK, ActorOrdered
<1> QED
  BY <1>1, <1>2, <1>3, <1>4, <1>5, <1>6, <1>7 DEF Next

\* The inductive invariant holds in every reachable state.
THEOREM Invariant ==
    Spec => []IInv
<1>1. Init => IInv
  BY InitIInv
<1>2. IInv /\ [Next]_vars => IInv'
  BY NextIInv
<1> QED
  BY <1>1, <1>2, PTL DEF Spec

\* Every variable of the actor keeps the type the code gives it.
THEOREM TypeCorrect ==
    Spec => []TypeOK
<1>1. IInv => TypeOK
  BY IInvImplies
<1> QED
  BY <1>1, Invariant, PTL

\* Every replicate and every catch-up call has exactly one fate: it is tracked
\* once or was answered once, through expiry, commit, cancellation,
\* reconfiguration, role changes and data loss (quorum.rs).
THEOREM CallsAccounted ==
    Spec => []EveryCallAccounted
<1>1. IInv => EveryCallAccounted
  BY IInvImplies
<1> QED
  BY <1>1, Invariant, PTL

\* The tracker's counters, the actor's next LSN and PartitionState stay
\* ordered, through promotion and a data-loss reset (quorum.rs, actor.rs).
THEOREM CountersOrdered ==
    Spec => []ProgressOrdered
<1>1. IInv => ProgressOrdered
  BY IInvImplies
<1> QED
  BY <1>1, Invariant, PTL

-----------------------------------------------------------------------------
(* The deadline of an operation is final.                                  *)

\* The call of operation o is still pending in tk, or was refused.
StillOpenOrRefused(o, tk) ==
    \/ \E p \in tk.pending : p.call = o.call
    \/ \E a \in tk.answers : a.call = o.call /\ a.result # "Ok"

\* Such a call has no Ok answer, because calls are answered once.
LEMMA NotOk ==
    ASSUME NEW tk, NEW C, Sound(tk, C), NEW o, StillOpenOrRefused(o, tk)
    PROVE  \A a \in tk.answers : a.call = o.call => a.result # "Ok"
<1>1. Accounted(tk, C)
  BY DEF Sound
<1>2. CASE \E p \in tk.pending : p.call = o.call
  <2>1. o.call \in CallsOf(tk.pending)
    BY <1>2 DEF CallsOf
  <2>2. o.call \notin CallsOf(tk.answers)
    BY <1>1, <2>1 DEF Accounted
  <2> QED
    BY <2>2 DEF CallsOf
<1>3. CASE \E a \in tk.answers : a.call = o.call /\ a.result # "Ok"
  BY <1>1, <1>3 DEF Accounted
<1> QED
  BY <1>2, <1>3 DEF StillOpenOrRefused

\* A tracker that follows expire_due refuses every operation that was due.
LEMMA DueRefused ==
    ASSUME NEW tk, NEW C, Sound(tk, C), NEW u, Settles(ExpireDue(tk), u),
           NEW o \in tk.pending, o.ttl = 0
    PROVE  StillOpenOrRefused(o, u)
<1> DEFINE a == [call |-> o.call, lsn |-> o.lsn, result |-> "NoWriteQuorum"]
<1>1. a \in ExpireDue(tk).answers
  BY ExpireDueSound
<1>2. a \in u.answers
  BY <1>1 DEF Settles
<1>3. a.call = o.call /\ a.result # "Ok"
  OBVIOUS
<1> QED
  BY <1>2, <1>3 DEF StillOpenOrRefused

\* Whatever the step, an operation that is due stays open or is refused.
LEMMA DueStep ==
    ASSUME IInv, Next, NEW o \in t.pending, o.ttl = 0, t' # t
    PROVE  StillOpenOrRefused(o, t') \/ t'.answers = t.answers
<1> DEFINE C == 1..calls
<1>1. Sound(t, C)
  BY DEF IInv
<1>2. /\ ActorTypeOK /\ ActorOrdered /\ calls \in Nat /\ calls + 1 \in Nat /\ calls + 1 \notin C
      /\ t.highest \in Nat /\ nextLsn \in Nat
  BY <1>1 DEF IInv, ActorTypeOK, Sound, Tracker
<1> HIDE DEF C
<1>3. ASSUME NEW res \in Result, res # "Ok", t' = FailAll(t, res)
      PROVE  StillOpenOrRefused(o, t')
  <2>1. [call |-> o.call, lsn |-> o.lsn, result |-> res] \in t'.answers
    BY <1>1, <1>3, FailAllSound
  <2> QED
    BY <1>3, <2>1 DEF StillOpenOrRefused
<1>4. ASSUME t.pending \subseteq t'.pending
      PROVE  StillOpenOrRefused(o, t')
  BY <1>4 DEF StillOpenOrRefused
<1>5. CASE Promote
  <2>1. t' = SeedProgress(t, ps.progress, ps.committed)
    BY <1>5 DEF Promote
  <2>2. t'.answers = t.answers
    BY <1>1, <2>1 DEF SeedProgress, Sound, Tracker
  <2> QED
    BY <2>2
<1>6. CASE Demote
  BY <1>3, <1>6 DEF Demote, Result
<1>7. CASE OnDataLoss
  <2>1. PICK lsn \in 0..ps.progress : t' = ResetProgressAfterDataLoss(t, lsn, lsn)
    BY <1>7 DEF OnDataLoss
  <2>2. lsn \in Nat /\ lsn <= lsn
    BY <1>2 DEF ActorTypeOK
  <2>3. [call |-> o.call, lsn |-> o.lsn, result |-> "Internal"] \in t'.answers
    BY <1>1, <2>1, <2>2, ResetProgressSound
  <2> QED
    BY <2>3 DEF StillOpenOrRefused
<1>8. CASE Close
  BY <1>3, <1>8 DEF Close, Result
<1>9. CASE CancelCatchUpQuorumWait
  BY <1>1, <1>4, <1>9, CancelCatchUpWaitSound DEF CancelCatchUpQuorumWait
<1>10. CASE WaitForCatchUpQuorum
  <2>1. PICK id \in WaitId, mode \in Mode : t' = WaitForCatchUp(t, calls + 1, id, mode)
    BY <1>10 DEF WaitForCatchUpQuorum
  <2> DEFINE u == WaitForCatchUp(t, calls + 1, id, mode)
  <2>2. u.pending = t.pending
    <3>1. calls + 1 \in Nat /\ calls + 1 \notin C
      BY <1>2
    <3> QED
      BY <1>1, <3>1, WaitForCatchUpSound, ZenonT(60)
  <2> HIDE DEF u
  <2>3. t'.pending = t.pending
    BY <2>1, <2>2 DEF u
  <2> QED
    BY <1>4, <2>3
<1>11. CASE Replicate
  <2>1. nextLsn > t.highest /\ t' = Register(t, nextLsn, Self, calls + 1)
    BY <1>2, <1>11 DEF Replicate, ActorOrdered
  <2>2. t.pending \subseteq t'.pending
    BY <1>1, <1>2, <2>1, SelfAssumption, RegisterSound
  <2> QED
    BY <1>4, <2>2
<1>12. CASE RejectReplicate
  <2>1. t'.pending = t.pending
    BY <1>1, <1>12 DEF RejectReplicate, Sound, Tracker
  <2> QED
    BY <1>4, <2>1
<1>13. CASE ReceiveAck
  <2>1. PICK m \in owed : t' = Ack(t, m[2], m[1])
    BY <1>13 DEF ReceiveAck
  <2>2. m[1] \in Replica /\ m[2] \in Nat /\ m[2] <= t.highest
    BY <1>2 DEF ActorTypeOK, ActorOrdered
  <2>3. Settles(ExpireDue(t), t')
    BY <1>1, <2>1, <2>2, AckSound
  <2> QED
    BY <1>1, <2>3, DueRefused
<1>14. CASE Scheduler
  <2>1. t' = ExpireDue(t)
    BY <1>14 DEF Scheduler, SchedulerCheck, SchedulerWoken, SchedulerTimeout
  <2>2. Settles(ExpireDue(t), t')
    BY <2>1 DEF Settles
  <2> QED
    BY <1>1, <2>2, DueRefused
<1>15. CASE Tick
  BY <1>1, <1>15, ElapseSound DEF Tick
<1>16. CASE UpdateCatchUpConfiguration \/ UpdateCurrentConfiguration
  BY <1>1, <1>16, ReconfigIInv, DueRefused
<1>17. CASE Open \/ ReceiveItem \/ RemoveReplica \/ StreamBreaks
  BY <1>17 DEF Open, ReceiveItem, RemoveReplica, StreamBreaks
<1> QED
  BY <1>5, <1>6, <1>7, <1>8, <1>9, <1>10, <1>11, <1>12, <1>13, <1>14, <1>15, <1>16, <1>17 DEF Next

\* An operation whose deadline has passed is never answered Ok, whichever
\* task takes the next step ("an ACK processed at or after its deadline cannot
\* revive an operation", quorum.rs).
THEOREM DeadlinesFinal ==
    Spec => DeadlineIsFinal
<1>1. ASSUME IInv, IInv', [Next]_vars
      PROVE  [\A o \in t.pending : o.ttl = 0 =>
                 \A a \in NewAnswers : a.call = o.call => a.result # "Ok"]_vars
  <2> SUFFICES ASSUME Next, NEW o \in t.pending, o.ttl = 0,
                      NEW a \in NewAnswers, a.call = o.call
               PROVE  a.result # "Ok"
    BY <1>1
  <2>1. a \in t'.answers /\ a \notin t.answers
    BY DEF NewAnswers
  <2>2. StillOpenOrRefused(o, t')
    BY <1>1, <2>1, DueStep
  <2>3. Sound(t', 1..calls')
    BY <1>1 DEF IInv
  <2> QED
    BY <2>1, <2>2, <2>3, NotOk
<1> QED
  BY <1>1, Invariant, PTL DEF Spec, DeadlineIsFinal

-----------------------------------------------------------------------------
(* A write is acknowledged only with both quorums: `acked_by` of a pending  *)
(* operation never names a replica whose acknowledgement was not processed, *)
(* so the quorum the tracker counts is one the acknowledgement log holds.   *)

\* Every pending operation counts only acknowledgements that are in the log.
Logged(tk, log) == \A o \in tk.pending : o.acked \subseteq AckedBy(o.lsn, log)

\* The replicas in A are a write quorum of both configurations in force.
BothQuorums(tk, A) ==
    /\ tk.cur.quorum # 0
    /\ CountReached(A, tk.cur)
    /\ tk.prev.members # {} => CountReached(A, tk.prev)

WriteOk(a) == a.result = "Ok" /\ a.lsn # 0

\* The writes answered Ok beyond the answers in S have both quorums.
Backed(tk, log, S) ==
    \A a \in tk.answers \ S : WriteOk(a) => BothQuorums(tk, AckedBy(a.lsn, log))

\* No write was answered Ok beyond the answers in S.
NoneOk(tk, S) == \A a \in tk.answers \ S : ~WriteOk(a)

\* u is in the same configuration as tk.
SameConfiguration(tk, u) == u.cur = tk.cur /\ u.prev = tk.prev

-----------------------------------------------------------------------------
(* Counting.                                                               *)

\* More acknowledgements never lose a quorum.
LEMMA CountMonotone ==
    ASSUME NEW c \in Configuration, NEW A, NEW B, A \subseteq B, CountReached(A, c)
    PROVE  CountReached(B, c)
<1> DEFINE X == A \cap c.members
           Y == B \cap c.members
<1>1. c.members \in SUBSET Replica /\ c.quorum \in Nat
  BY DEF Configuration
<1>2. IsFiniteSet(c.members)
  BY <1>1, ReplicaAssumption, FS_Subset
<1>3. X \subseteq Y /\ Y \subseteq c.members
  OBVIOUS
<1> HIDE DEF X, Y
<1>4. IsFiniteSet(Y)
  BY <1>2, <1>3, FS_Subset
<1>5. IsFiniteSet(X) /\ Cardinality(X) <= Cardinality(Y)
  BY <1>3, <1>4, FS_Subset
<1>6. Cardinality(X) \in Nat /\ Cardinality(Y) \in Nat
  BY <1>4, <1>5, FS_CardinalityType
<1>7. Cardinality(X) >= c.quorum
  BY DEF CountReached, X
<1>8. Cardinality(Y) >= c.quorum
  BY <1>1, <1>5, <1>6, <1>7
<1> QED
  BY <1>8 DEF CountReached, Y

\* is_quorum_met on logged acknowledgements is a quorum of both configurations.
LEMMA MetIsBoth ==
    ASSUME NEW tk \in Tracker, NEW A, NEW B, A \subseteq B, IsQuorumMet(tk, A)
    PROVE  BothQuorums(tk, B)
<1>1. tk.cur \in Configuration /\ tk.prev \in Configuration
  BY DEF Tracker
<1>2. tk.cur.quorum # 0 /\ CountReached(B, tk.cur)
  BY <1>1, CountMonotone DEF IsQuorumMet
<1>3. ASSUME tk.prev.members # {}
      PROVE  CountReached(B, tk.prev)
  <2>1. CountReached(A, tk.prev)
    BY <1>3 DEF IsQuorumMet
  <2> QED
    BY <1>1, <2>1, CountMonotone
<1> QED
  BY <1>2, <1>3 DEF BothQuorums

-----------------------------------------------------------------------------
(* Private steps of the tracker.                                           *)

\* Answers to catch-up waiters acknowledge no write.
LEMMA AnswerWaitersBacked ==
    ASSUME NEW tk \in Tracker, NEW ws, NEW res, NEW log, NEW S
    PROVE  LET u == AnswerWaiters(tk, ws, res)
           IN  /\ u.pending = tk.pending /\ SameConfiguration(tk, u)
               /\ Backed(tk, log, S) => Backed(u, log, S)
               /\ NoneOk(tk, S) => NoneOk(u, S)
<1> DEFINE u == AnswerWaiters(tk, ws, res)
<1>1. /\ u.pending = tk.pending /\ u.cur = tk.cur /\ u.prev = tk.prev
      /\ u.answers = tk.answers \cup WaiterAnswers(ws, res)
  BY DEF AnswerWaiters, Tracker
<1>2. \A a \in WaiterAnswers(ws, res) : ~WriteOk(a)
  BY DEF WaiterAnswers, WriteOk
<1> HIDE DEF u
<1>3. Backed(tk, log, S) => Backed(u, log, S)
  BY <1>1, <1>2 DEF Backed, BothQuorums
<1>4. NoneOk(tk, S) => NoneOk(u, S)
  BY <1>1, <1>2 DEF NoneOk
<1> QED
  BY <1>1, <1>3, <1>4 DEF u, SameConfiguration

\* Refusing operations acknowledges no write.
LEMMA RefuseOps ==
    ASSUME NEW tk \in Tracker, NEW ops, NEW res, res # "Ok", NEW S
    PROVE  LET u == AnswerOps(tk, ops, res)
           IN  u.pending \subseteq tk.pending /\ (NoneOk(tk, S) => NoneOk(u, S))
<1> DEFINE u == AnswerOps(tk, ops, res)
<1>1. u.pending \subseteq tk.pending /\ u.answers = tk.answers \cup OpAnswers(ops, res)
  BY DEF AnswerOps, Tracker
<1>2. \A a \in OpAnswers(ops, res) : ~WriteOk(a)
  BY DEF OpAnswers, WriteOk
<1> HIDE DEF u
<1>3. NoneOk(tk, S) => NoneOk(u, S)
  BY <1>1, <1>2 DEF NoneOk
<1> QED
  BY <1>1, <1>3 DEF u

\* commit_op on operations that met the quorum.
LEMMA CommitOpsBacked ==
    ASSUME NEW tk \in Tracker, NEW log, NEW S, NEW ops,
           Backed(tk, log, S),
           \A o \in ops : IsQuorumMet(tk, o.acked) /\ o.acked \subseteq AckedBy(o.lsn, log)
    PROVE  LET u == CommitOps(tk, ops)
           IN  u.pending \subseteq tk.pending /\ SameConfiguration(tk, u) /\ Backed(u, log, S)
<1> DEFINE u == CommitOps(tk, ops)
<1>1. /\ u.pending \subseteq tk.pending /\ u.cur = tk.cur /\ u.prev = tk.prev
      /\ u.answers = tk.answers \cup OpAnswers(ops, "Ok")
  BY DEF CommitOps, AnswerOps, Tracker
<1>2. ASSUME NEW a \in OpAnswers(ops, "Ok")
      PROVE  BothQuorums(tk, AckedBy(a.lsn, log))
  <2>1. PICK o \in ops : a.lsn = o.lsn
    BY <1>2 DEF OpAnswers
  <2>2. IsQuorumMet(tk, o.acked) /\ o.acked \subseteq AckedBy(o.lsn, log)
    OBVIOUS
  <2> QED
    BY <2>1, <2>2, MetIsBoth
<1> HIDE DEF u
<1>3. \A A : BothQuorums(tk, A) => BothQuorums(u, A)
  BY <1>1 DEF BothQuorums
<1>4. Backed(u, log, S)
  BY <1>1, <1>2, <1>3 DEF Backed
<1> QED
  BY <1>1, <1>4 DEF u, SameConfiguration

\* try_commit_pending commits what the log backs.
LEMMA TryCommitBacked ==
    ASSUME NEW tk \in Tracker, NEW log, NEW S, Logged(tk, log), Backed(tk, log, S)
    PROVE  LET u == TryCommitPending(tk)
           IN  /\ u.pending \subseteq tk.pending /\ SameConfiguration(tk, u)
               /\ Logged(u, log) /\ Backed(u, log, S)
<1> DEFINE ops == {o \in tk.pending : IsQuorumMet(tk, o.acked)}
<1>1. \A o \in ops : IsQuorumMet(tk, o.acked) /\ o.acked \subseteq AckedBy(o.lsn, log)
  BY DEF Logged
<1> HIDE DEF ops
<1> DEFINE u == CommitOps(tk, ops)
<1>2. u.pending \subseteq tk.pending /\ SameConfiguration(tk, u) /\ Backed(u, log, S)
  BY <1>1, CommitOpsBacked
<1>3. TryCommitPending(tk) = u
  BY DEF TryCommitPending, ops
<1> HIDE DEF u
<1>4. Logged(u, log)
  BY <1>2 DEF Logged
<1> QED
  BY <1>2, <1>3, <1>4

\* notify_catch_up_waiters acknowledges no write.
LEMMA NotifyBacked ==
    ASSUME NEW tk \in Tracker, NEW log, NEW S
    PROVE  LET u == NotifyCatchUpWaiters(tk)
           IN  /\ u.pending = tk.pending /\ SameConfiguration(tk, u)
               /\ Backed(tk, log, S) => Backed(u, log, S)
BY AnswerWaitersBacked DEF NotifyCatchUpWaiters

\* expire_due acknowledges no write and adds no operation.
LEMMA ExpireDueBacked ==
    ASSUME NEW tk, NEW C, Sound(tk, C), NEW S, NoneOk(tk, S)
    PROVE  ExpireDue(tk).pending \subseteq tk.pending /\ NoneOk(ExpireDue(tk), S)
<1> DEFINE due == {o \in tk.pending : o.ttl = 0}
           v == AnswerOps(tk, due, "NoWriteQuorum")
           e == ExpireOps(tk)
<1>1. tk \in Tracker /\ e \in Tracker
  BY ExpireOpsSound DEF Sound
<1>2. v.pending \subseteq tk.pending /\ NoneOk(v, S)
  BY <1>1, RefuseOps
<1>3. e.pending = v.pending /\ e.answers = v.answers
  BY <1>1 DEF ExpireOps, AnswerOps, Tracker
<1> HIDE DEF v, e
<1>4. e.pending \subseteq tk.pending /\ NoneOk(e, S)
  BY <1>2, <1>3 DEF NoneOk
<1> DEFINE refused == {w \in e.waiters : e.failed \/ w.ttl = 0}
           caught  == {w \in e.waiters \ refused : IsCaughtUp(e, w.mode)}
           f == AnswerWaiters(e, refused, "NoWriteQuorum")
           g == AnswerWaiters(f, caught, "Ok")
<1>5. f.pending = e.pending /\ NoneOk(f, S)
  BY <1>1, <1>4, AnswerWaitersBacked
<1>6. f \in Tracker
  <2>1. refused \in SUBSET e.waiters
    OBVIOUS
  <2>2. Sound(e, C)
    BY ExpireOpsSound DEF e
  <2> QED
    BY <2>1, <2>2, AnswerWaitersSound DEF Result, Sound
<1>7. g.pending = f.pending /\ NoneOk(g, S)
  <2> HIDE DEF f, caught
  <2> QED
    BY <1>5, <1>6, AnswerWaitersBacked
<1>8. ExpireDue(tk) = g
  BY DEF ExpireDue, ExpireWaiters, e
<1> QED
  BY <1>4, <1>5, <1>7, <1>8

-----------------------------------------------------------------------------
(* Public methods of the tracker.                                          *)

\* The end of both configuration updates: commit what the configuration just
\* installed allows, then look at the catch-up waiters.
LEMMA CommitAndNotifyBacked ==
    ASSUME NEW tk, NEW C, Sound(tk, C), NEW log, NEW S, Logged(tk, log), Backed(tk, log, S)
    PROVE  LET u == NotifyCatchUpWaiters(TryCommitPending(tk))
           IN  Logged(u, log) /\ Backed(u, log, S)
<1> DEFINE v == TryCommitPending(tk)
           u == NotifyCatchUpWaiters(v)
<1>1. tk \in Tracker /\ v \in Tracker
  BY TryCommitPendingSound DEF Sound
<1>2. Logged(v, log) /\ Backed(v, log, S)
  BY <1>1, TryCommitBacked
<1> HIDE DEF v
<1>3. u.pending = v.pending /\ Backed(u, log, S)
  BY <1>1, <1>2, NotifyBacked
<1> HIDE DEF u
<1>4. Logged(u, log)
  BY <1>2, <1>3 DEF Logged
<1> QED
  BY <1>3, <1>4 DEF u, v

\* A configuration is installed on a tracker that has acknowledged no write
\* since S, so no acknowledgement is judged by two configurations.
LEMMA InstallBacked ==
    ASSUME NEW tk, NEW C, Sound(tk, C), NEW log, NEW S, Logged(tk, log), S = tk.answers,
           NEW w, Sound(w, C), w.pending = ExpireDue(tk).pending,
           w.answers = ExpireDue(tk).answers
    PROVE  Logged(w, log) /\ Backed(w, log, S)
<1>1. NoneOk(tk, S)
  BY DEF NoneOk
<1>2. ExpireDue(tk).pending \subseteq tk.pending /\ NoneOk(ExpireDue(tk), S)
  BY <1>1, ExpireDueBacked
<1>3. Logged(w, log)
  BY <1>2 DEF Logged
<1>4. Backed(w, log, S)
  BY <1>2 DEF NoneOk, Backed
<1> QED
  BY <1>3, <1>4

\* set_catch_up_configuration
LEMMA SetCatchUpBacked ==
    ASSUME NEW tk, NEW C, Sound(tk, C),
           NEW current \in Configuration, NEW previous \in Configuration,
           NEW must \in SUBSET Replica, NEW progress \in [Replica -> Nat],
           \A r \in Replica : progress[r] <= tk.highest,
           NEW log, Logged(tk, log)
    PROVE  LET u == SetCatchUpConfiguration(tk, current, previous, must, progress)
           IN  Logged(u, log) /\ Backed(u, log, tk.answers)
<1> DEFINE v == ExpireDue(tk)
           w == InstallCatchUp(v, current, previous, must, progress)
<1>1. Sound(v, C) /\ v \in Tracker /\ \A r \in Replica : progress[r] <= v.highest
  BY ExpireDueSound DEF Settles, Sound
<1> HIDE DEF v
<1>2. Sound(w, C)
  BY <1>1, InstallCatchUpSound
<1>3. w.pending = v.pending /\ w.answers = v.answers
  BY <1>1 DEF InstallCatchUp, BeginAttempt, Tracker
<1> HIDE DEF w
<1>4. Logged(w, log) /\ Backed(w, log, tk.answers)
  BY <1>2, <1>3, InstallBacked DEF v
<1> DEFINE u == NotifyCatchUpWaiters(TryCommitPending(w))
<1>5. Logged(u, log) /\ Backed(u, log, tk.answers)
  BY <1>2, <1>4, CommitAndNotifyBacked
<1> QED
  BY <1>5 DEF SetCatchUpConfiguration, w, v

\* set_current_configuration
LEMMA SetCurrentBacked ==
    ASSUME NEW tk, NEW C, Sound(tk, C), NEW current \in Configuration,
           NEW log, Logged(tk, log)
    PROVE  LET u == SetCurrentConfiguration(tk, current)
           IN  Logged(u, log) /\ Backed(u, log, tk.answers)
<1> DEFINE v == ExpireDue(tk)
           w == InstallCurrent(v, current)
<1>1. Sound(v, C) /\ v \in Tracker
  BY ExpireDueSound DEF Sound
<1> HIDE DEF v
<1>2. NoConfiguration \in Configuration
  BY DEF NoConfiguration, Configuration
<1>3. Sound(w, C)
  BY <1>1, <1>2 DEF InstallCurrent, Sound, Accounted, Ordered, Tracker
<1>4. w.pending = v.pending /\ w.answers = v.answers
  BY <1>1 DEF InstallCurrent, Tracker
<1> HIDE DEF w
<1>5. Logged(w, log) /\ Backed(w, log, tk.answers)
  BY <1>3, <1>4, InstallBacked DEF v
<1> DEFINE u == NotifyCatchUpWaiters(TryCommitPending(w))
<1>6. Logged(u, log) /\ Backed(u, log, tk.answers)
  BY <1>3, <1>5, CommitAndNotifyBacked
<1> QED
  BY <1>6 DEF SetCurrentConfiguration, w, v

\* register: the primary's own acknowledgement is in the log.
LEMMA RegisterBacked ==
    ASSUME NEW tk, NEW C, Sound(tk, C), NEW lsn \in Nat, lsn > tk.highest,
           NEW primary \in Replica, NEW call \in Nat, call \notin C,
           NEW log, Logged(tk, log)
    PROVE  LET u == Register(tk, lsn, primary, call)
               L == log \cup {<<lsn, primary>>}
           IN  Logged(u, L) /\ Backed(u, L, tk.answers)
<1> DEFINE h == [tk EXCEPT !.highest = Larger(@, lsn)]
           seen == RaiseAck(h, primary, lsn)
           op == [lsn |-> lsn, call |-> call, acked |-> {primary}, ttl |-> QuorumTimeout]
           L == log \cup {<<lsn, primary>>}
<1>1. seen \in Tracker /\ seen.pending = tk.pending /\ seen.answers = tk.answers
  <2>1. Larger(tk.highest, lsn) = lsn
    BY DEF Larger, Sound, Tracker
  <2>2. h \in Tracker /\ h.pending = tk.pending /\ h.answers = tk.answers
    BY <2>1 DEF Sound, Tracker
  <2> HIDE DEF h
  <2>3. Larger(h.ackedLsn[primary], lsn) \in Nat
    BY <2>2 DEF Tracker, Larger
  <2> QED
    BY <2>2, <2>3 DEF RaiseAck, Tracker
<1> HIDE DEF seen
<1>2. \A o \in tk.pending : o.acked \subseteq AckedBy(o.lsn, L)
  BY DEF Logged, AckedBy
<1>3. op.acked \subseteq AckedBy(op.lsn, L)
  BY DEF AckedBy
<1>4. Backed(seen, L, tk.answers)
  BY <1>1 DEF Backed
<1> HIDE DEF op, L
<1>5. CASE Register(tk, lsn, primary, call) = InsertPending(seen, op)
  <2> DEFINE u == InsertPending(seen, op)
  <2>1. u.pending \subseteq tk.pending \cup {op} /\ u.answers = tk.answers
    BY <1>1 DEF InsertPending, Tracker
  <2> HIDE DEF u
  <2>2. Logged(u, L)
    BY <1>2, <1>3, <2>1 DEF Logged
  <2>3. Backed(u, L, tk.answers)
    BY <2>1 DEF Backed
  <2> QED
    BY <1>5, <2>2, <2>3 DEF u, L
<1>6. CASE /\ IsQuorumMet(seen, op.acked)
           /\ Register(tk, lsn, primary, call) = NotifyCatchUpWaiters(CommitOps(seen, {op}))
  <2> DEFINE v == CommitOps(seen, {op})
             u == NotifyCatchUpWaiters(v)
  <2>1. v.pending \subseteq seen.pending /\ Backed(v, L, tk.answers)
    BY <1>1, <1>3, <1>4, <1>6, CommitOpsBacked
  <2>2. v \in Tracker
    <3>1. {op} \in SUBSET PendingOp
      BY QuorumTimeoutAssumption DEF op, PendingOp
    <3>2. OpAnswers({op}, "Ok") \in SUBSET Answer /\ {o.lsn : o \in {op}} \in SUBSET Nat
      BY <3>1, AnswersType DEF Result, PendingOp
    <3> QED
      BY <1>1, <3>2 DEF CommitOps, AnswerOps, Tracker
  <2> HIDE DEF v
  <2>3. u.pending = v.pending /\ Backed(u, L, tk.answers)
    BY <2>1, <2>2, NotifyBacked
  <2> HIDE DEF u
  <2>4. Logged(u, L)
    BY <1>1, <1>2, <2>1, <2>3 DEF Logged
  <2> QED
    BY <1>6, <2>3, <2>4 DEF u, v, L
<1> QED
  BY <1>5, <1>6 DEF Register, seen, h, op

\* ack after its expire_due: the acknowledgement it counts is in the log.
LEMMA RecordAckBacked ==
    ASSUME NEW tk, NEW C, Sound(tk, C), NEW lsn \in Nat, lsn <= tk.highest, NEW r \in Replica,
           NEW log, NEW S, Logged(tk, log), NoneOk(tk, S)
    PROVE  LET u == RecordAck(tk, lsn, r)
               L == log \cup {<<lsn, r>>}
           IN  Logged(u, L) /\ Backed(u, L, S)
<1> DEFINE seen   == RaiseAck(tk, r, lsn)
           marked == MarkAcked(seen, lsn, r)
           op     == {o \in marked.pending : o.lsn = lsn}
           L      == log \cup {<<lsn, r>>}
<1>1. Sound(seen, C) /\ seen.pending = tk.pending /\ seen.answers = tk.answers
  <2>1. Sound(seen, C) /\ seen.pending = tk.pending
    BY RaiseAckSound
  <2>2. seen.answers = tk.answers
    BY DEF RaiseAck, Sound, Tracker
  <2> QED
    BY <2>1, <2>2
<1> HIDE DEF seen
<1>2. Sound(marked, C)
  BY <1>1, MarkAckedSound
<1>3. marked.answers = tk.answers
  BY <1>1 DEF MarkAcked, Sound, Tracker
<1>4. Logged(marked, L)
  <2> SUFFICES ASSUME NEW p \in marked.pending
               PROVE  p.acked \subseteq AckedBy(p.lsn, L)
    BY DEF Logged
  <2>1. marked.pending =
          {IF o.lsn = lsn THEN [o EXCEPT !.acked = @ \cup {r}] ELSE o : o \in seen.pending}
    BY <1>1 DEF MarkAcked, Sound, Tracker
  <2>2. PICK o \in seen.pending :
           p = IF o.lsn = lsn THEN [o EXCEPT !.acked = @ \cup {r}] ELSE o
    BY <2>1
  <2>3. o \in PendingOp /\ o.acked \subseteq AckedBy(o.lsn, log)
    BY <1>1 DEF Logged, Sound, Tracker
  <2>4. p.lsn = o.lsn /\ p.acked \subseteq o.acked \cup {r} /\ (o.lsn # lsn => p = o)
    BY <2>2, <2>3 DEF PendingOp
  <2> QED
    BY <2>3, <2>4 DEF AckedBy
<1>5. Logged(seen, L) /\ Backed(seen, L, S) /\ Backed(marked, L, S)
  <2>1. Logged(seen, L)
    BY <1>1 DEF Logged, AckedBy
  <2>2. Backed(seen, L, S) /\ Backed(marked, L, S)
    BY <1>1, <1>3 DEF NoneOk, Backed
  <2> QED
    BY <2>1, <2>2
<1> HIDE DEF marked, L
<1>6. CASE RecordAck(tk, lsn, r) = NotifyCatchUpWaiters(seen)
  <2> DEFINE u == NotifyCatchUpWaiters(seen)
  <2>1. u.pending = seen.pending /\ Backed(u, L, S)
    BY <1>1, <1>5, NotifyBacked DEF Sound
  <2> HIDE DEF u
  <2>2. Logged(u, L)
    BY <1>5, <2>1 DEF Logged
  <2> QED
    BY <1>6, <2>1, <2>2 DEF u, L
<1>7. CASE RecordAck(tk, lsn, r) = marked
  BY <1>4, <1>5, <1>7 DEF L
<1>8. CASE /\ \E o \in op : IsQuorumMet(marked, o.acked)
           /\ RecordAck(tk, lsn, r) = NotifyCatchUpWaiters(TryCommitPending(CommitOps(marked, op)))
  <2> DEFINE v == CommitOps(marked, op)
             u == NotifyCatchUpWaiters(TryCommitPending(v))
  <2>1. \A o, p \in op : o = p
    BY <1>2 DEF Sound, Accounted
  <2>2. \A o \in op : IsQuorumMet(marked, o.acked) /\ o.acked \subseteq AckedBy(o.lsn, L)
    BY <1>4, <1>8, <2>1 DEF Logged
  <2>3. op \in SUBSET marked.pending
    OBVIOUS
  <2> HIDE DEF op
  <2>4. v.pending \subseteq marked.pending /\ Backed(v, L, S)
    BY <1>2, <1>5, <2>2, CommitOpsBacked DEF Sound
  <2>5. Sound(v, C)
    BY <1>2, <2>3, CommitOpsSound
  <2> HIDE DEF v
  <2>6. Logged(v, L)
    BY <1>4, <2>4 DEF Logged
  <2>7. Logged(u, L) /\ Backed(u, L, S)
    BY <2>4, <2>5, <2>6, CommitAndNotifyBacked
  <2> QED
    BY <1>8, <2>7 DEF u, v, L
<1> QED
  BY <1>6, <1>7, <1>8 DEF RecordAck, seen, marked, op

\* fail_all acknowledges no write.
LEMMA FailAllNone ==
    ASSUME NEW tk, NEW C, Sound(tk, C), NEW res \in Result, res # "Ok"
    PROVE  FailAll(tk, res).pending = {} /\ NoneOk(FailAll(tk, res), tk.answers)
<1> DEFINE v == AnswerOps(tk, tk.pending, res)
           w == AnswerWaiters(v, tk.waiters, res)
<1>1. tk \in Tracker /\ NoneOk(tk, tk.answers)
  BY DEF Sound, NoneOk
<1>2. NoneOk(v, tk.answers)
  BY <1>1, RefuseOps
<1>3. v \in Tracker
  BY AnswerOpsSound DEF Sound
<1> HIDE DEF v
<1>4. NoneOk(w, tk.answers) /\ w \in [pending : SUBSET PendingOp, cur : Configuration,
           prev : Configuration, mustCatchUp : SUBSET Replica, ackedLsn : [Replica -> Nat],
           commits : SUBSET Nat, highest : Nat, baseline : Nat,
           waiters : SUBSET CatchUpWaiter, failed : BOOLEAN, active : BOOLEAN,
           answers : SUBSET Answer]
  <2>1. NoneOk(w, tk.answers)
    BY <1>2, <1>3, AnswerWaitersBacked
  <2>2. WaiterAnswers(tk.waiters, res) \in SUBSET Answer
    BY <1>1 DEF WaiterAnswers, Answer, Tracker, CatchUpWaiter
  <2> QED
    BY <1>3, <2>1, <2>2 DEF AnswerWaiters, Tracker
<1> HIDE DEF w
<1>5. FailAll(tk, res) = [w EXCEPT !.active = FALSE, !.failed = FALSE]
  BY DEF FailAll, w, v
<1>6. FailAll(tk, res).answers = w.answers
  BY <1>4, <1>5
<1> QED
  BY <1>4, <1>6, FailAllSound DEF NoneOk

-----------------------------------------------------------------------------
(* The actor.                                                              *)

\* The second inductive invariant.  A promotion clears the log, so an actor
\* that is not primary must hold no operation.
AckInv ==
    /\ Logged(t, ackLog)
    /\ role # "Primary" => t.pending = {}

\* A step that keeps a part of the pending operations and acknowledges nothing.
LEMMA QuietStep ==
    ASSUME AckInv, t'.pending \subseteq t.pending, NoneOk(t', t.answers),
           ackLog' = ackLog, role' = role \/ t'.pending = {}
    PROVE  AckInv' /\ Backed(t', ackLog', t.answers)
BY DEF AckInv, Logged, NoneOk, Backed

\* Answers of catch-up calls and refused requests are no acknowledgements.
LEMMA WaitNone ==
    ASSUME NEW tk, NEW C, Sound(tk, C), NEW call, NEW id, NEW mode
    PROVE  /\ NoneOk(WaitForCatchUp(tk, call, id, mode), tk.answers)
           /\ WaitForCatchUp(tk, call, id, mode).pending = tk.pending
<1> DEFINE w == [call |-> call, id |-> id, mode |-> mode, ttl |-> QuorumTimeout]
           v == IF id = "none" THEN tk ELSE CancelCatchUpWait(tk, id)
           u == AddWaiter(v, w)
<1>1. tk \in Tracker /\ NoneOk(tk, tk.answers)
  BY DEF Sound, NoneOk
<1>2. NoneOk(v, tk.answers) /\ v \in Tracker /\ v.pending = tk.pending
  <2>1. NoneOk(CancelCatchUpWait(tk, id), tk.answers)
    BY <1>1, AnswerWaitersBacked DEF CancelCatchUpWait
  <2>2. CancelCatchUpWait(tk, id) \in Tracker /\ CancelCatchUpWait(tk, id).pending = tk.pending
    BY CancelCatchUpWaitSound DEF Sound
  <2> QED
    BY <1>1, <2>1, <2>2
<1> HIDE DEF v, w
<1>3. /\ u.pending = v.pending
      /\ u.answers \subseteq v.answers \cup WaiterAnswers({w}, "NoWriteQuorum")
                                       \cup WaiterAnswers({w}, "Ok")
  BY <1>2 DEF AddWaiter, Tracker
<1>4. \A res : \A a \in WaiterAnswers({w}, res) : ~WriteOk(a)
  BY DEF WaiterAnswers, WriteOk
<1> HIDE DEF u
<1>5. NoneOk(u, tk.answers)
  BY <1>2, <1>3, <1>4 DEF NoneOk
<1> QED
  BY <1>2, <1>3, <1>5 DEF WaitForCatchUp, u, v, w

\* Every step keeps the second invariant and backs what it acknowledges.
LEMMA AckStep ==
    ASSUME IInv, AckInv, [Next]_vars
    PROVE  AckInv' /\ Backed(t', ackLog', t.answers)
<1> DEFINE C == 1..calls
<1>1. /\ Sound(t, C) /\ t \in Tracker /\ ActorTypeOK /\ ActorOrdered /\ calls \in Nat
      /\ calls + 1 \in Nat /\ calls + 1 \notin C /\ t.highest \in Nat /\ nextLsn \in Nat
  <2>1. Sound(t, C) /\ ActorTypeOK /\ ActorOrdered
    BY DEF IInv
  <2>2. calls \in Nat /\ nextLsn \in Nat
    BY <2>1 DEF ActorTypeOK
  <2>3. t \in Tracker
    BY <2>1 DEF Sound
  <2>4. t.highest \in Nat
    BY <2>3 DEF Tracker
  <2>5. calls + 1 \in Nat /\ calls + 1 \notin C
    BY <2>2, NextCall
  <2> QED
    BY <2>1, <2>2, <2>3, <2>4, <2>5
<1> HIDE DEF C
<1>2. NoneOk(t, t.answers)
  BY DEF NoneOk
<1>3. CASE UNCHANGED t /\ UNCHANGED ackLog /\ UNCHANGED role
  BY <1>2, <1>3, QuietStep
<1>4. CASE Open
  BY <1>4 DEF Open, AckInv, Logged, Backed, histVars
<1>5. CASE ReceiveItem \/ RemoveReplica \/ StreamBreaks \/ SchedulerWoken \/ UNCHANGED vars
  BY <1>3, <1>5 DEF ReceiveItem, RemoveReplica, StreamBreaks, SchedulerWoken, vars,
                    actorVars, histVars
<1>6. CASE Promote
  <2>1. t' = SeedProgress(t, ps.progress, ps.committed) /\ t.pending = {}
    BY <1>6 DEF Promote, AckInv
  <2>2. t'.answers = t.answers /\ t'.pending = {}
    BY <1>1, <2>1 DEF SeedProgress, Tracker
  <2> QED
    BY <2>2 DEF AckInv, Logged, Backed
<1>7. ASSUME NEW res \in Result, res # "Ok", t' = FailAll(t, res), ackLog' = ackLog
      PROVE  AckInv' /\ Backed(t', ackLog', t.answers)
  <2>1. t'.pending = {} /\ NoneOk(t', t.answers)
    BY <1>1, <1>7, FailAllNone
  <2> QED
    BY <1>7, <2>1, QuietStep
<1>8. CASE Demote
  BY <1>7, <1>8 DEF Demote, Result, histVars
<1>9. CASE Close
  BY <1>7, <1>9 DEF Close, Result, histVars
<1>10. CASE OnDataLoss
  <2>1. PICK lsn \in 0..ps.progress : t' = ResetProgressAfterDataLoss(t, lsn, lsn)
    BY <1>10 DEF OnDataLoss
  <2> DEFINE v == FailAll(t, "Internal")
  <2>2. v.pending = {} /\ NoneOk(v, t.answers) /\ v \in Tracker
    BY <1>1, FailAllNone, FailAllSound DEF Result, Sound
  <2>3. t' = [v EXCEPT !.highest = lsn, !.commits = {lsn}, !.baseline = lsn,
                       !.ackedLsn = [r \in Replica |-> 0]]
    BY <2>1 DEF ResetProgressAfterDataLoss
  <2> HIDE DEF v
  <2>4. t'.pending = {} /\ t'.answers = v.answers
    BY <2>2, <2>3 DEF Tracker
  <2>5. NoneOk(t', t.answers)
    BY <2>2, <2>4 DEF NoneOk
  <2>6. ackLog' = ackLog
    BY <1>10 DEF OnDataLoss, histVars
  <2> QED
    BY <2>4, <2>5, <2>6, QuietStep
<1>11. CASE CancelCatchUpQuorumWait
  <2>1. t' = CancelCatchUpWait(t, "tracked") /\ ackLog' = ackLog /\ role' = role
    BY <1>11 DEF CancelCatchUpQuorumWait, actorVars, histVars
  <2>2. t'.pending = t.pending
    BY <1>1, <2>1, CancelCatchUpWaitSound
  <2>3. NoneOk(t', t.answers)
    BY <1>1, <1>2, <2>1, AnswerWaitersBacked DEF CancelCatchUpWait
  <2> QED
    BY <2>1, <2>2, <2>3, QuietStep
<1>12. CASE WaitForCatchUpQuorum
  <2>1. PICK id \in WaitId, mode \in Mode : t' = WaitForCatchUp(t, calls + 1, id, mode)
    BY <1>12 DEF WaitForCatchUpQuorum
  <2>2. NoneOk(t', t.answers) /\ t'.pending = t.pending
    BY <1>1, <2>1, WaitNone
  <2>3. ackLog' = ackLog /\ role' = role
    BY <1>12 DEF WaitForCatchUpQuorum, actorVars, histVars
  <2> QED
    BY <2>2, <2>3, QuietStep
<1>13. CASE RejectReplicate
  <2> DEFINE a == [call |-> calls + 1, lsn |-> 0, result |-> "NotPrimary"]
  <2>1. t' = [t EXCEPT !.answers = @ \cup {a}] /\ ackLog' = ackLog /\ role' = role
    BY <1>13 DEF RejectReplicate, actorVars, histVars
  <2>2. ~WriteOk(a)
    BY DEF WriteOk
  <2> HIDE DEF a
  <2>3. t'.pending = t.pending /\ t'.answers = t.answers \cup {a}
    BY <1>1, <2>1 DEF Tracker
  <2>4. NoneOk(t', t.answers)
    BY <2>2, <2>3 DEF NoneOk
  <2> QED
    BY <2>1, <2>3, <2>4, QuietStep
<1>14. CASE SchedulerCheck \/ SchedulerTimeout
  <2>1. t' = ExpireDue(t) /\ ackLog' = ackLog /\ role' = role
    BY <1>14 DEF SchedulerCheck, SchedulerTimeout, actorVars, histVars
  <2>2. t'.pending \subseteq t.pending /\ NoneOk(t', t.answers)
    BY <1>1, <1>2, <2>1, ExpireDueBacked
  <2> QED
    BY <2>1, <2>2, QuietStep
<1>15. CASE Tick
  <2> DEFINE Less(n) == IF n = 0 THEN 0 ELSE n - 1
             P == {[o EXCEPT !.ttl = Less(@)] : o \in t.pending}
  <2>1. t' = Elapse(t) /\ ackLog' = ackLog /\ role' = role
    BY <1>15 DEF Tick, actorVars, histVars
  <2>2. t'.answers = t.answers
    BY <1>1, <2>1, ElapseSound
  <2>3. t'.pending = P
    BY <1>1, <2>1 DEF Elapse, Tracker
  <2>4. \A o \in t.pending : LET p == [o EXCEPT !.ttl = Less(@)]
                             IN  p.acked = o.acked /\ p.lsn = o.lsn
    BY <1>1 DEF Tracker, PendingOp
  <2>5. \A p \in P : \E o \in t.pending : p.acked = o.acked /\ p.lsn = o.lsn
    BY <2>4
  <2> HIDE DEF P
  <2>6. Logged(t', ackLog')
    BY <2>1, <2>3, <2>5 DEF AckInv, Logged
  <2>7. t.pending = {} => t'.pending = {}
    BY <2>3, <2>5
  <2> QED
    BY <2>1, <2>2, <2>6, <2>7 DEF AckInv, Backed
<1>16. CASE Replicate
  <2>1. /\ nextLsn > t.highest /\ t' = Register(t, nextLsn, Self, calls + 1)
        /\ ackLog' = ackLog \cup {<<nextLsn, Self>>} /\ role' = "Primary"
    BY <1>1, <1>16 DEF Replicate, ActorOrdered
  <2>2. Logged(t, ackLog)
    BY DEF AckInv
  <2>3. Logged(t', ackLog') /\ Backed(t', ackLog', t.answers)
    BY <1>1, <2>1, <2>2, SelfAssumption, RegisterBacked
  <2> QED
    BY <2>1, <2>3 DEF AckInv
<1>17. CASE ReceiveAck
  <2>1. PICK m \in owed : /\ t' = Ack(t, m[2], m[1])
                          /\ ackLog' = ackLog \cup {<<m[2], m[1]>>}
    BY <1>17 DEF ReceiveAck
  <2>2. m[1] \in Replica /\ m[2] \in Nat /\ m[2] <= t.highest /\ role' = "Primary"
    BY <1>1, <1>17 DEF ActorTypeOK, ActorOrdered, ReceiveAck
  <2> DEFINE e == ExpireDue(t)
  <2>3. Sound(e, C) /\ m[2] <= e.highest
    BY <1>1, <2>2, ExpireDueSound DEF Settles
  <2>4. e.pending \subseteq t.pending /\ NoneOk(e, t.answers)
    BY <1>1, <1>2, ExpireDueBacked
  <2> HIDE DEF e
  <2>5. Logged(e, ackLog)
    BY <2>4 DEF AckInv, Logged
  <2>6. t' = RecordAck(e, m[2], m[1])
    BY <2>1 DEF Ack, e
  <2>7. Logged(t', ackLog') /\ Backed(t', ackLog', t.answers)
    <3> DEFINE lsn == m[2]
               r   == m[1]
               u   == RecordAck(e, lsn, r)
               L   == ackLog \cup {<<lsn, r>>}
    <3>1. lsn \in Nat /\ lsn <= e.highest /\ r \in Replica
      BY <2>2, <2>3
    <3>2. t' = u /\ ackLog' = L
      BY <2>1, <2>6
    <3> HIDE DEF lsn, r
    <3>3. Logged(u, L) /\ Backed(u, L, t.answers)
      BY <2>3, <2>4, <2>5, <3>1, RecordAckBacked
    <3> QED
      BY <3>2, <3>3
  <2> QED
    BY <2>2, <2>7 DEF AckInv
<1>18. \A current \in Configurations : current \in Configuration /\ current.members \in SUBSET Replica
  <2>1. ASSUME NEW S \in SUBSET Replica
        PROVE  [members |-> S, quorum |-> Majority(S)] \in Configuration
    BY MajorityType
  <2> QED
    BY <2>1 DEF Configurations
<1>19. CASE UpdateCurrentConfiguration
  <2>1. PICK current \in Configurations : t' = SetCurrentConfiguration(t, current)
    BY <1>19 DEF UpdateCurrentConfiguration
  <2>2. ackLog' = ackLog /\ role' = "Primary" /\ Logged(t, ackLog)
    BY <1>19 DEF UpdateCurrentConfiguration, histVars, AckInv
  <2>3. Logged(t', ackLog') /\ Backed(t', ackLog', t.answers)
    BY <1>1, <1>18, <2>1, <2>2, SetCurrentBacked
  <2> QED
    BY <2>2, <2>3 DEF AckInv
<1>20. CASE UpdateCatchUpConfiguration
  <2>1. PICK current \in Configurations, previous \in PreviousConfigurations :
        \E must \in {S \in SUBSET (current.members \ {Self}) : Cardinality(S) <= 1},
           fresh \in SUBSET (current.members \ (conns \cup {Self})),
           reported \in {0, ps.progress}, boundary \in 0..ps.committed :
           LET progress == [r \in Replica |-> IF r \in must THEN boundary
                                              ELSE IF r \in current.members THEN reported ELSE 0]
               next     == SetCatchUpConfiguration(t, current, previous, must, progress)
           IN  /\ t' = next
               /\ ps' = AdvanceCommitted(ps, next)
               /\ conns' = conns \cup fresh
               /\ live' = live \cup fresh
               /\ owed' = owed \cup (fresh \X {l \in queue : l > boundary})
               /\ settled' = IF t.active THEN settled ELSE next.answers
    BY <1>20 DEF UpdateCatchUpConfiguration
  <2>2. PICK must \in {S \in SUBSET (current.members \ {Self}) : Cardinality(S) <= 1},
             fresh \in SUBSET (current.members \ (conns \cup {Self})),
             reported \in {0, ps.progress}, boundary \in 0..ps.committed :
           LET progress == [r \in Replica |-> IF r \in must THEN boundary
                                              ELSE IF r \in current.members THEN reported ELSE 0]
               next     == SetCatchUpConfiguration(t, current, previous, must, progress)
           IN  /\ t' = next
               /\ ps' = AdvanceCommitted(ps, next)
               /\ conns' = conns \cup fresh
               /\ live' = live \cup fresh
               /\ owed' = owed \cup (fresh \X {l \in queue : l > boundary})
               /\ settled' = IF t.active THEN settled ELSE next.answers
    BY <2>1
  <2> DEFINE progress == [r \in Replica |-> IF r \in must THEN boundary
                                            ELSE IF r \in current.members THEN reported ELSE 0]
  <2>3. previous \in Configuration
    <3>1. NoConfiguration \in Configuration /\ t.cur \in Configuration
      BY <1>1 DEF NoConfiguration, Configuration, Tracker
    <3>2. [members |-> Replica, quorum |-> Majority(Replica)] \in Configuration
      BY MajorityType
    <3> QED
      BY <3>1, <3>2 DEF PreviousConfigurations
  <2>4. current \in Configuration /\ must \in SUBSET Replica
    BY <1>18
  <2>5. role = "Primary" /\ ps.progress <= t.highest
    BY <1>1, <1>20 DEF UpdateCatchUpConfiguration, ActorOrdered
  <2>6. progress \in [Replica -> Nat] /\ \A r \in Replica : progress[r] <= t.highest
    BY <1>1, <2>5 DEF ActorTypeOK, ActorOrdered
  <2>7. t' = SetCatchUpConfiguration(t, current, previous, must, progress)
    BY <2>2
  <2> HIDE DEF progress
  <2>8. ackLog' = ackLog /\ role' = "Primary" /\ Logged(t, ackLog)
    BY <1>20 DEF UpdateCatchUpConfiguration, AckInv
  <2>9. Logged(t', ackLog') /\ Backed(t', ackLog', t.answers)
    BY <1>1, <2>3, <2>4, <2>6, <2>7, <2>8, SetCatchUpBacked
  <2> QED
    BY <2>8, <2>9 DEF AckInv
<1> QED
  BY <1>4, <1>5, <1>6, <1>8, <1>9, <1>10, <1>11, <1>12, <1>13, <1>14, <1>15, <1>16, <1>17,
     <1>19, <1>20 DEF Next, Scheduler

\* A write is acknowledged to its caller only when the acknowledgements
\* processed since the promotion reach the write quorum of the current and of
\* the previous configuration (is_quorum_met, ack, try_commit_pending).
THEOREM OkNeedsBothQuorums ==
    Spec => OkHasBothQuorums
<1>1. Init => AckInv
  BY DEF Init, AckInv, Logged, NewTracker
<1>2. ASSUME IInv, AckInv, [Next]_vars
      PROVE  /\ AckInv'
             /\ [\A a \in NewAnswers : a.result = "Ok" /\ a.lsn # 0 =>
                   /\ t'.cur.quorum # 0
                   /\ CountReached(AckedBy(a.lsn, ackLog'), t'.cur)
                   /\ t'.prev.members # {} =>
                         CountReached(AckedBy(a.lsn, ackLog'), t'.prev)]_vars
  <2>1. AckInv' /\ Backed(t', ackLog', t.answers)
    BY <1>2, AckStep
  <2> QED
    BY <2>1 DEF Backed, NewAnswers, WriteOk, BothQuorums
<1> QED
  BY <1>1, <1>2, Invariant, PTL DEF Spec, OkHasBothQuorums

-----------------------------------------------------------------------------
(* A catch-up attempt that lost an operation does not succeed.             *)

Refusals(tk) == {a \in tk.answers : a.lsn # 0 /\ a.result = "NoWriteQuorum"}
WaitOks(tk) == {a \in tk.answers : a.lsn = 0 /\ a.result = "Ok"}
Positive(tk) == \A o \in tk.pending : o.lsn # 0

\* A call that refuses no operation and leaves the attempt as it is; it lets a
\* waiter succeed only if the attempt has not failed.
Calm(tk, u) ==
    /\ u \in Tracker /\ Positive(u)
    /\ u.active = tk.active /\ u.failed = tk.failed
    /\ Refusals(u) = Refusals(tk)
    /\ tk.failed => WaitOks(u) = WaitOks(tk)
    /\ tk.waiters = {} => u.waiters = {} /\ WaitOks(u) = WaitOks(tk)

\* A call that ends an attempt, or that remembers in it whether it refused an
\* operation.
Honest(tk, u) ==
    /\ Positive(u)
    /\ u.active => tk.active
    /\ tk.active /\ WaitOks(u) # WaitOks(tk) => ~tk.failed /\ Refusals(u) = Refusals(tk)
    /\ tk.active /\ u.active /\ ~u.failed => ~tk.failed /\ Refusals(u) = Refusals(tk)

LEMMA CalmTrans ==
    ASSUME NEW tk, NEW u, NEW v, Calm(tk, u), Calm(u, v)
    PROVE  Calm(tk, v)
BY DEF Calm

LEMMA CalmIsHonest ==
    ASSUME NEW tk, NEW u, Calm(tk, u)
    PROVE  Honest(tk, u)
BY DEF Calm, Honest

LEMMA WaitersCalm ==
    ASSUME NEW tk \in Tracker, Positive(tk), NEW ws \in SUBSET tk.waiters, NEW res \in Result,
           res = "Ok" => ~tk.failed \/ ws = {}
    PROVE  Calm(tk, AnswerWaiters(tk, ws, res))
<1> DEFINE u == AnswerWaiters(tk, ws, res)
<1>1. /\ u.active = tk.active /\ u.failed = tk.failed /\ u.pending = tk.pending
      /\ u.waiters = tk.waiters \ ws /\ u.answers = tk.answers \cup WaiterAnswers(ws, res)
  BY DEF AnswerWaiters, Tracker
<1>2. u \in Tracker
  <2>1. WaiterAnswers(ws, res) \in SUBSET Answer
    BY AnswersType DEF Tracker
  <2> QED
    BY <2>1 DEF AnswerWaiters, Tracker
<1>3. \A a \in WaiterAnswers(ws, res) : a.lsn = 0 /\ a.result = res
  BY DEF WaiterAnswers
<1>4. ws = {} => WaiterAnswers(ws, res) = {}
  BY DEF WaiterAnswers
<1> HIDE DEF u
<1>5. Refusals(u) = Refusals(tk)
  BY <1>1, <1>3 DEF Refusals
<1>6. tk.failed \/ ws = {} => WaitOks(u) = WaitOks(tk)
  BY <1>1, <1>3, <1>4 DEF WaitOks
<1> QED
  BY <1>1, <1>2, <1>5, <1>6 DEF Calm, Positive, u

LEMMA CommitCalm ==
    ASSUME NEW tk \in Tracker, Positive(tk), NEW ops \in SUBSET PendingOp, \A o \in ops : o.lsn # 0
    PROVE  Calm(tk, CommitOps(tk, ops))
<1> DEFINE u == CommitOps(tk, ops)
<1>1. /\ u.active = tk.active /\ u.failed = tk.failed /\ u.pending = tk.pending \ ops
      /\ u.waiters = tk.waiters /\ u.answers = tk.answers \cup OpAnswers(ops, "Ok")
  BY DEF CommitOps, AnswerOps, Tracker
<1>2. u \in Tracker
  <2>1. OpAnswers(ops, "Ok") \in SUBSET Answer
    BY AnswersType DEF Result
  <2>2. {o.lsn : o \in ops} \in SUBSET Nat
    BY DEF PendingOp
  <2> QED
    BY <2>1, <2>2 DEF CommitOps, AnswerOps, Tracker
<1>3. \A a \in OpAnswers(ops, "Ok") : a.lsn # 0 /\ a.result = "Ok"
  BY DEF OpAnswers
<1> HIDE DEF u
<1>4. Refusals(u) = Refusals(tk) /\ WaitOks(u) = WaitOks(tk)
  BY <1>1, <1>3 DEF Refusals, WaitOks
<1> QED
  BY <1>1, <1>2, <1>4 DEF Calm, Positive, u

LEMMA TryCommitCalm ==
    ASSUME NEW tk \in Tracker, Positive(tk)
    PROVE  Calm(tk, TryCommitPending(tk))
<1>1. {o \in tk.pending : IsQuorumMet(tk, o.acked)} \in SUBSET PendingOp
  BY DEF Tracker
<1> QED
  BY <1>1, CommitCalm DEF TryCommitPending, Positive

LEMMA NotifyCalm ==
    ASSUME NEW tk \in Tracker, Positive(tk)
    PROVE  Calm(tk, NotifyCatchUpWaiters(tk))
<1>1. CASE tk.failed
  BY <1>1, WaitersCalm DEF NotifyCatchUpWaiters, Result
<1>2. CASE ~tk.failed
  <2>1. {w \in tk.waiters : IsCaughtUp(tk, w.mode)} \in SUBSET tk.waiters
    OBVIOUS
  <2> QED
    BY <1>2, <2>1, WaitersCalm DEF NotifyCatchUpWaiters, Result
<1> QED
  BY <1>1, <1>2

LEMMA CommitAndNotifyCalm ==
    ASSUME NEW tk \in Tracker, Positive(tk)
    PROVE  Calm(tk, NotifyCatchUpWaiters(TryCommitPending(tk)))
<1>1. Calm(tk, TryCommitPending(tk))
  BY TryCommitCalm
<1>2. Calm(TryCommitPending(tk), NotifyCatchUpWaiters(TryCommitPending(tk)))
  BY <1>1, NotifyCalm DEF Calm
<1> QED
  BY <1>1, <1>2, CalmTrans

\* expire_due: an operation that is refused during an attempt fails it, and every
\* waiter of a failed attempt is refused.
LEMMA ExpireDueHonest ==
    ASSUME NEW tk, NEW C, Sound(tk, C), Positive(tk)
    PROVE  LET u == ExpireDue(tk)
           IN  /\ u \in Tracker /\ Positive(u) /\ u.active = tk.active
               /\ tk.failed => u.failed
               /\ tk.active /\ ~u.failed => Refusals(u) = Refusals(tk)
               /\ u.failed => u.waiters = {} /\ WaitOks(u) = WaitOks(tk)
<1> DEFINE due == {o \in tk.pending : o.ttl = 0}
           e == ExpireOps(tk)
<1>0. tk \in Tracker
  BY DEF Sound
<1>1. /\ e.pending = tk.pending \ due /\ e.waiters = tk.waiters /\ e.active = tk.active
      /\ e.answers = tk.answers \cup OpAnswers(due, "NoWriteQuorum")
      /\ e.failed = (tk.failed \/ (tk.active /\ due # {}))
  BY <1>0 DEF ExpireOps, AnswerOps, Tracker
<1>2. Sound(e, C)
  BY ExpireOpsSound
<1>3. /\ \A a \in OpAnswers(due, "NoWriteQuorum") : a.lsn # 0 /\ a.result = "NoWriteQuorum"
      /\ due = {} => OpAnswers(due, "NoWriteQuorum") = {}
  BY DEF OpAnswers, Positive
<1> HIDE DEF due, e
<1>4. /\ e \in Tracker /\ Positive(e) /\ (tk.failed => e.failed)
      /\ tk.active /\ ~e.failed => Refusals(e) = Refusals(tk)
      /\ WaitOks(e) = WaitOks(tk)
  BY <1>0, <1>1, <1>2, <1>3 DEF Sound, Positive, Refusals, WaitOks
<1> DEFINE refused == {w \in e.waiters : e.failed \/ w.ttl = 0}
           v == AnswerWaiters(e, refused, "NoWriteQuorum")
           caught == {w \in e.waiters \ refused : IsCaughtUp(e, w.mode)}
<1>5. Calm(e, v) /\ v.waiters = e.waiters \ refused
  <2>1. refused \in SUBSET e.waiters
    OBVIOUS
  <2>2. Calm(e, v)
    <3> HIDE DEF refused
    <3> QED
      BY <1>4, <2>1, WaitersCalm DEF Result
  <2> QED
    BY <1>4, <2>2 DEF AnswerWaiters, Tracker
<1>6. e.failed => refused = e.waiters
  OBVIOUS
<1>7. caught \in SUBSET (e.waiters \ refused)
  OBVIOUS
<1>8. ExpireDue(tk) = AnswerWaiters(v, caught, "Ok")
  BY DEF ExpireDue, ExpireWaiters, e
<1> HIDE DEF refused, caught, v
<1>9. CASE e.failed
  <2>1. v.waiters = {} /\ caught = {} /\ v \in Tracker /\ v.failed = e.failed
    BY <1>5, <1>6, <1>7, <1>9 DEF Calm
  <2>2. Calm(v, ExpireDue(tk))
    <3>1. Positive(v) /\ caught \in SUBSET v.waiters
      BY <1>5, <2>1 DEF Calm
    <3> QED
      BY <1>8, <2>1, <3>1, WaitersCalm DEF Result
  <2>3. Calm(e, ExpireDue(tk)) /\ ExpireDue(tk).waiters = {}
    <3>1. ExpireDue(tk).waiters = {}
      BY <2>1, <2>2 DEF Calm
    <3> QED
      BY <1>5, <2>2, <3>1, CalmTrans
  <2> QED
    BY <1>1, <1>4, <1>9, <2>3 DEF Calm
<1>10. CASE ~e.failed
  <2>1. v \in Tracker /\ Positive(v) /\ ~v.failed /\ caught \in SUBSET v.waiters
    BY <1>5, <1>7, <1>10 DEF Calm
  <2>2. Calm(v, ExpireDue(tk))
    BY <1>8, <2>1, WaitersCalm DEF Result
  <2>3. Calm(e, ExpireDue(tk))
    BY <1>5, <2>2, CalmTrans
  <2> QED
    BY <1>1, <1>4, <1>10, <2>3 DEF Calm
<1> QED
  BY <1>9, <1>10

\* What a call does after expire_due.
LEMMA AfterExpiry ==
    ASSUME NEW tk, NEW C, Sound(tk, C), Positive(tk), NEW u, Calm(ExpireDue(tk), u)
    PROVE  Honest(tk, u)
BY ExpireDueHonest DEF Calm, Honest

LEMMA SetCatchUpHonest ==
    ASSUME NEW tk, NEW C, Sound(tk, C), Positive(tk),
           NEW current \in Configuration, NEW previous \in Configuration,
           NEW must \in SUBSET Replica, NEW progress \in [Replica -> Nat],
           \A r \in Replica : progress[r] <= tk.highest
    PROVE  LET u == SetCatchUpConfiguration(tk, current, previous, must, progress)
           IN  Positive(u) /\ (tk.active => Honest(tk, u))
<1> DEFINE e == ExpireDue(tk)
           i == InstallCatchUp(e, current, previous, must, progress)
           u == NotifyCatchUpWaiters(TryCommitPending(i))
<1>1. /\ e \in Tracker /\ Positive(e) /\ e.active = tk.active /\ Sound(e, C)
      /\ e.highest = tk.highest
  BY ExpireDueHonest, ExpireDueSound DEF Settles
<1> HIDE DEF e
<1>2. i \in Tracker
  BY <1>1, InstallCatchUpSound DEF Sound
<1>3. i.pending = e.pending /\ i.answers = e.answers /\ i.waiters = e.waiters
  BY <1>1 DEF InstallCatchUp, BeginAttempt, Tracker
<1>4. e.active => i.active = e.active /\ i.failed = e.failed
  BY <1>1 DEF InstallCatchUp, BeginAttempt, Tracker
<1>5. u = SetCatchUpConfiguration(tk, current, previous, must, progress)
  BY DEF SetCatchUpConfiguration, e
<1> HIDE DEF i
<1>6. Positive(i) /\ (e.active => Calm(e, i))
  BY <1>1, <1>2, <1>3, <1>4 DEF Calm, Positive, Refusals, WaitOks
<1>7. Calm(i, u)
  BY <1>2, <1>6, CommitAndNotifyCalm
<1> HIDE DEF u
<1>8. tk.active => Calm(ExpireDue(tk), u)
  BY <1>1, <1>6, <1>7, CalmTrans DEF e
<1>9. tk.active => Honest(tk, u)
  BY <1>8, AfterExpiry
<1> QED
  BY <1>5, <1>7, <1>9 DEF Calm

\* set_current_configuration clears the mark of a failed attempt, when expire_due
\* has left it no waiter.
LEMMA SetCurrentHonest ==
    ASSUME NEW tk, NEW C, Sound(tk, C), Positive(tk), NEW current \in Configuration
    PROVE  Honest(tk, SetCurrentConfiguration(tk, current))
<1> DEFINE e == ExpireDue(tk)
           i == InstallCurrent(e, current)
           u == NotifyCatchUpWaiters(TryCommitPending(i))
<1>1. /\ e \in Tracker /\ Positive(e) /\ e.active = tk.active /\ (tk.failed => e.failed)
      /\ tk.active /\ ~e.failed => Refusals(e) = Refusals(tk)
      /\ e.failed => e.waiters = {} /\ WaitOks(e) = WaitOks(tk)
  BY ExpireDueHonest
<1> HIDE DEF e
<1>2. /\ i \in Tracker /\ i.pending = e.pending /\ i.answers = e.answers
      /\ i.waiters = e.waiters /\ i.active = FALSE
  <2>1. NoConfiguration \in Configuration
    BY DEF NoConfiguration, Configuration
  <2> QED
    BY <1>1, <2>1 DEF InstallCurrent, Tracker
<1>3. u = SetCurrentConfiguration(tk, current)
  BY DEF SetCurrentConfiguration, e
<1> HIDE DEF i
<1>4. Positive(i) /\ Refusals(i) = Refusals(e) /\ WaitOks(i) = WaitOks(e)
  BY <1>1, <1>2 DEF Positive, Refusals, WaitOks
<1>5. Calm(i, u)
  BY <1>2, <1>4, CommitAndNotifyCalm
<1> HIDE DEF u
<1>6. Positive(u) /\ ~u.active
  BY <1>2, <1>5 DEF Calm
<1>7. tk.active /\ WaitOks(u) # WaitOks(tk) => ~tk.failed /\ Refusals(u) = Refusals(tk)
  BY <1>1, <1>2, <1>4, <1>5 DEF Calm
<1> QED
  BY <1>3, <1>6, <1>7 DEF Honest

LEMMA RegisterCalm ==
    ASSUME NEW tk, NEW C, Sound(tk, C), Positive(tk), NEW lsn \in Nat, lsn > tk.highest,
           NEW primary \in Replica, NEW call \in Nat
    PROVE  Calm(tk, Register(tk, lsn, primary, call))
<1> DEFINE h == [tk EXCEPT !.highest = Larger(@, lsn)]
           seen == RaiseAck(h, primary, lsn)
           op == [lsn |-> lsn, call |-> call, acked |-> {primary}, ttl |-> QuorumTimeout]
<1>1. Calm(tk, seen)
  <2>1. Larger(tk.highest, lsn) = lsn
    BY DEF Larger, Sound, Tracker
  <2>2. /\ h \in Tracker /\ h.pending = tk.pending /\ h.answers = tk.answers
        /\ h.waiters = tk.waiters /\ h.active = tk.active /\ h.failed = tk.failed
    BY <2>1 DEF Sound, Tracker
  <2> HIDE DEF h
  <2>3. Larger(h.ackedLsn[primary], lsn) \in Nat
    BY <2>2 DEF Tracker, Larger
  <2>4. /\ seen \in Tracker /\ seen.pending = tk.pending /\ seen.answers = tk.answers
        /\ seen.waiters = tk.waiters /\ seen.active = tk.active /\ seen.failed = tk.failed
    BY <2>2, <2>3 DEF RaiseAck, Tracker
  <2> HIDE DEF seen
  <2> QED
    BY <2>4 DEF Calm, Positive, Refusals, WaitOks
<1>2. op \in PendingOp /\ op.lsn # 0
  <2>1. lsn # 0
    BY DEF Sound, Tracker
  <2> QED
    BY <2>1, QuorumTimeoutAssumption DEF PendingOp
<1>3. Register(tk, lsn, primary, call) = IF IsQuorumMet(seen, op.acked)
                                         THEN NotifyCatchUpWaiters(CommitOps(seen, {op}))
                                         ELSE InsertPending(seen, op)
  BY DEF Register
<1> HIDE DEF seen, op
<1>4. Calm(seen, NotifyCatchUpWaiters(CommitOps(seen, {op})))
  <2>1. Calm(seen, CommitOps(seen, {op}))
    <3>1. {op} \in SUBSET PendingOp /\ \A o \in {op} : o.lsn # 0
      BY <1>2
    <3> QED
      BY <1>1, <3>1, CommitCalm DEF Calm
  <2>2. Calm(CommitOps(seen, {op}), NotifyCatchUpWaiters(CommitOps(seen, {op})))
    BY <2>1, NotifyCalm DEF Calm
  <2> QED
    BY <2>1, <2>2, CalmTrans
<1>5. Calm(seen, InsertPending(seen, op))
  <2> DEFINE u == InsertPending(seen, op)
  <2>1. /\ u \in Tracker /\ u.pending \subseteq seen.pending \cup {op}
        /\ u.answers = seen.answers /\ u.waiters = seen.waiters
        /\ u.active = seen.active /\ u.failed = seen.failed
    BY <1>1, <1>2 DEF Calm, InsertPending, Tracker
  <2> HIDE DEF u
  <2>2. Calm(seen, u)
    BY <1>1, <1>2, <2>1 DEF Calm, Positive, Refusals, WaitOks
  <2> QED
    BY <2>2 DEF u
<1> QED
  BY <1>1, <1>3, <1>4, <1>5, CalmTrans

LEMMA RecordAckCalm ==
    ASSUME NEW tk, NEW C, Sound(tk, C), Positive(tk), NEW lsn \in Nat, lsn <= tk.highest,
           NEW r \in Replica
    PROVE  Calm(tk, RecordAck(tk, lsn, r))
<1> DEFINE seen   == RaiseAck(tk, r, lsn)
           marked == MarkAcked(seen, lsn, r)
           op     == {o \in marked.pending : o.lsn = lsn}
<1>1. Sound(seen, C) /\ Calm(tk, seen)
  <2>1. Sound(seen, C) /\ seen.pending = tk.pending
    BY RaiseAckSound
  <2>2. /\ seen.answers = tk.answers /\ seen.waiters = tk.waiters
        /\ seen.active = tk.active /\ seen.failed = tk.failed
    BY DEF RaiseAck, Sound, Tracker
  <2> HIDE DEF seen
  <2> QED
    BY <2>1, <2>2 DEF Calm, Positive, Refusals, WaitOks, Sound
<1> HIDE DEF seen
<1>2. Calm(seen, marked)
  <2>1. Sound(marked, C)
    BY <1>1, MarkAckedSound
  <2>2. /\ marked.answers = seen.answers /\ marked.waiters = seen.waiters
        /\ marked.active = seen.active /\ marked.failed = seen.failed
        /\ marked.pending =
             {IF o.lsn = lsn THEN [o EXCEPT !.acked = @ \cup {r}] ELSE o : o \in seen.pending}
    BY <1>1 DEF MarkAcked, Sound, Tracker
  <2>3. Positive(marked)
    <3> SUFFICES ASSUME NEW p \in marked.pending PROVE p.lsn # 0
      BY DEF Positive
    <3>1. PICK o \in seen.pending :
             p = IF o.lsn = lsn THEN [o EXCEPT !.acked = @ \cup {r}] ELSE o
      BY <2>2
    <3>2. o \in PendingOp /\ o.lsn # 0
      BY <1>1 DEF Calm, Positive, Sound, Tracker
    <3> QED
      BY <3>1, <3>2 DEF PendingOp
  <2> HIDE DEF marked
  <2> QED
    BY <2>1, <2>2, <2>3 DEF Calm, Refusals, WaitOks, Sound
<1>3. RecordAck(tk, lsn, r) =
        IF op = {} THEN NotifyCatchUpWaiters(seen)
        ELSE IF \E o \in op : IsQuorumMet(marked, o.acked)
             THEN NotifyCatchUpWaiters(TryCommitPending(CommitOps(marked, op)))
             ELSE marked
  BY DEF RecordAck, seen
<1>4. op \in SUBSET PendingOp /\ \A o \in op : o.lsn # 0
  BY <1>2 DEF Calm, Positive, Tracker
<1> HIDE DEF op, marked
<1>5. Calm(seen, NotifyCatchUpWaiters(seen))
  BY <1>1, NotifyCalm DEF Calm
<1>6. Calm(marked, CommitOps(marked, op))
  BY <1>2, <1>4, CommitCalm DEF Calm
<1>7. Calm(CommitOps(marked, op), NotifyCatchUpWaiters(TryCommitPending(CommitOps(marked, op))))
  BY <1>6, CommitAndNotifyCalm DEF Calm
<1>8. /\ Calm(tk, marked)
      /\ Calm(marked, NotifyCatchUpWaiters(TryCommitPending(CommitOps(marked, op))))
  BY <1>1, <1>2, <1>6, <1>7, CalmTrans
<1>9. /\ Calm(tk, NotifyCatchUpWaiters(seen))
      /\ Calm(tk, NotifyCatchUpWaiters(TryCommitPending(CommitOps(marked, op))))
  BY <1>1, <1>5, <1>8, CalmTrans
<1> QED
  BY <1>3, <1>8, <1>9

LEMMA WaitCalm ==
    ASSUME NEW tk, NEW C, Sound(tk, C), Positive(tk), NEW call \in Nat, NEW id \in WaitId,
           NEW mode \in Mode
    PROVE  Honest(tk, WaitForCatchUp(tk, call, id, mode))
<1> DEFINE w == [call |-> call, id |-> id, mode |-> mode, ttl |-> QuorumTimeout]
           v == IF id = "none" THEN tk ELSE CancelCatchUpWait(tk, id)
           u == AddWaiter(v, w)
<1>1. Calm(tk, v)
  <2>1. CASE id = "none"
    BY <2>1 DEF Calm, Sound
  <2>2. CASE id # "none"
    <3>1. {x \in tk.waiters : x.id = id} \in SUBSET tk.waiters
      OBVIOUS
    <3> QED
      BY <2>2, <3>1, WaitersCalm DEF CancelCatchUpWait, Result, Sound
  <2> QED
    BY <2>1, <2>2
<1>2. u = WaitForCatchUp(tk, call, id, mode)
  BY DEF WaitForCatchUp
<1>3. WaiterAnswers({w}, "Ok") = {[call |-> call, lsn |-> 0, result |-> "Ok"]}
      /\ WaiterAnswers({w}, "NoWriteQuorum") = {[call |-> call, lsn |-> 0, result |-> "NoWriteQuorum"]}
  BY DEF WaiterAnswers
<1> HIDE DEF v, w
<1>4. /\ u.pending = v.pending /\ u.active = v.active /\ u.failed = v.failed
      /\ \/ u.answers = v.answers
         \/ u.answers = v.answers \cup WaiterAnswers({w}, "NoWriteQuorum")
         \/ ~v.failed /\ u.answers = v.answers \cup WaiterAnswers({w}, "Ok")
  BY <1>1 DEF AddWaiter, Tracker, Calm
<1> HIDE DEF u
<1>5. Refusals(u) = Refusals(v) /\ (v.failed => WaitOks(u) = WaitOks(v))
  BY <1>3, <1>4 DEF Refusals, WaitOks
<1>6. Honest(tk, u)
  BY <1>1, <1>4, <1>5 DEF Calm, Honest, Positive
<1> QED
  BY <1>2, <1>6

\* Whoever is failed by a role change or a close is told so, and the attempt is over.
LEMMA FailAllHonest ==
    ASSUME NEW tk, NEW C, Sound(tk, C), NEW res \in Result \ {"Ok", "NoWriteQuorum"}
    PROVE  /\ FailAll(tk, res).pending = {} /\ FailAll(tk, res).active = FALSE
           /\ WaitOks(FailAll(tk, res)) = WaitOks(tk)
<1> DEFINE u == FailAll(tk, res)
<1>1. /\ u.pending = {} /\ u.active = FALSE
      /\ u.answers = tk.answers \cup OpAnswers(tk.pending, res) \cup WaiterAnswers(tk.waiters, res)
  BY DEF FailAll, AnswerOps, AnswerWaiters, Sound, Tracker
<1>2. \A a \in OpAnswers(tk.pending, res) \cup WaiterAnswers(tk.waiters, res) : a.result = res
  BY DEF OpAnswers, WaiterAnswers
<1> HIDE DEF u
<1>3. WaitOks(u) = WaitOks(tk)
  BY <1>1, <1>2 DEF WaitOks
<1> QED
  BY <1>1, <1>3 DEF u

\* An attempt that is not marked failed has refused no operation since it began.
MaskInv ==
    /\ Positive(t)
    /\ t.active /\ ~t.failed => Refusals(t) \subseteq settled

Unmasked == t.active /\ WaitOks(t') # WaitOks(t) => Refusals(t') \subseteq settled

LEMMA HonestStep ==
    ASSUME MaskInv, Honest(t, t'), settled' = settled
    PROVE  MaskInv' /\ Unmasked
BY DEF MaskInv, Honest, Unmasked, Refusals, Positive

LEMMA SameAnswers ==
    ASSUME MaskInv, Positive(t'), t'.answers = t.answers, t'.active = t.active,
           t'.failed = t.failed, settled' = settled
    PROVE  MaskInv' /\ Unmasked
<1>1. Honest(t, t')
  BY DEF Honest, Refusals, WaitOks
<1> QED
  BY <1>1, HonestStep

LEMMA MaskStep ==
    ASSUME IInv, MaskInv, [Next]_vars
    PROVE  MaskInv' /\ Unmasked
<1> DEFINE C == 1..calls
<1>1. /\ Sound(t, C) /\ t \in Tracker /\ Positive(t) /\ ActorTypeOK /\ ActorOrdered
      /\ calls + 1 \in Nat /\ nextLsn \in Nat
  <2>1. Sound(t, C) /\ ActorTypeOK /\ ActorOrdered
    BY DEF IInv
  <2> QED
    BY <2>1 DEF MaskInv, Sound, ActorTypeOK
<1> HIDE DEF C
<1>2. CASE UNCHANGED <<t, settled>>
  BY <1>1, <1>2, SameAnswers DEF Positive
<1>3. CASE Open \/ ReceiveItem \/ RemoveReplica \/ StreamBreaks \/ SchedulerWoken \/ UNCHANGED vars
  BY <1>2, <1>3 DEF Open, ReceiveItem, RemoveReplica, StreamBreaks, SchedulerWoken, vars, histVars
<1>4. CASE Promote
  <2>1. t' = SeedProgress(t, ps.progress, ps.committed) /\ settled' = settled
    BY <1>4 DEF Promote
  <2>2. /\ t'.answers = t.answers /\ t'.pending = t.pending
        /\ t'.active = t.active /\ t'.failed = t.failed
    BY <1>1, <2>1 DEF SeedProgress, Tracker
  <2> QED
    BY <1>1, <2>1, <2>2, SameAnswers DEF Positive
<1>5. ASSUME t'.pending = {}, t'.active = FALSE, WaitOks(t') = WaitOks(t)
      PROVE  MaskInv' /\ Unmasked
  BY <1>5 DEF MaskInv, Positive, Unmasked
<1>6. CASE Demote
  <2>1. t' = FailAll(t, "NotPrimary")
    BY <1>6 DEF Demote
  <2> QED
    BY <1>1, <1>5, <2>1, FailAllHonest DEF Result
<1>7. CASE Close
  <2>1. t' = FailAll(t, "Closed")
    BY <1>7 DEF Close
  <2> QED
    BY <1>1, <1>5, <2>1, FailAllHonest DEF Result
<1>8. CASE OnDataLoss
  <2>1. PICK lsn \in 0..ps.progress : t' = ResetProgressAfterDataLoss(t, lsn, lsn)
    BY <1>8 DEF OnDataLoss
  <2> DEFINE v == FailAll(t, "Internal")
  <2>2. v.pending = {} /\ v.active = FALSE /\ WaitOks(v) = WaitOks(t) /\ v \in Tracker
    BY <1>1, FailAllHonest, FailAllSound DEF Result, Sound
  <2>3. t' = [v EXCEPT !.highest = lsn, !.commits = {lsn}, !.baseline = lsn,
                       !.ackedLsn = [r \in Replica |-> 0]]
    BY <2>1 DEF ResetProgressAfterDataLoss
  <2> HIDE DEF v
  <2>4. t'.pending = {} /\ t'.active = FALSE /\ t'.answers = v.answers
    BY <2>2, <2>3 DEF Tracker
  <2>5. WaitOks(t') = WaitOks(t)
    BY <2>2, <2>4 DEF WaitOks
  <2> QED
    BY <1>5, <2>4, <2>5
<1>9. CASE CancelCatchUpQuorumWait
  <2>1. t' = CancelCatchUpWait(t, "tracked") /\ settled' = settled
    BY <1>9 DEF CancelCatchUpQuorumWait, histVars
  <2>2. {w \in t.waiters : w.id = "tracked"} \in SUBSET t.waiters
    OBVIOUS
  <2>3. Calm(t, t')
    BY <1>1, <2>1, <2>2, WaitersCalm DEF CancelCatchUpWait, Result
  <2> QED
    BY <2>1, <2>3, CalmIsHonest, HonestStep
<1>10. CASE WaitForCatchUpQuorum
  <2>1. PICK id \in WaitId, mode \in Mode : t' = WaitForCatchUp(t, calls + 1, id, mode)
    BY <1>10 DEF WaitForCatchUpQuorum
  <2>2. Honest(t, t')
    BY <1>1, <2>1, WaitCalm
  <2>3. settled' = settled
    BY <1>10 DEF WaitForCatchUpQuorum, histVars
  <2> QED
    BY <2>2, <2>3, HonestStep
<1>11. CASE RejectReplicate
  <2> DEFINE a == [call |-> calls + 1, lsn |-> 0, result |-> "NotPrimary"]
  <2>1. t' = [t EXCEPT !.answers = @ \cup {a}] /\ settled' = settled
    BY <1>11 DEF RejectReplicate, histVars
  <2>2. a.lsn = 0 /\ a.result = "NotPrimary"
    OBVIOUS
  <2> HIDE DEF a
  <2>3. /\ t'.pending = t.pending /\ t'.answers = t.answers \cup {a}
        /\ t'.active = t.active /\ t'.failed = t.failed
    BY <1>1, <2>1 DEF Tracker
  <2>4. Refusals(t') = Refusals(t) /\ WaitOks(t') = WaitOks(t)
    BY <2>2, <2>3 DEF Refusals, WaitOks
  <2>5. Honest(t, t')
    BY <1>1, <2>3, <2>4 DEF Honest, Positive
  <2> QED
    BY <2>1, <2>5, HonestStep
<1>12. CASE SchedulerCheck \/ SchedulerTimeout
  <2>1. t' = ExpireDue(t) /\ settled' = settled
    BY <1>12 DEF SchedulerCheck, SchedulerTimeout, histVars
  <2>2. ExpireDue(t) \in Tracker /\ Positive(ExpireDue(t))
    BY <1>1, ExpireDueHonest
  <2>3. Calm(ExpireDue(t), ExpireDue(t))
    BY <2>2 DEF Calm
  <2>4. Honest(t, t')
    BY <1>1, <2>1, <2>3, AfterExpiry
  <2> QED
    BY <2>1, <2>4, HonestStep
<1>13. CASE Tick
  <2> DEFINE Less(n) == IF n = 0 THEN 0 ELSE n - 1
             P == {[o EXCEPT !.ttl = Less(@)] : o \in t.pending}
  <2>1. t' = Elapse(t) /\ settled' = settled
    BY <1>13 DEF Tick, histVars
  <2>2. t'.answers = t.answers /\ t'.active = t.active /\ t'.failed = t.failed /\ t'.pending = P
    BY <1>1, <2>1 DEF Elapse, Tracker
  <2>3. \A o \in t.pending : [o EXCEPT !.ttl = Less(@)].lsn = o.lsn
    BY <1>1 DEF Tracker, PendingOp
  <2>4. \A p \in P : \E o \in t.pending : p.lsn = o.lsn
    BY <2>3
  <2> HIDE DEF P
  <2>5. Positive(t')
    BY <1>1, <2>2, <2>4 DEF Positive
  <2> QED
    BY <2>1, <2>2, <2>5, SameAnswers
<1>14. CASE Replicate
  <2>1. t' = Register(t, nextLsn, Self, calls + 1) /\ settled' = settled
    BY <1>14 DEF Replicate
  <2>2. t.highest \in Nat /\ nextLsn > t.highest
    BY <1>1 DEF ActorOrdered, Tracker
  <2>3. Calm(t, t')
    BY <1>1, <2>1, <2>2, SelfAssumption, RegisterCalm
  <2> QED
    BY <2>1, <2>3, CalmIsHonest, HonestStep
<1>15. CASE ReceiveAck
  <2>1. PICK m \in owed : t' = Ack(t, m[2], m[1])
    BY <1>15 DEF ReceiveAck
  <2>2. /\ m[1] \in Replica /\ m[2] \in Nat /\ m[2] <= t.highest
    BY <1>1 DEF ActorTypeOK, ActorOrdered
  <2> DEFINE e == ExpireDue(t)
  <2>3. Sound(e, C) /\ Positive(e) /\ e.highest = t.highest
    BY <1>1, ExpireDueHonest, ExpireDueSound DEF Settles
  <2>4. t' = RecordAck(e, m[2], m[1])
    BY <2>1 DEF Ack
  <2> HIDE DEF e
  <2>5. Calm(e, t')
    BY <2>2, <2>3, <2>4, RecordAckCalm
  <2>6. Honest(t, t')
    BY <1>1, <2>5, AfterExpiry DEF e
  <2>7. settled' = settled
    BY <1>15 DEF ReceiveAck
  <2> QED
    BY <2>6, <2>7, HonestStep
<1>16. \A c \in Configurations : c \in Configuration /\ c.members \in SUBSET Replica
  BY MajorityType DEF Configurations
<1>17. CASE UpdateCurrentConfiguration
  <2>1. PICK current \in Configurations : t' = SetCurrentConfiguration(t, current)
    BY <1>17 DEF UpdateCurrentConfiguration
  <2>2. settled' = settled
    BY <1>17 DEF UpdateCurrentConfiguration, histVars
  <2>3. Honest(t, t')
    BY <1>1, <1>16, <2>1, SetCurrentHonest
  <2> QED
    BY <2>2, <2>3, HonestStep
<1>18. CASE UpdateCatchUpConfiguration
  <2>1. PICK current \in Configurations, previous \in PreviousConfigurations :
        \E must \in {S \in SUBSET (current.members \ {Self}) : Cardinality(S) <= 1},
           reported \in {0, ps.progress}, boundary \in 0..ps.committed :
           LET progress == [r \in Replica |-> IF r \in must THEN boundary
                                              ELSE IF r \in current.members THEN reported ELSE 0]
               next     == SetCatchUpConfiguration(t, current, previous, must, progress)
           IN  t' = next /\ settled' = IF t.active THEN settled ELSE next.answers
    BY <1>18 DEF UpdateCatchUpConfiguration
  <2>2. PICK must \in {S \in SUBSET (current.members \ {Self}) : Cardinality(S) <= 1},
             reported \in {0, ps.progress}, boundary \in 0..ps.committed :
           LET progress == [r \in Replica |-> IF r \in must THEN boundary
                                              ELSE IF r \in current.members THEN reported ELSE 0]
               next     == SetCatchUpConfiguration(t, current, previous, must, progress)
           IN  t' = next /\ settled' = IF t.active THEN settled ELSE next.answers
    BY <2>1
  <2> DEFINE progress == [r \in Replica |-> IF r \in must THEN boundary
                                            ELSE IF r \in current.members THEN reported ELSE 0]
  <2>3. previous \in Configuration
    <3>1. NoConfiguration \in Configuration /\ t.cur \in Configuration
      BY <1>1 DEF NoConfiguration, Configuration, Tracker
    <3>2. [members |-> Replica, quorum |-> Majority(Replica)] \in Configuration
      BY MajorityType
    <3> QED
      BY <3>1, <3>2 DEF PreviousConfigurations
  <2>4. current \in Configuration /\ must \in SUBSET Replica
    BY <1>16
  <2>5. t.highest \in Nat /\ ps.progress <= t.highest
    BY <1>1, <1>18 DEF UpdateCatchUpConfiguration, ActorOrdered, Tracker
  <2>6. progress \in [Replica -> Nat] /\ \A r \in Replica : progress[r] <= t.highest
    BY <1>1, <2>5 DEF ActorTypeOK, ActorOrdered
  <2>7. /\ t' = SetCatchUpConfiguration(t, current, previous, must, progress)
        /\ settled' = IF t.active THEN settled ELSE t'.answers
    BY <2>2
  <2> HIDE DEF progress
  <2>8. Positive(t') /\ (t.active => Honest(t, t'))
    BY <1>1, <2>3, <2>4, <2>6, <2>7, SetCatchUpHonest
  <2>9. CASE t.active
    BY <2>7, <2>8, <2>9, HonestStep
  <2>10. CASE ~t.active
    BY <2>7, <2>8, <2>10 DEF MaskInv, Unmasked, Refusals, Positive
  <2> QED
    BY <2>9, <2>10
<1> QED
  BY <1>3, <1>4, <1>6, <1>7, <1>8, <1>9, <1>10, <1>11, <1>12, <1>13, <1>14, <1>15, <1>17,
     <1>18 DEF Next, Scheduler

\* A catch-up wait succeeds during an attempt only if no operation was refused since
\* the attempt began, although expire_due removes what it refuses, a repeated
\* set_catch_up_configuration does not start over and set_current_configuration
\* clears the mark of the failure (catch_up_failed, catch_up_active).
THEOREM CatchUpIsHonest ==
    Spec => CatchUpNeverMasksExpiry
<1>1. Init => MaskInv
  BY DEF Init, MaskInv, Positive, Refusals, NewTracker
<1>2. ASSUME IInv, MaskInv, [Next]_vars
      PROVE  /\ MaskInv'
             /\ [t.active /\ (\E a \in NewAnswers : a.lsn = 0 /\ a.result = "Ok") =>
                   \A b \in t'.answers \ settled : b.lsn # 0 => b.result # "NoWriteQuorum"]_vars
  <2>1. MaskInv' /\ Unmasked
    BY <1>2, MaskStep
  <2> SUFFICES ASSUME t.active, NEW a \in NewAnswers, a.lsn = 0, a.result = "Ok"
               PROVE  \A b \in t'.answers \ settled : b.lsn # 0 => b.result # "NoWriteQuorum"
    BY <2>1
  <2>2. a \in WaitOks(t') /\ a \notin WaitOks(t)
    BY DEF NewAnswers, WaitOks
  <2>3. Refusals(t') \subseteq settled
    BY <2>1, <2>2 DEF Unmasked
  <2> QED
    BY <2>3 DEF Refusals
<1> QED
  BY <1>1, <1>2, Invariant, PTL DEF Spec, CatchUpNeverMasksExpiry
=============================================================================
