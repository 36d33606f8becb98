----------------------------- MODULE RemoveReplica -----------------------------
(***************************************************************************)
(* A secondary is removed from a partition.  The operator freezes an       *)
(* intent, hands it to the primary and watches (durable/remove_replica.rs);*)
(* a coordinator on the primary installs the reduced configuration, first  *)
(* in catch-up and then as the current one, removes the target's           *)
(* connection and asks the target to retire, or restores the previous      *)
(* configuration (replica_agent.rs).  The operator records the commit,     *)
(* fences and deletes the target's pod and only then publishes.            *)
(*                                                                         *)
(* The coordinator's calls to the primary's runtime are bounded in time    *)
(* but not cancelled: a call that is given up stays queued.  The primary   *)
(* reports one configuration (rep[Primary].cfg) and its quorum tracker     *)
(* uses one (run.tracker): "Previous", "CatchUp" or "Current", the last    *)
(* two being those of the reduced snapshot.                                *)
(***************************************************************************)
EXTENDS ReplicaPeer

CONSTANTS
    Others,        \* the secondaries that stay
    MaxAttempts,   \* MAX_REMOVE_REPLICA_PRE_COMMIT_ATTEMPTS
    MaxTrouble     \* bound on faults, failed effects and calls given up

ASSUME RemoveAssumption ==
    /\ Others \subseteq Nat \ {0, 1, 2}
    /\ {MaxAttempts, MaxTrouble} \subseteq Nat

VARIABLES
    op,        \* DurableOperationStatus, with its intent and its cleanup record
    stable,    \* the published snapshot
    rep,       \* the processes
    pod,       \* the pods: do they exist, are they reachable, role label
    net,       \* intents under way to the primary
    co,        \* the coordinator and the progress that it has published
    run,       \* the primary's runtime
    peer,      \* the target's peer ledger
    mail,      \* Retire messages under way to the target
    time,      \* has the attempt's deadline, or that of its last part, passed
    trouble,   \* faults and failures so far
    installed  \* has the reduced configuration been installed as the current one

vars == <<op, stable, rep, pod, net, co, run, peer, mail, time, trouble, installed>>

Primary == 1
Target == 2
Replica == {Primary, Target} \cup Others
Epoch == 1
Inst == 0          \* the incarnation of every pod of the snapshot
NoGen == -1        \* a target that could not be asked for its generation

NoCo == [step |-> "none", attempt |-> 0, gen |-> NoGen, asked |-> FALSE, dispatched |-> FALSE,
         comp |-> FALSE, commit |-> FALSE, absent |-> FALSE, retire |-> "NotAttempted"]
NoWait == [attempt |-> 0, state |-> "none"]
BlankRun == [conn |-> FALSE, tracker |-> "Previous", queue |-> << >>, wait |-> NoWait]
NoTime == [late |-> FALSE, expired |-> FALSE]

Member(role) ==
    [BlankProcess(Inst, 0) EXCEPT !.open = TRUE, !.role = role, !.wal = role, !.epoch = Epoch,
        !.write = IF role = "Primary" THEN "Granted" ELSE "NotPrimary",
        !.cfg = IF role = "Primary" THEN "Previous" ELSE NoConfig, !.data = TRUE]

\* start_remove_replica.  A scale-down has been preadmitted with the target's
\* generation; a forced removal may start while the target is unreachable.
Init ==
    /\ \E mode \in {"ScaleDown", "Force"}, up \in BOOLEAN :
          /\ mode = "ScaleDown" => up
          /\ op = [mode |-> mode, phase |-> "RemoveFreezeIntent", attempt |-> 0, pgen |-> 0,
                   tgen |-> NoGen, fences |-> << >>, dispatched |-> FALSE, comp |-> FALSE,
                   committed |-> FALSE, absent |-> FALSE, retired |-> "none",
                   fenced |-> FALSE, deleted |-> FALSE, why |-> "none"]
          /\ pod = [r \in Replica |->
                      [exists |-> TRUE, up |-> (r = Target => up),
                       label |-> IF r = Primary THEN "primary" ELSE "secondary"]]
    /\ stable = "Previous"
    /\ rep = [r \in Replica |-> Member(IF r = Primary THEN "Primary" ELSE "ActiveSecondary")]
    /\ run = [BlankRun EXCEPT !.conn = TRUE]
    /\ net = {} /\ co = NoCo /\ peer = BlankPeer /\ mail = {}
    /\ time = NoTime
    /\ trouble = 0
    /\ installed = FALSE

operator == <<op, stable, pod, net>>
primary == <<co, run, installed>>
target == <<peer, mail>>

-----------------------------------------------------------------------------
(* What a reconcile observes.                                              *)

Observed(r) == pod[r].exists /\ pod[r].up
SamePod(r) == pod[r].exists /\ rep[r].inst = Inst
Exact(r) == Observed(r) /\ rep[r].inst = Inst
cfg == rep[Primary].cfg

Terminal == {"Completed", "Failed", "Poisoned"}
Active == op.phase \notin Terminal

\* durable_identity_members: until the commit is recorded, the members that
\* stay must be the pods they were.
Drifted == ~op.committed /\ \E r \in Replica \ {Target} : ~SamePod(r)

Deciding == Active /\ ~Drifted

Persist(next) ==
    /\ op' = next
    /\ UNCHANGED <<stable, rep, pod, net, time, trouble, primary, target>>

Poisoned(why) == [op EXCEPT !.phase = "Poisoned", !.why = why]

FailClosed == Active /\ Drifted /\ Persist(Poisoned("Drift"))

-----------------------------------------------------------------------------
(* Before the commit.                                                      *)

\* validate_primary_identity
PrimaryExact == Exact(Primary) /\ rep[Primary].role = "Primary" /\ rep[Primary].epoch = Epoch

\* freeze_attempt's conditions.  Without them the reconcile fails and is tried
\* again: no deadline bounds this phase.
Freezable ==
    /\ PrimaryExact
    /\ \A r \in Others : Observed(r)
    /\ op.mode = "ScaleDown" => Exact(Target) /\ rep[Target].gen = 0 /\ rep[Target].open
    /\ op.mode = "Force" /\ Observed(Target) => rep[Target].inst = Inst

FreezeAttempt ==
    /\ op.phase = "RemoveFreezeIntent" /\ Deciding /\ Freezable
    /\ IF op.attempt = MaxAttempts
       THEN Persist(Poisoned("FailedPreCommitIncomplete"))
       ELSE /\ op' = [op EXCEPT !.phase = "RemoveDispatchIntent", !.attempt = @ + 1,
                                !.pgen = rep[Primary].gen,
                                !.tgen = IF Observed(Target) THEN rep[Target].gen ELSE NoGen,
                                !.dispatched = FALSE, !.comp = FALSE]
            /\ time' = NoTime
            /\ UNCHANGED <<stable, rep, pod, net, trouble, primary, target>>

DispatchIntent ==
    /\ op.phase = "RemoveDispatchIntent" /\ Deciding
    /\ Persist([op EXCEPT !.phase = "RemoveAwaitCoordination", !.fences = << >>])

Await == op.phase = "RemoveAwaitCoordination" /\ Deciding

\* Mutant: the silence of the primary is always waited out.
PrecommitNeverFails == FALSE

\* precommit_failure_is_proven: the progress that was persisted shows no
\* dispatch, and the time of the attempt, or that of its compensation, is over.
PrecommitFailureIsProven ==
    ~op.dispatched /\ IF op.comp THEN time.expired ELSE time.late

PrimarySilent ==
    /\ Await /\ ~Observed(Primary)
    /\ \/ op.dispatched /\ time.late /\ Persist(Poisoned("InvalidRemovalState"))
       \/ PrecommitFailureIsProven /\ Persist(Poisoned("FailedPreCommitIncomplete"))

\* classify_new_primary_generation: a process that started again has lost its
\* configuration.
PrimaryRestarted ==
    /\ rep[Primary].gen # op.pgen /\ Await /\ Observed(Primary)
    /\ Persist(Poisoned("AmbiguousPrimaryRestart"))

Id(attempt) == <<"RemoveReplicaIntent", attempt>>
Outcome == Record(rep[Primary], Id(op.attempt))
Watching == Await /\ PrimaryExact /\ rep[Primary].gen = op.pgen

\* The progress of the attempt, while its record is there, and what of it has
\* been persisted.
ProgressKnown == co.dispatched = op.dispatched /\ co.comp = op.comp

\* persist_progress_if_changed
PersistProgress ==
    /\ ~ProgressKnown /\ Watching /\ Outcome # "none"
    /\ Persist(IF (op.dispatched /\ ~co.dispatched) \/ (op.comp /\ ~co.comp)
               THEN Poisoned("InvalidRemovalState")
               ELSE [op EXCEPT !.dispatched = co.dispatched, !.comp = co.comp])

Settled == ProgressKnown /\ Watching /\ Outcome # "none"

\* Mutant: the dispatch of the current configuration counts as the commit.
CommitShownByDispatch == co.dispatched

\* The progress carries the evidence of the commit.
CommitShown == co.commit

TerminalRetirement == {"Completed", "Unavailable", "Stale", "Failed"}

\* merge_retirement_evidence
Merged(current, observed) ==
    IF current = "Completed" \/ observed \notin TerminalRetirement THEN current ELSE observed

\* record_commit and record_commit_evidence
RecordCommit ==
    /\ CommitShown /\ Settled
    /\ Persist([op EXCEPT !.phase = "RemoveRecordCommit", !.committed = TRUE,
                          !.absent = co.absent, !.retired = Merged("none", co.retire)])

\* classify_terminal and classify_incomplete: a coordinator that ended without
\* the commit.
AttemptEnded ==
    /\ ~CommitShown /\ Settled /\ Outcome # "InProgress"
    /\ Persist(
         IF op.dispatched \/ cfg = "Current" \/ (Outcome = "Compensated" /\ cfg # "Previous")
         THEN Poisoned("InvalidRemovalState")
         ELSE IF cfg = "Previous" THEN [op EXCEPT !.phase = "RemoveCompensateFinalize"]
         ELSE IF op.attempt < MaxAttempts THEN [op EXCEPT !.phase = "RemoveFreezeIntent"]
         ELSE Poisoned("FailedPreCommitIncomplete"))

\* No record when the deadline has passed.
AttemptLost ==
    /\ time.late /\ Watching /\ Outcome = "none"
    /\ Persist(Poisoned("FailedPreCommitIncomplete"))

Executing == ~time.late /\ Watching /\ Outcome = "none"

PlanDispatch ==
    /\ Executing /\ op.fences # Fences(rep[Primary])
    /\ Persist([op EXCEPT !.fences = Fences(rep[Primary])])

Dispatch ==
    /\ Executing /\ op.fences = Fences(rep[Primary])
    /\ LET q == [id |-> Id(op.attempt), fences |-> op.fences,
                 act |-> [do |-> "Remove", attempt |-> op.attempt, gen |-> op.tgen]]
       IN  q \notin net /\ net' = net \cup {q}
    /\ UNCHANGED <<op, stable, rep, pod, time, trouble, primary, target>>

\* Complete looks the primary's pod up: without one the reconcile fails.
CompensateFinalize ==
    /\ op.phase = "RemoveCompensateFinalize" /\ Deciding
    /\ Persist([op EXCEPT !.phase = "Failed"])

-----------------------------------------------------------------------------
(* After the commit: decide_post_commit                                    *)

StartCleanup ==
    /\ op.phase = "RemoveRecordCommit" /\ Deciding
    /\ Persist([op EXCEPT !.phase = "RemoveAwaitCleanup"])

\* Mutant: a primary that does not answer has lost its connections.
CleanupSeenIfSilent ==
    LET sees == Exact(Primary) /\ rep[Primary].gen = op.pgen
    IN  [op EXCEPT !.absent = ~sees \/ ~run.conn \/ co.absent,
                   !.retired = Merged(@, IF sees THEN co.retire ELSE "Unavailable")]

\* What is known of the connection and of the retirement.  A primary that ended
\* has no connections; one that only does not answer may have.
CleanupSeen ==
    LET sees == Exact(Primary) /\ rep[Primary].gen = op.pgen
        gone == ~sees /\ (Observed(Primary) \/ ~SamePod(Primary))
        closed == Exact(Target) /\ rep[Target].role = "None" /\ ~rep[Target].open
        retired == Merged(op.retired, IF sees THEN co.retire
                                      ELSE IF gone THEN "Unavailable" ELSE "none")
    IN  [op EXCEPT
          !.absent = IF sees THEN ~run.conn \/ co.absent ELSE gone \/ @,
          !.retired = IF closed THEN "Completed" ELSE retired]

Cleaning == op.phase = "RemoveAwaitCleanup" /\ Deciding

CleanupReady ==
    CleanupSeen.absent /\ (CleanupSeen.retired # "none" \/ time.expired \/ time.late)

RecordCleanup ==
    Cleaning /\ ~CleanupReady /\ CleanupSeen # op /\ Persist(CleanupSeen)

CleanupKnown ==
    [CleanupSeen EXCEPT !.retired = IF @ = "none" THEN "Unavailable" ELSE @]

\* PatchPodRoleExactUid: nothing of what was seen is persisted by this reconcile.
FenceTarget ==
    /\ Cleaning /\ CleanupReady /\ SamePod(Target) /\ pod[Target].label # "retired"
    /\ pod' = [pod EXCEPT ![Target].label = "retired"]
    /\ UNCHANGED <<op, stable, rep, net, time, trouble, primary, target>>

TargetFenced ==
    /\ Cleaning /\ CleanupReady /\ (~SamePod(Target) \/ pod[Target].label = "retired")
    /\ Persist([CleanupKnown EXCEPT
                  !.fenced = TRUE,
                  !.phase = IF SamePod(Target) \/ op.fenced THEN "RemoveDeleteTargetPod" ELSE @])

DeleteTarget ==
    /\ op.phase = "RemoveDeleteTargetPod" /\ Deciding
    /\ IF SamePod(Target)
       THEN /\ pod' = [pod EXCEPT ![Target].exists = FALSE]
            /\ rep' = [rep EXCEPT ![Target] = Restarted(@)]
            /\ peer' = BlankPeer
            /\ UNCHANGED <<op, stable, net, time, trouble, primary, mail>>
       ELSE Persist([op EXCEPT !.deleted = TRUE, !.phase = "RemovePublishTopology"])

\* CommitSnapshot
PublishTopology ==
    /\ op.phase = "RemovePublishTopology" /\ Deciding
    /\ IF op.absent /\ op.retired # "none" /\ op.fenced /\ op.deleted
       THEN /\ op' = [op EXCEPT !.phase = "RemoveFinalize"] /\ stable' = "Reduced"
            /\ UNCHANGED <<rep, pod, net, time, trouble, primary, target>>
       ELSE Persist(Poisoned("InvalidRemovalState"))

Finalize ==
    /\ op.phase = "RemoveFinalize" /\ Deciding /\ pod[Primary].exists
    /\ Persist([op EXCEPT !.phase = "Completed"])

Reconcile ==
    \/ FailClosed \/ FreezeAttempt \/ DispatchIntent \/ PrimarySilent \/ PrimaryRestarted
    \/ PersistProgress \/ RecordCommit \/ AttemptEnded \/ AttemptLost \/ PlanDispatch \/ Dispatch
    \/ CompensateFinalize \/ StartCleanup \/ RecordCleanup \/ FenceTarget \/ TargetFenced
    \/ DeleteTarget \/ PublishTopology \/ Finalize

-----------------------------------------------------------------------------
(* The coordinator.                                                        *)

\* accept_remove_replica_intent
HandleIntent ==
    /\ pod[Primary].exists
    /\ \E q \in net :
          /\ \/ /\ CanAdmit(rep[Primary], q) /\ ~time.late
                /\ rep' = [rep EXCEPT ![Primary] = Admit(@, q)]
                /\ co' = [NoCo EXCEPT !.step = "Validating", !.attempt = q.act.attempt,
                                      !.gen = q.act.gen]
             \/ (Refused(rep[Primary], q) \/ time.late) /\ UNCHANGED <<rep, co>>
          /\ net' = net \ {q}
    /\ UNCHANGED <<op, stable, pod, time, trouble, run, installed, target>>

At(step) == co.step = step /\ pod[Primary].exists /\ ~co.asked

Step(step) == [co EXCEPT !.step = step, !.asked = FALSE]

\* RemoveReplicaProgress::validate
ValidProgress(c) ==
    /\ c.commit => ~c.comp
    /\ ~c.commit => ~c.absent /\ c.retire = "NotAttempted"
    /\ c.step \in {"Validating", "InstallingCatchUp", "CatchUpInstalled", "Waiting"} =>
          ~c.commit /\ ~c.dispatched
    /\ c.step \in {"RemovingConnection", "Retiring", "Attesting"} => c.commit
    /\ c.step \in {"Compensating", "Cancelled"} => ~c.commit /\ c.comp
    /\ c.retire = "Completed" => c.absent

\* RemoveReplicaProgress::validate_terminal
ValidTerminal(c, result) ==
    /\ ValidProgress(c)
    /\ result = "CommittedClean" =>
          c.commit /\ c.absent /\ c.step = "Attesting" /\ c.retire = "Completed"
    /\ result = "CommittedDegraded" =>
          /\ c.commit /\ c.absent /\ c.step = "Attesting"
          /\ c.retire \in {"Unavailable", "Stale", "Failed"}
    /\ result \in {"Compensated", "CompensationIncomplete"} =>
          ~c.commit /\ c.step = "Compensating" /\ c.comp
    /\ result = "Compensated" => ~c.dispatched

\* handle_coordinator_event: the intent's terminal record keeps the progress; a
\* result that does not fit it is not accepted.
Ended(c, result) ==
    LET kept == IF ValidTerminal(c, result) THEN result ELSE "Failed"
    IN  /\ co' = [c EXCEPT !.step = "none", !.asked = FALSE]
        /\ rep' = [rep EXCEPT ![Primary] = Recorded(@, Id(co.attempt), kept)]

\* observe_remove_commit
Committing ==
    co' = [Step("RemovingConnection") EXCEPT !.commit = TRUE, !.comp = FALSE] /\ UNCHANGED rep

\* Mutant: the previous configuration is restored whatever was dispatched.
PreCommitFailedRollsBack ==
    IF cfg = "Current" THEN Committing
    ELSE co' = [Step("Compensating") EXCEPT !.comp = TRUE] /\ UNCHANGED rep

\* recover_remove_pre_commit_failure, up to its loop: there is no way back once
\* the current configuration was dispatched.
PreCommitFailed ==
    IF cfg = "Current" THEN Committing
    ELSE IF co.dispatched THEN Ended(co, "Failed")
    ELSE co' = [Step("Compensating") EXCEPT !.comp = TRUE] /\ UNCHANGED rep

Trouble == trouble < MaxTrouble /\ trouble' = trouble + 1

\* A call to the runtime.
Call(effect) ==
    /\ run' = [run EXCEPT !.queue = Append(@, [do |-> effect, live |-> TRUE,
                                               attempt |-> co.attempt])]
    /\ co' = [co EXCEPT !.asked = TRUE]
    /\ UNCHANGED rep

Quiet == UNCHANGED <<operator, time, trouble, installed, target>>

Goes(step) == co' = Step(step) /\ UNCHANGED rep

Validate ==
    /\ At("Validating")
    /\ IF cfg = "Current" THEN Committing ELSE Goes("InstallingCatchUp")
    /\ UNCHANGED run /\ Quiet

InstallCatchUp ==
    /\ At("InstallingCatchUp")
    /\ IF time.late THEN PreCommitFailed /\ UNCHANGED run
       ELSE IF cfg = "Previous" THEN Call("CatchUp")
       ELSE (IF cfg = "Current" THEN Committing ELSE Goes("Waiting")) /\ UNCHANGED run
    /\ Quiet

\* The primary's configuration after the call decides, not the call's result.
CatchUpInstalled ==
    /\ At("CatchUpInstalled")
    /\ IF time.late \/ cfg = "Previous" THEN PreCommitFailed
       ELSE IF cfg = "Current" THEN Committing ELSE Goes("Waiting")
    /\ UNCHANGED run /\ Quiet

WaitState == IF run.wait.attempt = co.attempt THEN run.wait.state ELSE "none"

AwaitQuorum ==
    /\ At("Waiting")
    /\ IF time.late \/ cfg = "Previous" \/ WaitState \in {"Failed", "Cancelled"}
       THEN PreCommitFailed /\ UNCHANGED run
       ELSE \/ WaitState = "Completed" /\ Goes("InstallingCurrent") /\ UNCHANGED run
            \/ WaitState = "none" /\ Call("Wait")
    /\ Quiet

\* The dispatch is published before the call.
InstallCurrent ==
    /\ At("InstallingCurrent")
    /\ IF time.late \/ cfg = "Previous" THEN PreCommitFailed /\ UNCHANGED run
       ELSE IF ~co.dispatched
       THEN co' = [co EXCEPT !.dispatched = TRUE] /\ UNCHANGED <<rep, run>>
       ELSE Call("Current")
    /\ Quiet

CurrentInstalled ==
    /\ At("CurrentInstalled")
    /\ IF ~time.late /\ cfg = "Current" THEN Committing ELSE PreCommitFailed
    /\ UNCHANGED run /\ Quiet

\* The loop of recover_remove_pre_commit_failure.
Compensate ==
    /\ At("Compensating")
    /\ IF time.expired THEN Ended(co, "CompensationIncomplete") /\ UNCHANGED run
       ELSE IF cfg = "Current" THEN Committing /\ UNCHANGED run
       ELSE IF cfg = "Previous" THEN Ended(co, "Compensated") /\ UNCHANGED run
       ELSE Call(IF WaitState = "InProgress" THEN "Cancel" ELSE "Restore")
    /\ Quiet

\* The gate behind a cancellation: unlike the loop's own checks it ends the
\* coordinator with an error when the compensation has expired meanwhile.
WaitCancelled ==
    /\ At("Cancelled")
    /\ IF time.expired THEN Ended(co, "Failed") ELSE Goes("Compensating")
    /\ UNCHANGED run /\ Quiet

Expired == time.expired \/ time.late

\* A target that cannot be asked, or not in time, counts as unavailable.
RemoveConnection ==
    /\ At("RemovingConnection")
    /\ IF run.conn THEN Call("Remove")
       ELSE /\ co' = IF co.gen = NoGen \/ Expired
                     THEN [Step("Attesting") EXCEPT !.absent = TRUE, !.retire = "Unavailable"]
                     ELSE [Step("Retiring") EXCEPT !.absent = TRUE]
            /\ UNCHANGED <<rep, run>>
    /\ Quiet

\* Where the coordinator looks again after a call, whatever its result.
After == [CatchUp |-> "CatchUpInstalled", Wait |-> "Waiting", Current |-> "CurrentInstalled",
          Cancel |-> "Cancelled", Restore |-> "Compensating", Remove |-> "RemovingConnection"]

\* A call that failed or was given up; only that of the wait is an error by itself.
CallFailed(effect) == IF effect = "Wait" THEN PreCommitFailed ELSE Goes(After[effect])

\* execute_remove_runtime_effect gives up; the effect stays where it is.
CallTimesOut ==
    /\ pod[Primary].exists /\ co.asked /\ co.step # "Retiring"
    /\ Trouble
    /\ run' = [run EXCEPT !.queue[Len(run.queue)].live = FALSE]
    /\ CallFailed(run.queue[Len(run.queue)].do)
    /\ UNCHANGED <<operator, time, installed, target>>

-----------------------------------------------------------------------------
(* The primary's runtime runs one effect after the other.                  *)

ConfigurationOf == [CatchUp |-> "CatchUp", Current |-> "Current", Restore |-> "Previous"]

InProgress == run.wait.state = "InProgress"

\* The runtime after an effect that succeeded, and after one that failed: the
\* tracker may have changed although the answer did not come.
AfterEffect(e) ==
    IF e.do \in DOMAIN ConfigurationOf THEN [run EXCEPT !.tracker = ConfigurationOf[e.do]]
    ELSE IF e.do = "Remove" THEN [run EXCEPT !.conn = FALSE]
    ELSE IF e.do = "Wait" THEN [run EXCEPT !.wait = [attempt |-> e.attempt, state |-> "InProgress"]]
    ELSE IF InProgress THEN [run EXCEPT !.wait.state = "Cancelled"] ELSE run

Residue(e) == IF e.do \in {"Wait", "Cancel"} THEN {run} ELSE {run, AfterEffect(e)}

Dequeued(r) == [r EXCEPT !.queue = Tail(@)]

RunEffect ==
    /\ pod[Primary].exists /\ run.queue # << >>
    /\ LET e == Head(run.queue)
       IN  \/ /\ e.do = "Wait" => ~InProgress
              /\ run' = Dequeued(AfterEffect(e))
              /\ rep' = [rep EXCEPT ![Primary].cfg =
                           IF e.do \in DOMAIN ConfigurationOf THEN ConfigurationOf[e.do] ELSE @]
              /\ installed' = (installed \/ e.do = "Current")
              /\ co' = IF e.live THEN Step(After[e.do]) ELSE co
              /\ UNCHANGED trouble
           \/ /\ (e.do = "Wait" /\ InProgress /\ UNCHANGED trouble) \/ Trouble
              /\ run' \in {Dequeued(r) : r \in Residue(e)}
              /\ IF e.live THEN CallFailed(e.do) ELSE UNCHANGED <<co, rep>>
              /\ UNCHANGED installed
    /\ UNCHANGED <<operator, time, target>>

\* The quorum of the reduced configuration, which the members that stay give.
FinishWait ==
    /\ pod[Primary].exists /\ InProgress
    /\ \/ /\ \A r \in Others : pod[r].exists /\ rep[r].open
          /\ run' = [run EXCEPT !.wait.state = "Completed"]
          /\ UNCHANGED trouble
       \/ Trouble /\ run' = [run EXCEPT !.wait.state = "Failed"]
    /\ UNCHANGED <<operator, rep, co, time, installed, target>>

-----------------------------------------------------------------------------
(* The retirement of the target: ensure_remove_target_retirement           *)

PeerUp == Observed(Target)
MessageId == <<co.attempt, "Retire">>

\* What a state of the stage says of the retirement.
RetirementOf(state) ==
    IF state \in {"Accepted", "InProgress", "Completed"} THEN "InProgress"
    ELSE IF state = "Stale" THEN "Stale"
    ELSE IF state = "Unreachable" THEN "Unavailable" ELSE "Failed"

\* The retirement as the target's status shows it, or "none" when it must be asked.
RetirementSeen ==
    IF ~PeerUp THEN "Unavailable"
    ELSE IF rep[Target].inst # Inst \/ rep[Target].gen # co.gen \/ rep[Target].epoch # Epoch
    THEN "Stale"
    ELSE IF ~rep[Target].open /\ rep[Target].role = "None" THEN "Closed"
    ELSE IF PeerRecord(peer, MessageId) = "none" THEN "none"
    ELSE RetirementOf(PeerRecord(peer, MessageId))

Retires(how) == co' = [Step("Attesting") EXCEPT !.retire = how] /\ UNCHANGED rep

\* last_observation when the time is over.
LastRetirement ==
    IF co.retire \in TerminalRetirement THEN co.retire
    ELSE IF co.retire = "InProgress" THEN "Failed" ELSE "Unavailable"

\* The loop.  An expiry that its own checks find leaves it with what was last
\* observed; one that a gate or the deadline of a call finds is an error, which
\* ends the coordinator.
Retire ==
    /\ At("Retiring")
    /\ IF Expired THEN (Retires(LastRetirement) \/ Ended(co, "Failed")) /\ UNCHANGED mail
       ELSE IF RetirementSeen = "Closed" THEN Retires("Completed") /\ UNCHANGED mail
       ELSE IF RetirementSeen = "none"
       THEN /\ mail' = mail \cup {[id |-> MessageId, stage |-> "Retire", inst |-> Inst,
                                   gen |-> co.gen, ver |-> peer.ver]}
            /\ co' = [co EXCEPT !.asked = TRUE]
            /\ UNCHANGED rep
       ELSE /\ co.retire # RetirementSeen
            /\ co' = [co EXCEPT !.retire = RetirementSeen]
            /\ UNCHANGED <<rep, mail>>
    /\ UNCHANGED <<operator, time, trouble, run, installed, peer>>

AskTimesOut ==
    /\ pod[Primary].exists /\ co.asked /\ co.step = "Retiring"
    /\ Trouble
    /\ co' = [Step("Retiring") EXCEPT !.retire = IF Expired THEN @ ELSE "Unavailable"]
    /\ UNCHANGED <<operator, rep, time, run, installed, target>>

Attest ==
    /\ At("Attesting")
    /\ Ended(co, IF run.conn \/ cfg # "Current" THEN "Failed"
                 ELSE IF co.retire = "Completed" THEN "CommittedClean" ELSE "CommittedDegraded")
    /\ UNCHANGED <<operator, time, trouble, run, installed, target>>

-----------------------------------------------------------------------------
(* The target.                                                             *)

\* accept_peer_stage, which refuses a Retire whose time is over.
ReceiveStage ==
    \E m \in mail :
        LET reply == IF ~pod[Target].exists THEN "Unreachable"
                     ELSE IF Expired /\ PeerRecord(peer, m.id) = "none" THEN "Stale"
                     ELSE PeerReply(peer, rep[Target], m)
        IN  /\ mail' = mail \ {m}
            /\ peer' = IF reply = "Accepted" THEN PeerAccept(peer, m) ELSE peer
            /\ co' = IF co.asked /\ co.step = "Retiring" /\ m.id = MessageId
                     THEN [Step("Retiring") EXCEPT
                             !.retire = IF Expired THEN @ ELSE RetirementOf(reply)]
                     ELSE co
            /\ UNCHANGED <<operator, rep, time, trouble, run, installed>>

Staging == pod[Target].exists /\ peer.active # NoAction

\* authorize_peer_sender: the primary still runs the parent and has installed
\* the reduced configuration.
SenderAuthorizes ==
    /\ ~Expired
    /\ pod[Primary].exists /\ rep[Primary].role = "Primary" /\ rep[Primary].write = "Granted"
    /\ rep[Primary].active # NoAction /\ rep[Primary].active.id = Id(peer.active.id[1])
    /\ cfg = "Current"

Authorize ==
    /\ Staging /\ ~peer.active.auth
    /\ \/ SenderAuthorizes /\ peer' = [peer EXCEPT !.active.auth = TRUE] /\ UNCHANGED trouble
       \/ /\ (~SenderAuthorizes /\ UNCHANGED trouble) \/ Trouble
          /\ peer' = PeerEnd(peer, "Stale")
    /\ UNCHANGED <<operator, rep, time, primary, mail>>

\* A step may also fail or be given up, with its effect or without.
RunStep ==
    /\ Staging /\ peer.active.auth
    /\ LET res == StepResult(rep[Target], StepAtHand(peer), Epoch)
       IN  \/ /\ rep' = [rep EXCEPT ![Target] = res.p]
              /\ peer' = PeerStepped(peer, res.out)
              /\ UNCHANGED trouble
           \/ /\ Trouble
              /\ peer' = PeerEnd(peer, "Failed")
              /\ rep' \in {rep, [rep EXCEPT ![Target] = res.p]}
    /\ UNCHANGED <<operator, time, primary, mail>>

-----------------------------------------------------------------------------
(* Time and faults.                                                        *)

Deadline ==
    /\ Active /\ op.attempt > 0 /\ ~time.late
    /\ time' = [time EXCEPT !.late = TRUE]
    /\ UNCHANGED <<operator, rep, trouble, primary, target>>

\* The expiry of the compensation, or that of the retirement.
Expiry ==
    /\ Active /\ (co.comp \/ co.commit \/ op.comp \/ op.committed) /\ ~time.expired
    /\ time' = [time EXCEPT !.expired = TRUE]
    /\ UNCHANGED <<operator, rep, trouble, primary, target>>

Fault(r) ==
    /\ Active /\ pod[r].exists
    /\ Trouble
    /\ UNCHANGED <<op, stable, net, time, mail, installed>>

Disconnect(r) ==
    /\ Fault(r) /\ pod[r].up
    /\ pod' = [pod EXCEPT ![r].up = FALSE]
    /\ UNCHANGED <<rep, co, run, peer>>

Reconnect(r) ==
    /\ pod[r].exists /\ ~pod[r].up
    /\ pod' = [pod EXCEPT ![r].up = TRUE]
    /\ UNCHANGED <<op, stable, rep, net, time, trouble, primary, target>>

\* A process ends, with its coordinator and its runtime or its peer ledger.
Ends(r) ==
    /\ co' = IF r = Primary THEN NoCo ELSE co
    /\ run' = IF r = Primary THEN BlankRun ELSE run
    /\ peer' = IF r = Target THEN BlankPeer ELSE peer

RestartContainer(r) ==
    Fault(r) /\ Ends(r) /\ rep' = [rep EXCEPT ![r] = Restarted(@)] /\ UNCHANGED pod

LosePod(r) ==
    /\ Fault(r) /\ Ends(r)
    /\ rep' = [rep EXCEPT ![r] = Restarted(@)]
    /\ pod' = [pod EXCEPT ![r].exists = FALSE]

ReplacePod(r) ==
    /\ Fault(r) /\ Ends(r)
    /\ rep' = [rep EXCEPT ![r] = BlankProcess(@.inst + 1, @.gen + 1)]
    /\ pod' = [pod EXCEPT ![r].label = "bootstrap"]

-----------------------------------------------------------------------------

Coordinate ==
    \/ HandleIntent \/ Validate \/ InstallCatchUp \/ CatchUpInstalled \/ AwaitQuorum
    \/ InstallCurrent \/ CurrentInstalled \/ Compensate \/ WaitCancelled
    \/ RemoveConnection \/ Retire \/ Attest

Runtime == RunEffect \/ FinishWait

Serve == ReceiveStage \/ Authorize \/ RunStep

Clock == Deadline \/ Expiry

\* For a member that stays, a replaced pod is a lost one, and a process that
\* starts again only delays the quorum, as the deadline does.
Faults(r) == Disconnect(r) \/ LosePod(r) \/ (r \notin Others /\ (RestartContainer(r) \/ ReplacePod(r)))

Next ==
    \/ Reconcile \/ Coordinate \/ CallTimesOut \/ AskTimesOut \/ Runtime \/ Serve \/ Clock
    \/ \E r \in Replica : Faults(r) \/ Reconnect(r)

Spec == Init /\ [][Next]_vars

\* The controller requeues the set, the coordinator, the runtime and the target
\* go on, and time passes: some of this goes on as long as any of it can.
FairSpec ==
    Spec /\ WF_vars(Clock \/ Serve \/ Runtime \/ Coordinate \/ Reconcile)

-----------------------------------------------------------------------------
(* Properties.                                                             *)

\* The operation, the coordinator and the runtime have the types the code gives
\* them; a coordinator runs exactly while its intent is active, and it waits for
\* an effect that is queued.
TypeOK ==
    /\ op.phase \in Terminal \cup
          {"RemoveFreezeIntent", "RemoveDispatchIntent", "RemoveAwaitCoordination",
           "RemoveRecordCommit", "RemoveAwaitCleanup", "RemoveDeleteTargetPod",
           "RemovePublishTopology", "RemoveFinalize", "RemoveCompensateFinalize"}
    /\ op.attempt \in 0..MaxAttempts /\ stable \in {"Previous", "Reduced"}
    /\ run.tracker \in {"Previous", "CatchUp", "Current"}
    /\ co.step # "none" <=> rep[Primary].active # NoAction
    /\ co.asked /\ co.step # "Retiring" => run.queue # << >> /\ run.queue[Len(run.queue)].live

\* The primary that received the intent still runs.
SamePrimary == rep[Primary].gen = 0 /\ rep[Primary].inst = Inst

\* The agent never refuses what its own coordinator reports (it would end the
\* coordinator and leave its work half done).  The record that remains claims a
\* commit only with the commit and the lost connection, claims a compensation only
\* without a commit, and leaves open what happened only where it may be in doubt:
\* after the dispatch of the current configuration or in a compensation.
ReportFits ==
    /\ co.step # "none" => ValidProgress(co)
    /\ co.step = "none" /\ co.attempt > 0 =>
          LET result == rep[Primary].done[Id(co.attempt)]
          IN  \/ result \in {"CommittedClean", "CommittedDegraded"} /\ co.commit /\ co.absent
              \/ result \in {"Compensated", "CompensationIncomplete"} /\ ~co.commit
              \/ result = "Failed" /\ (co.dispatched \/ co.comp)

\* "Exact reduced Current is the irreversible commit" (protocols.md): once the
\* primary has installed it, no effect that was given up, no compensation and no
\* later attempt takes it back, and the operation never ends as one that failed.
CommitStands ==
    installed => /\ op.phase \notin {"RemoveCompensateFinalize", "Failed"}
                 /\ SamePrimary => cfg = "Current" /\ run.tracker = "Current"

\* A member is retired, fenced or deleted only once the primary's quorums are
\* those of the configuration without it.
RetiredIsNotCounted ==
    rep[Target].role = "None" \/ pod[Target].label = "retired" =>
        /\ installed
        /\ SamePrimary => run.tracker = "Current"

\* The reduced snapshot is published when nothing of the target is left: its pod
\* is gone and the primary has no connection to it.
PublishedIsClean ==
    stable = "Reduced" => /\ installed
                          /\ ~SamePod(Target)
                          /\ SamePrimary /\ pod[Primary].exists => ~run.conn

\* The state is well typed, the agent accepts and keeps true reports of its
\* coordinator, and nothing of a removed member is left at publication.
Consistent ==
    /\ TypeOK
    /\ ReportFits
    /\ PublishedIsClean

\* A removal settles.  Three waits are not bounded: an intent is frozen only when
\* every member answers, a primary that does not answer may keep its connection
\* to the target, and an operation ends only when the primary has a pod.
RemoveSettles ==
    <>(\/ op.phase \in Terminal
       \/ op.phase = "RemoveFreezeIntent" /\ ~Freezable
       \/ op.phase = "RemoveAwaitCleanup" /\ ~Observed(Primary)
       \/ op.phase = "RemoveFinalize" /\ ~pod[Primary].exists)

\* "FailedPreCommitIncomplete: commit is known not to be proven [...] while a known
\* pre-commit state remains" (agent-owned-replica-remove-protocol.md).
\* TLC refutes it; see Known counterexamples in the README.
FailedPreCommitIsKnown == op.why = "FailedPreCommitIncomplete" => ~installed

\* "exact previous Current completes compensation" (protocols.md): a removal that
\* ended as compensated leaves the primary in the previous configuration.
\* TLC refutes it; see Known counterexamples in the README.
CompensatedIsPrevious ==
    op.phase = "Failed" /\ SamePrimary => cfg = "Previous" /\ run.tracker = "Previous"
=============================================================================
