------------------------------ MODULE AddReplica ------------------------------
(***************************************************************************)
(* A replica is added to a partition or rebuilt.  The operator freezes an  *)
(* intent, hands it to the primary and watches (durable/add_replica.rs);   *)
(* a coordinator on the primary prepares the target, copies the state to   *)
(* it, activates it and installs the configurations, or compensates        *)
(* (replica_agent.rs); the target runs the stages it is sent (ReplicaPeer).*)
(*                                                                         *)
(* Three configurations matter: that of the previous snapshot, the one in  *)
(* catch-up and the current one of the target snapshot, which commits the  *)
(* addition.  The primary reports one (rep[Primary].cfg), and its quorum   *)
(* tracker uses one (run.tracker); they differ when a call fails half way. *)
(***************************************************************************)
EXTENDS ReplicaPeer

CONSTANTS
    Others,        \* the secondaries that stay
    MaxAttempts,   \* bound on intents frozen
    MaxTrouble     \* bound on faults, failed effects and lost answers

ASSUME AddAssumption ==
    /\ Others \subseteq Nat \ {0, 1, 2}
    /\ {MaxAttempts, MaxTrouble} \subseteq Nat

VARIABLES
    op,        \* DurableOperationStatus
    stable,    \* the published snapshot
    rep,       \* the processes
    pod,       \* the pods: do they exist, are they reachable, role label
    net,       \* intents under way to the primary
    co,        \* the coordinator
    run,       \* the primary's runtime
    peer,      \* the target's peer ledger
    mail,      \* stages under way to the target
    time,      \* per attempt: 1 past its deadline, 2 past that of compensation
    trouble,   \* faults and failures so far
    installed  \* the target's generation of the intent that was committed

vars == <<op, stable, rep, pod, net, co, run, peer, mail, time, trouble, installed>>

Primary == 1
Target == 2
Replica == {Primary, Target} \cup Others
Epoch == 1
Retired == 0       \* the incarnation that a rebuild replaces
TargetInst == 1

NoCo == [step |-> "none", attempt |-> 0, gen |-> 0, asked |-> FALSE]
NoBuild == [gen |-> -1, state |-> "none"]
NoWait == [attempt |-> 0, state |-> "none"]
BlankRun == [conn |-> {}, tracker |-> "Previous", build |-> NoBuild, wait |-> NoWait,
             tracked |-> NoAction]

Member(inst, role) ==
    [BlankProcess(inst, 0) EXCEPT !.open = TRUE, !.role = role, !.wal = role, !.epoch = Epoch,
        !.write = IF role = "Primary" THEN "Granted" ELSE "NotPrimary",
        !.cfg = IF role = "Primary" THEN "Previous" ELSE NoConfig, !.data = TRUE]

\* start_add_replica: the target's pod is new.  A rebuild differs from a
\* scale-up in that the primary may still be connected to the incarnation that
\* is replaced.
Init ==
    /\ op = [phase |-> "AddFreezeIntent", attempt |-> 0, pgen |-> 0, tgen |-> 0,
             pending |-> FALSE, fences |-> << >>, committed |-> FALSE, late |-> FALSE]
    /\ \E conn \in SUBSET {Retired} : run = [BlankRun EXCEPT !.conn = conn]
    /\ stable = "Previous"
    /\ rep = [r \in Replica |->
                IF r = Primary THEN Member(0, "Primary")
                ELSE IF r = Target THEN BlankProcess(TargetInst, 0)
                ELSE Member(0, "ActiveSecondary")]
    /\ pod = [r \in Replica |->
                [exists |-> TRUE, up |-> TRUE,
                 label |-> IF r = Primary THEN "primary"
                           ELSE IF r = Target THEN "bootstrap" ELSE "secondary"]]
    /\ net = {} /\ co = NoCo /\ peer = BlankPeer /\ mail = {}
    /\ time = [a \in 0..MaxAttempts |-> 0]
    /\ trouble = 0
    /\ installed = -1

operator == <<op, stable, pod, net, time>>
primary == <<co, run, installed>>
target == <<peer, mail>>

-----------------------------------------------------------------------------
(* What a reconcile observes.                                              *)

Observed(r) == pod[r].exists /\ pod[r].up
Inst(r) == IF r = Target THEN TargetInst ELSE 0

Terminal == {"Completed", "Failed", "Poisoned"}
Closing == {"AddCommittedDegradedHandoff", "AddDeleteCompensatedTarget",
            "AddCompensateFinalize"}

Active == op.phase \notin Terminal

\* durable_identity_members: the members that stay must be the pods they were.
Drifted == \E r \in Others : ~pod[r].exists \/ rep[r].inst # Inst(r)

Sound == Active /\ ~Drifted
Deciding == Sound /\ op.phase \notin Closing

\* The primary is the process it was.
PrimaryExact ==
    rep[Primary].inst = Inst(Primary) /\ rep[Primary].role = "Primary"
        /\ rep[Primary].epoch = Epoch

\* primary_current_configuration_matches
Installed ==
    op.attempt > 0 /\ rep[Primary].role = "Primary" /\ rep[Primary].epoch = Epoch
        /\ rep[Primary].cfg = "Current"

Steady == Deciding /\ Observed(Primary) /\ (op.committed \/ ~Installed) /\ PrimaryExact

\* phase_deadline_unix_seconds, which is the intent's until the commit.
Late == IF op.committed THEN op.late ELSE time[op.attempt] >= 1

WithPhase(phase) == [op EXCEPT !.phase = phase, !.pending = FALSE]
Goto(phase) == [op EXCEPT !.phase = phase]

Persist(next) ==
    /\ op' = next
    /\ UNCHANGED <<stable, rep, pod, net, time, trouble, primary, target>>

-----------------------------------------------------------------------------
(* The end of an operation.                                                *)

FailClosed == Active /\ Drifted /\ Persist(WithPhase("Poisoned"))

\* CompleteDegraded: the committed snapshot is published without a serving label.
DegradedHandoff ==
    /\ op.phase = "AddCommittedDegradedHandoff" /\ Sound
    /\ op' = Goto("Failed") /\ stable' = "Target"
    /\ UNCHANGED <<rep, pod, net, time, trouble, primary, target>>

DeleteTarget ==
    /\ op.phase = "AddDeleteCompensatedTarget" /\ Sound
    /\ IF pod[Target].exists /\ rep[Target].inst = TargetInst
       THEN /\ pod' = [pod EXCEPT ![Target].exists = FALSE]
            /\ rep' = [rep EXCEPT ![Target] = Restarted(@)]
            /\ peer' = BlankPeer
            /\ UNCHANGED <<op, stable, net, time, trouble, primary, mail>>
       ELSE Persist(Goto("AddCompensateFinalize"))

\* Complete looks the primary's pod up: without one the reconcile fails.
CompensateFinalize ==
    /\ op.phase = "AddCompensateFinalize" /\ Sound /\ pod[Primary].exists
    /\ Persist(Goto("Failed"))

\* committed_degraded_decision
Degrade ==
    IF pod[Target].exists /\ pod[Target].label = "secondary"
    THEN /\ Observed(Target) \/ rep[Target].inst = TargetInst
         /\ pod' = [pod EXCEPT ![Target].label = "bootstrap"]
         /\ UNCHANGED <<op, stable, rep, net, time, trouble, primary, target>>
    ELSE Persist(Goto("AddCommittedDegradedHandoff"))

\* Mutant: an active target counts as one that was never committed.
SafelyUncommittedIfActive ==
    /\ Observed(Target) /\ rep[Target].inst = TargetInst
    /\ \/ ~rep[Target].open /\ rep[Target].role = "Unknown" /\ rep[Target].epoch = BlankEpoch
       \/ rep[Target].epoch = Epoch
    /\ op.attempt > 0 => rep[Target].gen = op.tgen

\* The target has not come as far as a commit needs.
SafelyUncommitted ==
    /\ Observed(Target) /\ rep[Target].inst = TargetInst
    /\ \/ ~rep[Target].open /\ rep[Target].role = "Unknown" /\ rep[Target].epoch = BlankEpoch
       \/ /\ op.attempt > 0
          /\ rep[Target].epoch = Epoch /\ rep[Target].role \in {"IdleSecondary", "None"}
    /\ op.attempt > 0 => rep[Target].gen = op.tgen

PrimarySilent ==
    /\ Deciding /\ ~Observed(Primary)
    /\ IF op.committed THEN Degrade
       ELSE IF pod[Primary].exists /\ rep[Primary].inst = Inst(Primary)
       THEN Late /\ Persist(WithPhase("Poisoned"))
       ELSE Persist(WithPhase(IF SafelyUncommitted THEN "AddDeleteCompensatedTarget"
                              ELSE "Poisoned"))

RecordCommit ==
    /\ Deciding /\ Observed(Primary) /\ Installed /\ ~op.committed
    /\ Persist([WithPhase("AddRecordCommit") EXCEPT !.committed = TRUE])

PrimaryChanged ==
    /\ Deciding /\ Observed(Primary) /\ (op.committed \/ ~Installed) /\ ~PrimaryExact
    /\ IF op.committed THEN Degrade ELSE Late /\ Persist(WithPhase("Poisoned"))

-----------------------------------------------------------------------------
(* The intent.                                                             *)

Freezable ==
    /\ \A r \in Others : Observed(r)
    /\ Observed(Target) /\ rep[Target].inst = TargetInst

\* Mutant: an intent that cannot be frozen is waited for without a deadline.
FreezeIntentPatiently ==
    /\ op.phase = "AddFreezeIntent" /\ Steady /\ Freezable
    /\ op.attempt < MaxAttempts
    /\ Persist([WithPhase("AddDispatchIntent") EXCEPT
                  !.attempt = @ + 1, !.pgen = rep[Primary].gen, !.tgen = rep[Target].gen])

\* freeze_intent
FreezeIntent ==
    /\ op.phase = "AddFreezeIntent" /\ Steady
    /\ IF Freezable
       THEN /\ op.attempt < MaxAttempts
            /\ Persist([WithPhase("AddDispatchIntent") EXCEPT
                          !.attempt = @ + 1, !.pgen = rep[Primary].gen, !.tgen = rep[Target].gen])
       ELSE Late /\ Persist(WithPhase("Poisoned"))

DispatchIntent ==
    /\ op.phase = "AddDispatchIntent" /\ Steady
    /\ Persist([op EXCEPT !.phase = "AddAwaitCoordination", !.pending = TRUE, !.fences = << >>])

Id(attempt) == <<"AddReplicaIntent", attempt>>
Await == op.phase = "AddAwaitCoordination" /\ Steady

\* A generation that is not the frozen one asks for another intent.
Restarts ==
    rep[Primary].gen # op.pgen \/ (Observed(Target) /\ rep[Target].gen # op.tgen)

Refreeze == Await /\ Restarts /\ Persist(WithPhase("AddFreezeIntent"))

Outcome == Record(rep[Primary], Id(op.attempt))

\* decide_await_coordination: the coordinator's result, or none in time.
AwaitEnds ==
    /\ Await /\ ~Restarts
    /\ \/ Outcome = "Compensated" /\ Persist(WithPhase("AddDeleteCompensatedTarget"))
       \/ /\ \/ Outcome = "CompensationIncomplete"
             \/ Outcome \in {"none", "Failed", "Committed"} /\ Late
             \/ Outcome = "InProgress" /\ time[op.attempt] = 2
          /\ Persist(WithPhase("Poisoned"))

Executing == Await /\ ~Restarts /\ Outcome = "none" /\ ~Late

PlanDispatch ==
    /\ Executing /\ op.fences # Fences(rep[Primary])
    /\ Persist([op EXCEPT !.fences = Fences(rep[Primary])])

Dispatch ==
    /\ Executing /\ op.fences = Fences(rep[Primary])
    /\ LET q == [id |-> Id(op.attempt), fences |-> op.fences,
                 act |-> [do |-> "Add", attempt |-> op.attempt, gen |-> op.tgen]]
       IN  q \notin net /\ net' = net \cup {q}
    /\ UNCHANGED <<op, stable, rep, pod, time, trouble, primary, target>>

-----------------------------------------------------------------------------
(* Publication.                                                            *)

\* final_attestation
Attested ==
    /\ \A r \in Replica :
          /\ Observed(r) /\ rep[r].inst = Inst(r) /\ rep[r].epoch = Epoch /\ rep[r].open
          /\ rep[r].role = IF r = Primary THEN "Primary" ELSE "ActiveSecondary"
    /\ rep[Target].gen = op.tgen
    /\ Installed /\ TargetInst \in run.conn
    /\ run.build = [gen |-> op.tgen, state |-> "Completed"]

StartPublish ==
    /\ op.phase = "AddRecordCommit" /\ Steady
    /\ Persist([op EXCEPT !.phase = "AddPublishTarget", !.late = FALSE])

Publishing == op.phase \in {"AddPublishTarget", "AddFinalize"} /\ Steady

PublishLabel ==
    /\ Publishing /\ Attested /\ pod[Target].label # "secondary"
    /\ pod' = [pod EXCEPT ![Target].label = "secondary"]
    /\ UNCHANGED <<op, stable, rep, net, time, trouble, primary, target>>

PublishDone ==
    /\ Publishing /\ Attested /\ pod[Target].label = "secondary"
    /\ IF op.phase = "AddPublishTarget"
       THEN Persist([op EXCEPT !.phase = "AddFinalize", !.late = FALSE])
       ELSE /\ op' = Goto("Completed") /\ stable' = "Target"
            /\ UNCHANGED <<rep, pod, net, time, trouble, primary, target>>

PublishGivenUp == Publishing /\ ~Attested /\ Late /\ Degrade

Reconcile ==
    \/ FailClosed \/ DegradedHandoff \/ DeleteTarget \/ CompensateFinalize \/ PrimarySilent
    \/ RecordCommit \/ PrimaryChanged \/ FreezeIntent \/ DispatchIntent \/ Refreeze
    \/ AwaitEnds \/ PlanDispatch \/ Dispatch \/ StartPublish \/ PublishLabel \/ PublishDone
    \/ PublishGivenUp

-----------------------------------------------------------------------------
(* The coordinator.                                                        *)

\* accept_correlated starts one coordinator per admitted intent.
HandleIntent ==
    /\ pod[Primary].exists
    /\ \E q \in net :
          /\ \/ /\ CanAdmit(rep[Primary], q)
                /\ rep' = [rep EXCEPT ![Primary] = Admit(@, q)]
                /\ co' = [step |-> "Validating", attempt |-> q.act.attempt, gen |-> q.act.gen,
                          asked |-> FALSE]
             \/ Refused(rep[Primary], q) /\ UNCHANGED <<rep, co>>
          /\ net' = net \ {q}
    /\ UNCHANGED <<op, stable, pod, time, trouble, run, installed, target>>

At(step) == co.step = step /\ pod[Primary].exists
cfg == rep[Primary].cfg
PastDeadline == time[co.attempt] >= 1
PastCompensation == time[co.attempt] = 2

Step(step) == [co EXCEPT !.step = step, !.asked = FALSE]

\* handle_coordinator_event: the intent's terminal record.
Ended(result) ==
    /\ co' = NoCo
    /\ rep' = [rep EXCEPT ![Primary] = Recorded(@, Id(co.attempt), result)]

\* run_add_replica_coordinator: an error compensates, unless it is too late for
\* that; compensation that fails is incomplete, a cleanup that fails is ignored.
Erred ==
    IF co.step = "Cleaning" THEN co' = Step("Verifying") /\ UNCHANGED rep
    ELSE IF co.step \in {"Settling", "Restoring", "Removing", "Verifying"}
    THEN Ended("CompensationIncomplete")
    ELSE IF cfg = "Current" THEN Ended("Failed")
    ELSE co' = Step("Compensating") /\ UNCHANGED rep

Trouble == trouble < MaxTrouble /\ trouble' = trouble + 1

\* A call fails where it must, and elsewhere at the expense of the bound.
FailsIf(cond) == (cond /\ UNCHANGED trouble) \/ Trouble

\* An effect on the runtime: it succeeds, or fails and leaves what it may.
CoEffect(step, after, next, residues) ==
    /\ At(step)
    /\ \/ run' = after /\ co' = Step(next) /\ UNCHANGED <<rep, trouble>>
       \/ /\ Trouble
          /\ run' \in residues /\ Erred
    /\ UNCHANGED <<operator, installed, target>>

Validate ==
    /\ At("Validating")
    /\ IF PastDeadline THEN Erred
       ELSE /\ co' = Step(IF cfg = "Current" THEN "Attesting"
                          ELSE IF Retired \in run.conn THEN "Retiring" ELSE "Preparing")
            /\ UNCHANGED rep
    /\ UNCHANGED <<operator, trouble, run, installed, target>>

RetireConnection ==
    CoEffect("Retiring", [run EXCEPT !.conn = @ \ {Retired}], "Preparing", {run})

\* The stage that a step asks of the target, and what follows it.
StageOf == [Preparing |-> "Prepare", Activating |-> "Activate", Attesting |-> "Activate",
            Cleaning |-> "Cleanup"]
Following == [Preparing |-> "Building", Activating |-> "InstallingCatchUp",
              Cleaning |-> "Verifying"]

PeerUp == pod[Target].exists /\ rep[Target].inst = TargetInst /\ rep[Target].gen = co.gen

\* Mutant: any secondary counts as activated.
StageHoldsEarly(stage) ==
    LET p == rep[Target]
    IN  CASE stage \in {"Prepare", "Activate"} -> p.epoch = Epoch /\ p.role \in Secondary
          [] stage = "Cleanup" -> ~p.open

\* What the target shows when a stage is done.
StageHolds(stage) ==
    LET p == rep[Target]
    IN  CASE stage = "Prepare"  -> p.epoch = Epoch /\ p.role \in Secondary
          [] stage = "Activate" -> p.epoch = Epoch /\ p.role = "ActiveSecondary" /\ p.data
          [] stage = "Cleanup"  -> ~p.open

StagePassed ==
    IF co.step = "Attesting" THEN Ended("Committed")
    ELSE co' = Step(Following[co.step]) /\ UNCHANGED rep

\* The primary's part of attest_add_replica.
PrimaryAttests == cfg = "Current" /\ TargetInst \in run.conn

\* ensure_peer_stage: the target's status says that the stage holds, was ended
\* or runs; otherwise it is sent, with the control version just read.
AskPeer ==
    /\ pod[Primary].exists /\ co.step \in DOMAIN StageOf /\ ~co.asked
    /\ LET stage == StageOf[co.step]
           id == <<co.attempt, stage>>
       IN  IF PastDeadline \/ ~PeerUp \/ (co.step = "Attesting" /\ ~PrimaryAttests)
           THEN Erred /\ UNCHANGED mail
           ELSE IF StageHolds(stage) THEN StagePassed /\ UNCHANGED mail
           ELSE IF PeerRecord(peer, id) = "none"
           THEN /\ mail' = mail \cup {[id |-> id, stage |-> stage, inst |-> TargetInst,
                                       gen |-> co.gen, ver |-> peer.ver]}
                /\ co' = [co EXCEPT !.asked = TRUE]
                /\ UNCHANGED rep
           ELSE PeerRecord(peer, id) # "InProgress" /\ Erred /\ UNCHANGED mail
    /\ UNCHANGED <<operator, trouble, run, installed, peer>>

\* The answer does not come in time; the message may still arrive.
AskTimesOut ==
    /\ pod[Primary].exists /\ co.asked
    /\ Trouble
    /\ Erred
    /\ UNCHANGED <<operator, run, installed, target>>

\* start_tracked_build
StartBuild ==
    /\ At("Building")
    /\ IF run.build = [gen |-> co.gen, state |-> "Completed"]
       THEN co' = Step("Activating") /\ UNCHANGED <<rep, run>>
       ELSE IF run.build.gen = co.gen \/ run.tracked # NoAction
       THEN Erred /\ UNCHANGED run
       ELSE /\ run' = [run EXCEPT !.build = [gen |-> co.gen, state |-> "InProgress"],
                                  !.tracked = [id |-> "build", cancelled |-> FALSE]]
            /\ co' = Step("AwaitingBuild")
            /\ UNCHANGED rep
    /\ UNCHANGED <<operator, trouble, installed, target>>

Cancelled == IF run.tracked = NoAction THEN run ELSE [run EXCEPT !.tracked.cancelled = TRUE]

\* wait_for_build and wait_for_quorum
AwaitTracked(step, state, next) ==
    /\ At(step)
    /\ \/ state = "Completed" /\ co' = Step(next) /\ UNCHANGED <<rep, run>>
       \/ state \in {"Failed", "Cancelled"} /\ Erred /\ UNCHANGED run
       \/ state = "InProgress" /\ PastDeadline /\ Erred /\ run' = Cancelled
    /\ UNCHANGED <<operator, trouble, installed, target>>

AwaitBuild == AwaitTracked("AwaitingBuild", run.build.state, "Activating")

\* The tracker takes the configuration before the target is connected to: when
\* that fails the configuration that the primary reports is the one before.
InstallCatchUp ==
    /\ At("InstallingCatchUp")
    /\ \/ /\ PeerUp /\ rep[Target].open
          /\ run' = [run EXCEPT !.tracker = "CatchUp", !.conn = @ \cup {TargetInst}]
          /\ rep' = [rep EXCEPT ![Primary].cfg = "CatchUp"]
          /\ co' = Step("StartingWait")
          /\ UNCHANGED trouble
       \/ /\ \/ /\ ~(PeerUp /\ rep[Target].open) /\ UNCHANGED trouble
                /\ run' = [run EXCEPT !.tracker = "CatchUp"]
             \/ Trouble /\ run' \in {run, [run EXCEPT !.tracker = "CatchUp"]}
          /\ Erred
    /\ UNCHANGED <<operator, installed, target>>

\* start_tracked_catch_up_quorum
StartWait ==
    /\ At("StartingWait")
    /\ IF run.tracked # NoAction THEN Erred /\ UNCHANGED run
       ELSE /\ run' = [run EXCEPT !.wait = [attempt |-> co.attempt, state |-> "InProgress"],
                                  !.tracked = [id |-> "wait", cancelled |-> FALSE]]
            /\ co' = Step("AwaitingQuorum")
            /\ UNCHANGED rep
    /\ UNCHANGED <<operator, trouble, installed, target>>

AwaitQuorum == AwaitTracked("AwaitingQuorum", run.wait.state, "InstallingCurrent")

\* Mutant: the configuration is reported before the tracker has taken it.
InstallCurrentReported ==
    /\ At("InstallingCurrent")
    /\ rep' = [rep EXCEPT ![Primary].cfg = "Current"]
    /\ installed' = co.gen
    /\ co' = Step("Attesting")
    /\ \/ run' = [run EXCEPT !.tracker = "Current"] /\ UNCHANGED trouble
       \/ Trouble /\ UNCHANGED run
    /\ UNCHANGED <<operator, target>>

\* The commit.
InstallCurrent ==
    /\ At("InstallingCurrent")
    /\ \/ /\ run' = [run EXCEPT !.tracker = "Current"]
          /\ rep' = [rep EXCEPT ![Primary].cfg = "Current"]
          /\ installed' = co.gen
          /\ co' = Step("Attesting")
          /\ UNCHANGED trouble
       \/ /\ Trouble
          /\ run' \in {run, [run EXCEPT !.tracker = "Current"]}
          /\ Erred
          /\ UNCHANGED installed
    /\ UNCHANGED <<operator, target>>

-----------------------------------------------------------------------------
(* compensate_add_replica                                                  *)

CancelTracked ==
    /\ At("Compensating")
    /\ run' = Cancelled /\ co' = Step("Settling")
    /\ UNCHANGED <<operator, rep, trouble, installed, target>>

Settle ==
    /\ At("Settling")
    /\ \/ run.tracked = NoAction /\ co' = Step("Restoring") /\ UNCHANGED rep
       \/ run.tracked # NoAction /\ PastCompensation /\ Erred
    /\ UNCHANGED <<operator, trouble, run, installed, target>>

\* The previous configuration is restored when it is not the one reported.
Restore ==
    /\ At("Restoring")
    /\ IF cfg = "Previous"
       THEN co' = Step("Removing") /\ UNCHANGED <<rep, run, trouble>>
       ELSE \/ /\ run' = [run EXCEPT !.tracker = "Previous"]
               /\ rep' = [rep EXCEPT ![Primary].cfg = "Previous"]
               /\ co' = Step("Removing")
               /\ UNCHANGED trouble
            \/ /\ Trouble
               /\ run' \in {run, [run EXCEPT !.tracker = "Previous"]}
               /\ Erred
    /\ UNCHANGED <<operator, installed, target>>

RemoveConnection ==
    CoEffect("Removing", [run EXCEPT !.conn = @ \ {TargetInst}], "Cleaning",
             {run, [run EXCEPT !.conn = @ \ {TargetInst}]})

Verify ==
    /\ At("Verifying")
    /\ IF ~PastCompensation /\ cfg = "Previous" /\ TargetInst \notin run.conn
       THEN Ended("Compensated") ELSE Erred
    /\ UNCHANGED <<operator, trouble, run, installed, target>>

-----------------------------------------------------------------------------
(* The primary's runtime: the work that is tracked.                        *)

Tracked(kind) == pod[Primary].exists /\ run.tracked # NoAction /\ run.tracked.id = kind

\* The copy reaches the process that is there.
CopyTo == pod[Target].exists /\ rep[Target].open /\ rep[Target].wal \in Secondary

FinishBuild ==
    /\ Tracked("build")
    /\ \/ /\ CopyTo /\ rep' = [rep EXCEPT ![Target].data = TRUE]
          /\ run' = [run EXCEPT !.build.state = "Completed", !.tracked = NoAction]
          /\ UNCHANGED trouble
       \/ /\ run.tracked.cancelled /\ UNCHANGED <<rep, trouble>>
          /\ run' = [run EXCEPT !.build.state = "Cancelled", !.tracked = NoAction]
       \/ /\ FailsIf(~CopyTo)
          /\ UNCHANGED rep
          /\ run' = [run EXCEPT !.build.state = "Failed", !.tracked = NoAction]
    /\ UNCHANGED <<operator, co, installed, target>>

FinishWait ==
    /\ Tracked("wait")
    /\ \/ /\ CopyTo /\ rep[Target].data /\ UNCHANGED trouble
          /\ run' = [run EXCEPT !.wait.state = "Completed", !.tracked = NoAction]
       \/ /\ run.tracked.cancelled /\ UNCHANGED trouble
          /\ run' = [run EXCEPT !.wait.state = "Cancelled", !.tracked = NoAction]
       \/ /\ Trouble
          /\ run' = [run EXCEPT !.wait.state = "Failed", !.tracked = NoAction]
    /\ UNCHANGED <<operator, rep, co, installed, target>>

-----------------------------------------------------------------------------
(* The target.                                                             *)

\* The answer reaches a coordinator that still waits for it.
ReceiveStage ==
    \E m \in mail :
        LET reply == IF pod[Target].exists THEN PeerReply(peer, rep[Target], m) ELSE "Unreachable"
        IN  /\ mail' = mail \ {m}
            /\ peer' = IF reply = "Accepted" THEN PeerAccept(peer, m) ELSE peer
            /\ IF co.asked /\ m.id = <<co.attempt, StageOf[co.step]>>
               THEN IF reply \in {"Accepted", "InProgress"}
                    THEN co' = [co EXCEPT !.asked = FALSE] /\ UNCHANGED rep
                    ELSE IF reply = "Completed" THEN StagePassed ELSE Erred
               ELSE UNCHANGED <<co, rep>>
            /\ UNCHANGED <<operator, trouble, run, installed>>

Staging == pod[Target].exists /\ peer.active # NoAction

\* authorize_peer_sender: the primary that is asked still runs the parent.
SenderAuthorizes ==
    /\ pod[Primary].exists
    /\ rep[Primary].role = "Primary" /\ rep[Primary].write = "Granted"
    /\ rep[Primary].active # NoAction /\ rep[Primary].active.id = Id(peer.active.id[1])
    /\ peer.active.stage = "Cleanup" => cfg # "Current"

Authorize ==
    /\ Staging /\ ~peer.active.auth
    /\ \/ SenderAuthorizes /\ peer' = [peer EXCEPT !.active.auth = TRUE] /\ UNCHANGED trouble
       \/ /\ FailsIf(~SenderAuthorizes)
          /\ peer' = PeerEnd(peer, "Stale")
    /\ UNCHANGED <<operator, rep, primary, mail>>

RunStep ==
    /\ Staging /\ peer.active.auth
    /\ \/ LET res == StepResult(rep[Target], StepAtHand(peer), Epoch)
          IN  /\ rep' = [rep EXCEPT ![Target] = res.p]
              /\ peer' = PeerStepped(peer, res.out)
              /\ UNCHANGED trouble
       \/ /\ Trouble
          /\ peer' = PeerEnd(peer, "Failed") /\ UNCHANGED rep
    /\ UNCHANGED <<operator, primary, mail>>

-----------------------------------------------------------------------------
(* Time and faults.                                                        *)

\* An earlier attempt's deadline is earlier.
TimePasses(a) ==
    /\ Active /\ a <= op.attempt /\ time[a] < 2
    /\ \A b \in 0..(a - 1) : time[b] > time[a]
    /\ time' = [time EXCEPT ![a] = @ + 1]
    /\ UNCHANGED <<op, stable, rep, pod, net, trouble, primary, target>>

PublishDeadline ==
    /\ op.phase \in {"AddPublishTarget", "AddFinalize"} /\ ~op.late
    /\ op' = [op EXCEPT !.late = TRUE]
    /\ UNCHANGED <<stable, rep, pod, net, time, trouble, primary, target>>

Fault(r) ==
    /\ Active /\ pod[r].exists
    /\ Trouble
    /\ UNCHANGED <<op, stable, net, time, mail, installed>>

Disconnect(r) ==
    /\ Fault(r) /\ pod[r].up
    /\ pod' = [pod EXCEPT ![r].up = FALSE]
    /\ UNCHANGED <<rep, co, run, peer>>

Reconnect(r) ==
    /\ pod[r].exists /\ ~pod[r].up
    /\ pod' = [pod EXCEPT ![r].up = TRUE]
    /\ UNCHANGED <<op, stable, rep, net, time, trouble, primary, target>>

\* A process ends, with its coordinator and its runtime or its peer ledger.
Ends(r) ==
    /\ co' = IF r = Primary THEN NoCo ELSE co
    /\ run' = IF r = Primary THEN BlankRun ELSE run
    /\ peer' = IF r = Target THEN BlankPeer ELSE peer

RestartContainer(r) ==
    Fault(r) /\ Ends(r) /\ rep' = [rep EXCEPT ![r] = Restarted(@)] /\ UNCHANGED pod

LosePod(r) ==
    /\ Fault(r) /\ Ends(r)
    /\ rep' = [rep EXCEPT ![r] = Restarted(@)]
    /\ pod' = [pod EXCEPT ![r].exists = FALSE]

ReplacePod(r) ==
    /\ Fault(r) /\ Ends(r)
    /\ rep' = [rep EXCEPT ![r] = BlankProcess(@.inst + 1, @.gen + 1)]
    /\ pod' = [pod EXCEPT ![r].label = "bootstrap"]

-----------------------------------------------------------------------------

Coordinate ==
    \/ HandleIntent \/ Validate \/ RetireConnection \/ AskPeer \/ StartBuild \/ AwaitBuild
    \/ InstallCatchUp \/ StartWait \/ AwaitQuorum \/ InstallCurrent \/ CancelTracked \/ Settle
    \/ Restore \/ RemoveConnection \/ Verify \/ FinishBuild \/ FinishWait

Serve == ReceiveStage \/ Authorize \/ RunStep

Clock == PublishDeadline \/ \E a \in DOMAIN time : TimePasses(a)

Faults(r) == Disconnect(r) \/ RestartContainer(r) \/ LosePod(r) \/ ReplacePod(r)

Next ==
    \/ Reconcile \/ Coordinate \/ AskTimesOut \/ Serve \/ Clock
    \/ \E r \in Replica : Faults(r) \/ Reconnect(r)

Spec == Init /\ [][Next]_vars

\* The controller requeues the set, the coordinator and the target go on, and
\* time passes: some of this goes on as long as any of it can.
FairSpec ==
    Spec /\ WF_vars(Clock \/ Serve \/ Coordinate \/ Reconcile)

-----------------------------------------------------------------------------
(* Properties.                                                             *)

\* The operation, the processes and the coordinator have the types the code
\* gives them; there is a coordinator exactly while its intent is active.
TypeOK ==
    /\ op.phase \in Terminal \cup Closing \cup
          {"AddFreezeIntent", "AddDispatchIntent", "AddAwaitCoordination", "AddRecordCommit",
           "AddPublishTarget", "AddFinalize"}
    /\ op.attempt \in 0..MaxAttempts /\ stable \in {"Previous", "Target"}
    /\ run.tracker \in {"Previous", "CatchUp", "Current"}
    /\ run.conn \subseteq {Retired, TargetInst}
    /\ co.step # "none" <=> rep[Primary].active # NoAction
    /\ co.asked => co.step \in DOMAIN StageOf

\* What undoes an addition: the target is deleted, or the operation ends with
\* the previous snapshot.
Undone ==
    \/ op.phase \in {"AddDeleteCompensatedTarget", "AddCompensateFinalize"}
    \/ op.phase = "Failed" /\ stable = "Previous"

\* Once the primary has installed the configuration of the intent that the
\* operator holds, the addition is not undone, whatever the operator then sees
\* of the primary and the target.
CommitStands == installed >= 0 /\ installed = op.tgen => ~Undone

\* "After commit, rollback is forbidden" (protocols.md).
\* TLC refutes it; see Known counterexamples in the README.
CommitNotUndone == installed >= 0 => ~Undone

\* A configuration is committed only for a target process that has the copy and
\* is active, and neither a late stage nor an older attempt closes it again.
CommittedTargetServes ==
    /\ stable = "Target" \/ op.committed => installed >= 0
    /\ installed >= 0 /\ pod[Target].exists /\ rep[Target].inst = TargetInst
         /\ rep[Target].gen = installed =>
          rep[Target].data /\ rep[Target].role = "ActiveSecondary"

\* Nothing reads from a target that is not committed, and no degraded addition
\* leaves it a serving label.
LabelledIsCommitted ==
    pod[Target].exists /\ pod[Target].label = "secondary" =>
        /\ installed >= 0
        /\ op.phase # "Failed"

\* The quorum rule follows the report when an addition is over: a primary that
\* was left alone counts in the configuration that is published.
PublishedIsTracked ==
    op.phase = "Completed" /\ rep[Primary].gen = op.pgen =>
        run.tracker = "Current" /\ TargetInst \in run.conn

\* The state is well typed, and labels and quorum rule agree with the commit,
\* whatever operator, coordinator and target gave up in between.
Consistent ==
    /\ TypeOK
    /\ LabelledIsCommitted
    /\ PublishedIsTracked

\* An addition settles.  One wait is not bounded: a compensated operation ends
\* only when the primary has a pod, which nothing creates while it is active.
AddSettles ==
    <>(\/ op.phase \in Terminal
       \/ op.phase = "AddFreezeIntent" /\ op.attempt = MaxAttempts
       \/ op.phase = "AddCompensateFinalize" /\ ~pod[Primary].exists)

\* "failure restores previous configuration when needed" (protocols.md): when an
\* addition is compensated the primary's quorums are those of the previous
\* configuration.
\* TLC refutes it; see Known counterexamples in the README.
CompensationRestores ==
    op.phase = "AddDeleteCompensatedTarget" /\ rep[Primary].gen = op.pgen =>
        run.tracker = "Previous"
=============================================================================
