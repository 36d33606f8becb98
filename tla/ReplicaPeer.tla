------------------------------ MODULE ReplicaPeer ------------------------------
(***************************************************************************)
(* The lifecycle peer protocol: the stages that the coordinator on the     *)
(* primary asks the target of an add or a removal to run, as the target's  *)
(* agent admits, authorizes, runs and records them (replica_agent.rs).     *)
(*                                                                         *)
(* A peer is the ledger of a target process: ver its peer control version, *)
(* active the stage that runs and done the terminal observations.  A stage *)
(* is a sequence of steps, and every step is authorized by a fresh look at *)
(* the primary before it changes anything.                                 *)
(***************************************************************************)
EXTENDS ReplicaControl

BlankPeer == [ver |-> 0, active |-> NoAction, done |-> << >>]

\* find_peer_stage
PeerRecord(peer, id) ==
    IF peer.active # NoAction /\ peer.active.id = id THEN "InProgress"
    ELSE IF id \in DOMAIN peer.done THEN peer.done[id] ELSE "none"

\* accept_peer_stage: the answer to the message m.
PeerReply(peer, p, m) ==
    IF m.inst # p.inst \/ m.gen # p.gen THEN "Stale"
    ELSE IF PeerRecord(peer, m.id) # "none" THEN PeerRecord(peer, m.id)
    ELSE IF m.ver # peer.ver THEN "Stale"
    ELSE IF p.active # NoAction \/ peer.active # NoAction THEN "Rejected"
    ELSE "Accepted"

\* The ledger once m is accepted; auth tells whether the step at hand has been
\* authorized.
PeerAccept(peer, m) ==
    [peer EXCEPT !.ver = @ + 1,
                 !.active = [id |-> m.id, stage |-> m.stage, step |-> 1, auth |-> FALSE]]

\* handle_peer_completion
PeerEnd(peer, state) == Recorded(peer, peer.active.id, state)

StepsOf ==
    [Prepare |-> <<"open", "epoch", "idle">>, Activate |-> <<"activate">>,
     Cleanup |-> <<"demote", "close">>, Retire |-> <<"retire", "close">>]

Secondary == {"IdleSecondary", "ActiveSecondary"}

Next1(p) == [p |-> p, out |-> "Next"]
Done1(p) == [p |-> p, out |-> "Completed"]
Stale1(p) == [p |-> p, out |-> "Stale"]

\* Activate needs the target's progress to reach the copy's LSN.
CopyReached(p) == p.data

\* The first step of Retire: the role is given up, then the process is closed.
RetireResult(p, epoch) ==
    IF p.epoch # epoch THEN Stale1(p)
    ELSE IF ~p.open /\ p.role = "None" THEN Done1(p)
    ELSE IF p.role \in Secondary
    THEN Next1(Effect(p, [do |-> "ChangeRole", role |-> "None", epoch |-> epoch]))
    ELSE IF p.role = "None" THEN Next1(p) ELSE Stale1(p)

\* run_peer_stage: what a step does to the process p, and whether the stage
\* goes on or ends.
StepResult(p, step, epoch) ==
    CASE step = "open" -> Next1(IF p.open THEN p ELSE Effect(p, [do |-> "Open"]))
      [] step = "epoch" ->
            IF p.epoch > epoch THEN Stale1(p)
            ELSE Next1(Effect(p, [do |-> "UpdateEpoch", epoch |-> epoch]))
      [] step = "idle" ->
            IF p.epoch = epoch /\ p.role \in Secondary THEN Done1(p)
            ELSE IF p.epoch = epoch /\ p.role = "Unknown"
            THEN Done1(Effect(p, [do |-> "ChangeRole", role |-> "IdleSecondary", epoch |-> epoch]))
            ELSE Stale1(p)
      [] step = "activate" ->
            IF p.epoch = epoch /\ p.role \in Secondary /\ CopyReached(p)
            THEN Done1(Effect(p, [do |-> "ChangeRole", role |-> "ActiveSecondary",
                                  epoch |-> epoch]))
            ELSE Stale1(p)
      [] step = "demote" ->
            IF ~p.open THEN Done1(p)
            ELSE IF p.epoch # epoch THEN Stale1(p)
            ELSE Next1(IF p.role \in Secondary
                       THEN Effect(p, [do |-> "ChangeRole", role |-> "None", epoch |-> epoch])
                       ELSE p)
      [] step = "retire" -> RetireResult(p, epoch)
      [] step = "close" -> Done1(IF p.open THEN Effect(p, [do |-> "Close"]) ELSE p)

\* The ledger after a step.
PeerStepped(peer, out) ==
    IF out = "Next" THEN [peer EXCEPT !.active.step = @ + 1, !.active.auth = FALSE]
    ELSE PeerEnd(peer, out)

StepAtHand(peer) == StepsOf[peer.active.stage][peer.active.step]
=============================================================================
