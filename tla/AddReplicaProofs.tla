--------------------------- MODULE AddReplicaProofs ---------------------------
(***************************************************************************)
(* The commit of an addition stands, a committed target keeps its copy and *)
(* its role, and labels and quorum rule agree with the commit, for any     *)
(* number of secondaries, attempts and faults.  The argument: every        *)
(* attempt freezes a target process of its own, so a stage of one attempt  *)
(* never runs on the target of another, and an attempt that sends Cleanup  *)
(* has left the way to the commit for good.                                *)
(***************************************************************************)
EXTENDS AddReplica, TLAPS

IsRecord(f, fields) == f = [x \in fields |-> f[x]]

ProcessFields ==
    {"inst", "gen", "ver", "active", "done", "open", "role", "epoch", "wal", "write", "cfg", "data"}

OperationFields ==
    {"phase", "attempt", "pgen", "tgen", "pending", "fences", "committed", "late"}

CoordinatorFields == {"step", "attempt", "gen", "asked"}
RuntimeFields == {"conn", "tracker", "build", "wait", "tracked"}
PeerFields == {"ver", "active", "done"}
StageFields == {"id", "stage", "step", "auth"}
PodFields == {"exists", "up", "label"}

\* The primary's process is the first one of its pod.
SamePrimary == rep[Primary].gen = 0

ShapeInv ==
    /\ IsRecord(op, OperationFields) /\ op.attempt \in 0 .. MaxAttempts /\ op.tgen \in Nat
    /\ IsRecord(co, CoordinatorFields)
    /\ IsRecord(run, RuntimeFields)
    /\ IsRecord(peer, PeerFields)
    /\ IsRecord(rep, Replica)
    /\ \A r \in {Primary, Target} :
          IsRecord(rep[r], ProcessFields) /\ rep[r].gen \in Nat /\ rep[r].inst \in Nat
    /\ IsRecord(pod, Replica) /\ \A r \in Replica : IsRecord(pod[r], PodFields)

\* The attempt k was made, for the target process of generation gen: g maps the
\* attempts to the generations they froze.
Known(g, k, gen) == k \in 1 .. op.attempt /\ gen = g[k]

\* Another process of the primary has no part in the addition.
AloneInv(g) ==
    /\ op.pgen = 0
    /\ SamePrimary => pod[Primary].exists /\ rep[Primary].inst = Inst(Primary)
    /\ ~SamePrimary => /\ rep[Primary].role # "Primary" /\ rep[Primary].active = NoAction
                       /\ co = NoCo /\ run = BlankRun
    /\ \A q \in net : /\ q.fences.gen = 0 /\ q.id = Id(q.act.attempt)
                      /\ Known(g, q.act.attempt, q.act.gen)

\* A later attempt is for a later process of the target.
GensInv(g) ==
    /\ \A j, k \in 1 .. op.attempt : j < k => g[j] < g[k]
    /\ op.attempt > 0 => op.tgen = g[op.attempt]
    /\ op.tgen <= rep[Target].gen
    /\ op.phase = "AddFreezeIntent" /\ op.attempt > 0 => op.tgen < rep[Target].gen
    /\ co.step # "none" => Known(g, co.attempt, co.gen)
    /\ installed = -1 \/ \E k \in 1 .. op.attempt : installed = g[k]

\* The stages under way, and those in the ledger of the target's process, which
\* are all of the attempt for that process.
LedgerInv(g) ==
    /\ \A m \in mail : /\ m.stage \in {"Prepare", "Activate", "Cleanup"}
                       /\ m.id = <<m.id[1], m.stage>> /\ Known(g, m.id[1], m.gen)
    /\ peer.active # NoAction =>
          /\ IsRecord(peer.active, StageFields)
          /\ \/ peer.active.stage = "Prepare" /\ peer.active.step \in {1, 2, 3}
             \/ peer.active.stage = "Activate" /\ peer.active.step = 1
             \/ peer.active.stage = "Cleanup" /\ peer.active.step \in {1, 2}
          /\ peer.active.stage = "Prepare" /\ peer.active.step # 1 => rep[Target].open
          /\ peer.active.id = <<peer.active.id[1], peer.active.stage>>
          /\ Known(g, peer.active.id[1], rep[Target].gen)
    /\ \A id \in DOMAIN peer.done : /\ Known(g, id[1], rep[Target].gen)
                                    /\ peer.done[id] \in {"Completed", "Stale", "Failed"}
    /\ rep[Target].role \in Secondary => rep[Target].open

\* A coordinator runs while the intent of its attempt is active; one that finds the
\* current configuration installed only looks.
CoInv ==
    /\ co.step = "none" <=> rep[Primary].active = NoAction
    /\ co.asked => co.step \in DOMAIN StageOf
    /\ co.step # "none" => /\ rep[Primary].active.id = Id(co.attempt)
                           /\ Id(co.attempt) \notin DOMAIN rep[Primary].done
    /\ \A id \in DOMAIN rep[Primary].done : rep[Primary].done[id] # "none"
    /\ run.tracker \in {"Previous", "CatchUp", "Current"}
    /\ run.conn \subseteq {Retired, TargetInst}
    /\ SamePrimary => /\ installed >= 0 <=> cfg = "Current"
                      /\ cfg = "Current" => /\ run.tracker = "Current"
                                            /\ co.step \in {"none", "Validating", "Attesting"}

Serving == rep[Target].data /\ rep[Target].role = "ActiveSecondary"

Installing == {"InstallingCatchUp", "StartingWait", "AwaitingQuorum", "InstallingCurrent"}

\* The target has accepted a Cleanup of the attempt k, or one is under way.
CleanedUp(k) ==
    \/ peer.active # NoAction /\ peer.active.stage = "Cleanup" /\ peer.active.id[1] = k
    \/ <<k, "Cleanup">> \in DOMAIN peer.done

CleanupOf(k) == CleanedUp(k) \/ \E m \in mail : m.stage = "Cleanup" /\ m.id[1] = k

\* The target reported that it was activated by the attempt k.
Activated(k) ==
    <<k, "Activate">> \in DOMAIN peer.done /\ peer.done[<<k, "Activate">>] = "Completed"

\* The process that an attempt activated serves until the attempt cleans up, and an
\* attempt that does neither installs anything nor starts again.
ServeInv(g) ==
    /\ installed = rep[Target].gen => Serving
    /\ co.step \in Installing /\ co.gen = rep[Target].gen => Serving
    /\ \A k \in 1 .. op.attempt : Activated(k) => Serving \/ CleanedUp(k)
    /\ \A k \in 1 .. op.attempt : CleanupOf(k) =>
          /\ installed # g[k]
          /\ SamePrimary => Record(rep[Primary], Id(k)) # "none"
          /\ co.step # "none" /\ co.attempt = k => co.step \in {"Cleaning", "Verifying"}

AfterCommit ==
    {"AddRecordCommit", "AddPublishTarget", "AddFinalize", "AddCommittedDegradedHandoff",
     "Completed"}

BeforeCommit ==
    {"AddFreezeIntent", "AddDispatchIntent", "AddAwaitCoordination",
     "AddDeleteCompensatedTarget", "AddCompensateFinalize"}

\* What the operator does presumes the commit, or that the coordinator of the
\* attempt it undoes has ended.
OpInv ==
    /\ op.phase \in BeforeCommit \cup AfterCommit \cup {"Failed", "Poisoned"}
    /\ stable \in {"Previous", "Target"}
    /\ op.committed => installed >= 0 /\ op.phase \notin BeforeCommit
    /\ op.phase \in AfterCommit \/ stable = "Target" => op.committed
    /\ op.phase = "Failed" /\ op.committed => stable = "Target"
    /\ op.phase \in {"AddDispatchIntent", "AddAwaitCoordination"} => op.attempt > 0
    /\ Undone => /\ ~(installed >= 0 /\ installed = op.tgen)
                 /\ ~SamePrimary \/ (op.attempt > 0 /\ Id(op.attempt) \in DOMAIN rep[Primary].done)
    /\ pod[Target].exists /\ pod[Target].label = "secondary" =>
          op.committed /\ op.phase \notin {"AddCommittedDegradedHandoff", "Failed"}
    /\ op.phase = "Completed" /\ SamePrimary => TargetInst \in run.conn /\ cfg = "Current"

Inv(g) ==
    /\ ShapeInv /\ AloneInv(g) /\ GensInv(g) /\ LedgerInv(g) /\ CoInv /\ ServeInv(g) /\ OpInv

\* The generations are those that the attempts froze.
IInv == \E g \in [Nat -> Nat] : Inv(g)

-----------------------------------------------------------------------------
(* Facts about attempts and processes.                                     *)

LEMMA Ids ==
    Primary # Target /\ Primary \in Replica /\ Target \in Replica /\ Inst(Primary) = 0
BY DEF Primary, Target, Replica, Inst

LEMMA Intents == \A j, k : Id(j) = Id(k) => j = k
BY DEF Id

LEMMA Generations ==
    ASSUME NEW g \in [Nat -> Nat], Inv(g)
    PROVE  /\ op.attempt \in Nat /\ op.tgen \in Nat /\ rep[Target].gen \in Nat
           /\ \A k \in 1 .. op.attempt : g[k] \in Nat /\ g[k] <= op.tgen /\ g[k] <= rep[Target].gen
           /\ \A j, k \in 1 .. op.attempt : g[j] = g[k] => j = k
<1>1. op.attempt \in Nat /\ op.tgen \in Nat /\ rep[Target].gen \in Nat
  BY AddAssumption DEF Inv, ShapeInv
<1>2. /\ \A j, k \in 1 .. op.attempt : j < k => g[j] < g[k]
      /\ op.attempt > 0 => op.tgen = g[op.attempt]
      /\ op.tgen <= rep[Target].gen
  BY DEF Inv, GensInv
<1>3. ASSUME NEW k \in 1 .. op.attempt
      PROVE  g[k] \in Nat /\ g[k] <= op.tgen /\ g[k] <= rep[Target].gen
  <2>1. k \in Nat /\ k <= op.attempt /\ op.attempt > 0 /\ op.attempt \in 1 .. op.attempt
    BY <1>1
  <2>2. g[k] \in Nat /\ op.tgen = g[op.attempt]
    BY <1>2, <2>1
  <2>3. CASE k = op.attempt
    BY <1>1, <1>2, <2>2, <2>3
  <2>4. CASE k < op.attempt
    BY <1>1, <1>2, <2>1, <2>2, <2>4
  <2> QED
    BY <1>1, <2>1, <2>3, <2>4
<1>4. ASSUME NEW j \in 1 .. op.attempt, NEW k \in 1 .. op.attempt, g[j] = g[k]
      PROVE  j = k
  <2>1. j \in Nat /\ k \in Nat /\ g[j] \in Nat /\ g[k] \in Nat
    BY <1>1, <1>3
  <2>2. ~(j < k) /\ ~(k < j)
    BY <1>2, <1>4, <2>1
  <2> QED
    BY <2>1, <2>2
<1> QED
  BY <1>1, <1>3, <1>4

LEMMA CoordinatorIsAlone ==
    ASSUME NEW g, Inv(g), co.step # "none"
    PROVE  SamePrimary /\ pod[Primary].exists /\ Known(g, co.attempt, co.gen)
BY DEF Inv, AloneInv, GensInv, NoCo

LEMMA PrimaryIsAlone ==
    ASSUME NEW g, Inv(g), rep[Primary].role = "Primary"
    PROVE  SamePrimary
BY DEF Inv, AloneInv

LEMMA KnownRecord ==
    ASSUME NEW p, NEW q, NEW id, q.active = p.active, q.done = p.done
    PROVE  Record(q, id) = Record(p, id)
BY DEF Record

-----------------------------------------------------------------------------
(* The coordinator.                                                        *)

\* What a step of the coordinator leaves alone: the operator, the target's process
\* and what it has done.  A stage that is sent or accepted is not a new Cleanup,
\* except for an attempt that cleans up.
LedgerStep(g) ==
    /\ UNCHANGED <<op, stable, pod, net>>
    /\ IsRecord(peer', PeerFields) /\ peer'.done = peer.done /\ LedgerInv(g)'
    /\ \A k : CleanedUp(k) => CleanedUp(k)'
    /\ \A k : CleanupOf(k)' => CleanupOf(k) \/ (k = co.attempt /\ co.step = "Cleaning")

\* The runtime of a primary with the current configuration stays as it is.
RuntimeStep ==
    /\ IsRecord(run', RuntimeFields)
    /\ run'.tracker \in {"Previous", "CatchUp", "Current"}
    /\ run'.conn \subseteq {Retired, TargetInst}
    /\ cfg = "Current" => run'.tracker = run.tracker /\ run'.conn = run.conn

\* The coordinator goes on, with what was installed, or ends.
LEMMA CoordinatorStep ==
    ASSUME NEW g \in [Nat -> Nat], Inv(g), co.step # "none", LedgerStep(g), RuntimeStep,
           IsRecord(rep', Replica), rep'[Target] = rep[Target],
           IsRecord(rep'[Primary], ProcessFields), rep'[Primary].gen = rep[Primary].gen,
           rep'[Primary].inst = rep[Primary].inst, rep'[Primary].role = rep[Primary].role,
           IsRecord(co', CoordinatorFields), CoInv',
           co'.step # "none" => co'.attempt = co.attempt /\ co'.gen = co.gen,
           \/ installed' = installed
           \/ installed' = co.gen /\ co.step = "InstallingCurrent",
           \A k : Record(rep[Primary], Id(k)) # "none" => Record(rep'[Primary], Id(k)) # "none",
           \A id \in DOMAIN rep[Primary].done : id \in DOMAIN rep'[Primary].done,
           co'.step \in Installing =>
              co.step \in Installing \/ (co.gen = rep[Target].gen => Serving),
           co.step = "Cleaning" => co'.step \in {"none", "Cleaning", "Verifying"},
           co.step = "Verifying" => co'.step \in {"none", "Verifying"},
           cfg = "Current" => rep'[Primary].cfg = "Current"
    PROVE  Inv(g)'
<1>0. /\ op.attempt \in Nat /\ op.tgen \in Nat /\ rep[Target].gen \in Nat
      /\ \A k \in 1 .. op.attempt : g[k] \in Nat
      /\ \A j, k \in 1 .. op.attempt : g[j] = g[k] => j = k
  BY Generations
<1>1. SamePrimary /\ SamePrimary' /\ Known(g, co.attempt, co.gen) /\ UNCHANGED <<op, stable, pod, net>>
  BY CoordinatorIsAlone DEF SamePrimary, LedgerStep
<1>2. ShapeInv'
  BY <1>1 DEF Inv, ShapeInv, LedgerStep, RuntimeStep
<1>3. AloneInv(g)'
  BY <1>1 DEF Inv, AloneInv, Known, Id, Inst
<1>4. GensInv(g)'
  BY <1>0, <1>1 DEF Inv, GensInv, Known
<1>5. LedgerInv(g)'
  BY DEF LedgerStep
<1>6. Serving' <=> Serving
  BY DEF Serving
<1>7. /\ installed' = rep[Target].gen => Serving
      /\ co'.step \in Installing /\ co'.gen = rep[Target].gen => Serving
  BY DEF Inv, ServeInv, Installing
<1>8. \A k \in 1 .. op.attempt : Activated(k)' => Serving' \/ CleanedUp(k)'
  BY <1>6 DEF Inv, ServeInv, LedgerStep, Activated
<1>9. ASSUME NEW k \in 1 .. op.attempt, CleanupOf(k)'
      PROVE  /\ installed' # g[k]
             /\ Record(rep'[Primary], Id(k)) # "none"
             /\ co'.step # "none" /\ co'.attempt = k => co'.step \in {"Cleaning", "Verifying"}
  <2>1. CASE CleanupOf(k)
    <3>1. /\ installed # g[k] /\ Record(rep[Primary], Id(k)) # "none"
          /\ co.attempt = k => co.step \in {"Cleaning", "Verifying"}
      BY <1>1, <2>1 DEF Inv, ServeInv
    <3>2. installed' # g[k]
      BY <1>0, <1>1, <3>1 DEF Known
    <3> QED
      BY <3>1, <3>2
  <2>2. CASE k = co.attempt /\ co.step = "Cleaning"
    <3>1. Record(rep[Primary], Id(k)) # "none"
      BY <2>2 DEF Inv, CoInv, Record
    <3>2. installed' = installed /\ ~(installed >= 0) /\ g[k] \in Nat
      BY <1>0, <1>1, <2>2 DEF Inv, CoInv
    <3> QED
      BY <2>2, <3>1, <3>2
  <2> QED
    BY <1>9, <2>1, <2>2 DEF LedgerStep
<1>10. ServeInv(g)'
  BY <1>1, <1>6, <1>7, <1>8, <1>9 DEF ServeInv, Id
<1>11. OpInv'
  <2>1. installed >= 0 => installed' >= 0
    BY <1>0, <1>1 DEF Known
  <2>2. Undone' <=> Undone
    BY <1>1 DEF Undone
  <2>3. Undone => ~(installed' >= 0 /\ installed' = op.tgen)
    <3> SUFFICES ASSUME Undone, installed' # installed, installed' = op.tgen PROVE FALSE
      BY DEF Inv, OpInv
    <3>1. op.attempt > 0 /\ Id(op.attempt) \in DOMAIN rep[Primary].done
      BY <1>1 DEF Inv, OpInv
    <3>2. op.attempt \in 1 .. op.attempt /\ op.tgen = g[op.attempt]
      BY <1>0, <3>1 DEF Inv, GensInv
    <3>3. co.attempt = op.attempt
      BY <1>0, <1>1, <3>2 DEF Known
    <3> QED
      BY <3>1, <3>3 DEF Inv, CoInv
  <2>4. op.phase = "Completed" => TargetInst \in run'.conn /\ cfg' = "Current"
    BY <1>1 DEF Inv, OpInv, RuntimeStep, cfg
  <2> QED
    BY <1>1, <2>1, <2>2, <2>3, <2>4 DEF Inv, OpInv, Id
<1> QED
  BY <1>2, <1>3, <1>4, <1>5, <1>10, <1>11 DEF Inv

LEMMA Reconfigured ==
    ASSUME NEW p, NEW conf, IsRecord(p, ProcessFields)
    PROVE  LET q == [p EXCEPT !.cfg = conf]
           IN  /\ IsRecord(q, ProcessFields)
               /\ q.cfg = conf /\ q.active = p.active /\ q.done = p.done
               /\ q.role = p.role /\ q.gen = p.gen /\ q.inst = p.inst
BY DEF IsRecord, ProcessFields

LEMMA RecordedFields ==
    ASSUME NEW p, NEW id, NEW state, IsRecord(p, ProcessFields)
    PROVE  LET q == Recorded(p, id, state)
           IN  /\ IsRecord(q, ProcessFields) /\ q.cfg = p.cfg /\ q.active = NoAction
               /\ q.done = With(p.done, id, state)
               /\ q.role = p.role /\ q.gen = p.gen /\ q.inst = p.inst
BY DEF IsRecord, ProcessFields, Recorded

LEMMA StepFields ==
    ASSUME ShapeInv, NEW s
    PROVE  /\ IsRecord(Step(s), CoordinatorFields) /\ Step(s).step = s /\ Step(s).asked = FALSE
           /\ Step(s).attempt = co.attempt /\ Step(s).gen = co.gen
<1>1. IsRecord(co, CoordinatorFields)
  BY DEF ShapeInv
<1> QED
  BY <1>1 DEF IsRecord, CoordinatorFields, Step

LEMMA StageSteps == DOMAIN StageOf = {"Preparing", "Activating", "Attesting", "Cleaning"}
BY DEF StageOf

\* The coordinator goes on to another step, the agent's records stay.
LEMMA MoveStep ==
    ASSUME NEW g \in [Nat -> Nat], Inv(g), co.step # "none", LedgerStep(g), RuntimeStep, NEW conf,
           rep' = [rep EXCEPT ![Primary] = [@ EXCEPT !.cfg = conf]],
           IsRecord(co', CoordinatorFields), co'.step # "none",
           co'.attempt = co.attempt, co'.gen = co.gen, co'.asked => co'.step \in DOMAIN StageOf,
           \/ installed' = installed
           \/ installed' = co.gen /\ co.step = "InstallingCurrent",
           installed' >= 0 <=> conf = "Current",
           conf = "Current" => /\ run'.tracker = "Current"
                               /\ co'.step \in {"Validating", "Attesting"},
           cfg = "Current" => conf = "Current",
           co'.step \in Installing =>
              co.step \in Installing \/ (co.gen = rep[Target].gen => Serving),
           co.step = "Cleaning" => co'.step \in {"Cleaning", "Verifying"},
           co.step # "Verifying"
    PROVE  Inv(g)'
<1> DEFINE p == rep[Primary]
<1>0. IsRecord(p, ProcessFields) /\ CoInv
  BY DEF Inv, ShapeInv
<1>1. /\ IsRecord(rep', Replica) /\ rep'[Primary] = [p EXCEPT !.cfg = conf]
      /\ rep'[Target] = rep[Target]
  BY Ids DEF Inv, ShapeInv, IsRecord
<1>2. /\ IsRecord(rep'[Primary], ProcessFields)
      /\ rep'[Primary].cfg = conf /\ rep'[Primary].active = p.active /\ rep'[Primary].done = p.done
      /\ rep'[Primary].role = p.role /\ rep'[Primary].gen = p.gen /\ rep'[Primary].inst = p.inst
  <2> DEFINE q == [p EXCEPT !.cfg = conf]
  <2>1. /\ IsRecord(q, ProcessFields)
        /\ q.cfg = conf /\ q.active = p.active /\ q.done = p.done
        /\ q.role = p.role /\ q.gen = p.gen /\ q.inst = p.inst
    <3> HIDE DEF p
    <3> QED
      BY <1>0, Reconfigured, ZenonT(60)
  <2>2. rep'[Primary] = q
    BY <1>1
  <2> HIDE DEF q
  <2> QED
    BY <2>1, <2>2
<1>3. CoInv'
  <2>1. cfg' = conf
    BY <1>2 DEF cfg
  <2> QED
    BY <1>0, <1>2, <2>1 DEF CoInv, RuntimeStep, Id
<1>4. \A k : Record(rep'[Primary], Id(k)) = Record(p, Id(k))
  BY <1>2 DEF Record
<1> QED
  BY <1>1, <1>2, <1>3, <1>4, CoordinatorStep

\* The coordinator ends and leaves a record.
LEMMA EndStep ==
    ASSUME NEW g \in [Nat -> Nat], Inv(g), co.step # "none", LedgerStep(g), RuntimeStep,
           NEW result, result # "none", Ended(result), installed' = installed
    PROVE  Inv(g)'
<1> DEFINE p == rep[Primary]
           id == Id(co.attempt)
<1>0. IsRecord(p, ProcessFields) /\ CoInv /\ SamePrimary
  BY CoordinatorIsAlone DEF Inv, ShapeInv
<1>1. /\ IsRecord(rep', Replica) /\ rep'[Primary] = Recorded(p, id, result)
      /\ rep'[Target] = rep[Target]
  BY Ids DEF Inv, ShapeInv, IsRecord, Ended
<1>2. /\ IsRecord(rep'[Primary], ProcessFields)
      /\ rep'[Primary].cfg = p.cfg /\ rep'[Primary].active = NoAction
      /\ rep'[Primary].done = With(p.done, id, result)
      /\ rep'[Primary].role = p.role /\ rep'[Primary].gen = p.gen /\ rep'[Primary].inst = p.inst
  <2> DEFINE q == Recorded(p, id, result)
  <2>1. /\ IsRecord(q, ProcessFields) /\ q.cfg = p.cfg /\ q.active = NoAction
        /\ q.done = With(p.done, id, result)
        /\ q.role = p.role /\ q.gen = p.gen /\ q.inst = p.inst
    <3> HIDE DEF p, id
    <3> QED
      BY <1>0, RecordedFields, ZenonT(60)
  <2>2. rep'[Primary] = q
    BY <1>1
  <2> HIDE DEF q
  <2> QED
    BY <2>1, <2>2
<1>3. /\ IsRecord(co', CoordinatorFields) /\ co'.step = "none" /\ co'.asked = FALSE
  BY DEF Ended, NoCo, IsRecord, CoordinatorFields
<1>4. /\ DOMAIN rep'[Primary].done = DOMAIN p.done \cup {id}
      /\ rep'[Primary].done[id] = result
      /\ \A k \in DOMAIN p.done : k # id => rep'[Primary].done[k] = p.done[k]
  BY <1>2 DEF With
<1>5. CoInv'
  <2>1. cfg' = cfg
    BY <1>2 DEF cfg
  <2>2. SamePrimary' <=> SamePrimary
    BY <1>2 DEF SamePrimary
  <2> QED
    BY <1>0, <1>2, <1>3, <1>4, <2>1, <2>2 DEF CoInv, RuntimeStep
<1>6. \A k : Record(p, Id(k)) # "none" => Record(rep'[Primary], Id(k)) # "none"
  <2> SUFFICES ASSUME NEW k, Record(p, Id(k)) # "none"
               PROVE  Record(rep'[Primary], Id(k)) # "none"
    OBVIOUS
  <2>1. CASE Id(k) = id
    BY <1>2, <1>4, <2>1 DEF Record
  <2>2. CASE Id(k) # id
    <3>1. p.active.id = id
      BY <1>0 DEF CoInv
    <3>2. Id(k) \in DOMAIN p.done /\ p.done[Id(k)] # "none"
      BY <2>2, <3>1 DEF Record
    <3> QED
      BY <1>2, <1>4, <2>2, <3>2 DEF Record
  <2> QED
    BY <2>1, <2>2
<1>7. cfg = "Current" => rep'[Primary].cfg = "Current"
  BY <1>2 DEF cfg
<1> QED
  BY <1>1, <1>2, <1>3, <1>4, <1>5, <1>6, <1>7, CoordinatorStep DEF Installing

LEMMA SameRep ==
    ASSUME ShapeInv
    PROVE  rep = [rep EXCEPT ![Primary] = [@ EXCEPT !.cfg = cfg]]
<1>1. IsRecord(rep[Primary], ProcessFields) /\ IsRecord(rep, Replica)
  BY DEF ShapeInv
<1>2. rep[Primary] = [rep[Primary] EXCEPT !.cfg = cfg]
  BY <1>1 DEF IsRecord, ProcessFields, cfg
<1> QED
  BY <1>1, <1>2 DEF IsRecord

\* A step of the coordinator that installs nothing.
LEMMA PlainMove ==
    ASSUME NEW g \in [Nat -> Nat], Inv(g), co.step # "none", LedgerStep(g), RuntimeStep,
           UNCHANGED <<rep, installed>>, NEW s, co' = Step(s),
           s # "none", cfg = "Current" => s = "Attesting",
           s \in Installing => co.step \in Installing \/ (co.gen = rep[Target].gen => Serving),
           co.step = "Cleaning" => s = "Verifying", co.step # "Verifying"
    PROVE  Inv(g)'
<1>0. ShapeInv /\ CoInv /\ SamePrimary
  BY CoordinatorIsAlone DEF Inv
<1>1. /\ IsRecord(co', CoordinatorFields) /\ co'.step = s /\ co'.asked = FALSE
      /\ co'.attempt = co.attempt /\ co'.gen = co.gen
  BY <1>0, StepFields
<1>2. rep' = [rep EXCEPT ![Primary] = [@ EXCEPT !.cfg = cfg]]
  BY <1>0, SameRep
<1>3. /\ installed >= 0 <=> cfg = "Current"
      /\ cfg = "Current" => run'.tracker = "Current"
  BY <1>0 DEF CoInv, RuntimeStep
<1> QED
  BY <1>1, <1>2, <1>3, MoveStep

\* run_add_replica_coordinator: what an error leads to.
LEMMA ErredStep ==
    ASSUME NEW g \in [Nat -> Nat], Inv(g), co.step # "none", LedgerStep(g), RuntimeStep,
           Erred, installed' = installed
    PROVE  Inv(g)'
<1>1. CASE co.step = "Cleaning"
  <2>1. co' = Step("Verifying") /\ UNCHANGED rep
    BY <1>1 DEF Erred
  <2>2. cfg # "Current"
    BY <1>1, CoordinatorIsAlone DEF Inv, CoInv
  <2> QED
    BY <1>1, <2>1, <2>2, PlainMove DEF Installing
<1>2. CASE co.step # "Cleaning" /\ (Ended("CompensationIncomplete") \/ Ended("Failed"))
  BY <1>2, EndStep
<1>3. CASE /\ co.step \notin {"Cleaning", "Settling", "Restoring", "Removing", "Verifying"}
           /\ cfg # "Current" /\ co' = Step("Compensating") /\ UNCHANGED rep
  BY <1>3, PlainMove DEF Installing
<1> QED
  BY <1>1, <1>2, <1>3 DEF Erred

\* Nothing is sent or accepted.
LEMMA QuietLedger ==
    ASSUME NEW g, Inv(g), UNCHANGED <<operator, target>>, rep'[Target] = rep[Target]
    PROVE  LedgerStep(g)
BY DEF LedgerStep, operator, target, Inv, ShapeInv, LedgerInv, Known, CleanupOf, CleanedUp

LEMMA QuietRuntime ==
    ASSUME NEW g, Inv(g), UNCHANGED run
    PROVE  RuntimeStep
BY DEF RuntimeStep, Inv, ShapeInv, CoInv

\* Whatever the coordinator does to its own records.
LEMMA SameTarget ==
    ASSUME NEW g, Inv(g), UNCHANGED rep \/ (\E result : Ended(result)) \/ Erred
    PROVE  rep'[Target] = rep[Target]
BY Ids DEF Ended, Erred, Inv, ShapeInv, IsRecord

-----------------------------------------------------------------------------
(* The steps of the coordinator.                                           *)

\* Before the commit the coordinator does as it likes with the runtime.
LEMMA Working ==
    ASSUME NEW g, Inv(g), co.step \notin {"none", "Validating", "Attesting"}
    PROVE  cfg # "Current"
BY CoordinatorIsAlone DEF Inv, CoInv

LEMMA WorkingRuntime ==
    ASSUME NEW g, Inv(g), co.step \notin {"none", "Validating", "Attesting"},
           IsRecord(run', RuntimeFields), run'.tracker \in {run.tracker, "Previous", "CatchUp", "Current"},
           run'.conn \subseteq run.conn \cup {TargetInst}
    PROVE  RuntimeStep
BY Working DEF RuntimeStep, Inv, CoInv

LEMMA CancelledFields ==
    ASSUME ShapeInv
    PROVE  /\ IsRecord(Cancelled, RuntimeFields)
           /\ Cancelled.tracker = run.tracker /\ Cancelled.conn = run.conn
<1>1. IsRecord(run, RuntimeFields)
  BY DEF ShapeInv
<1> QED
  BY <1>1 DEF Cancelled, IsRecord, RuntimeFields

LEMMA ValidateStep ==
    ASSUME NEW g \in [Nat -> Nat], Inv(g), Validate
    PROVE  Inv(g)'
<1>1. /\ co.step = "Validating" /\ UNCHANGED <<operator, target, run, installed>>
      /\ Erred \/ UNCHANGED rep
  BY DEF Validate, At
<1>2. LedgerStep(g) /\ RuntimeStep
  BY <1>1, SameTarget, QuietLedger, QuietRuntime
<1>3. CASE Erred
  BY <1>1, <1>2, <1>3, ErredStep
<1>4. CASE UNCHANGED rep /\ co' = Step("Attesting")
  BY <1>1, <1>2, <1>4, PlainMove DEF Installing
<1>5. CASE cfg # "Current" /\ UNCHANGED rep /\ co' = Step("Retiring")
  BY <1>1, <1>2, <1>5, PlainMove DEF Installing
<1>6. CASE cfg # "Current" /\ UNCHANGED rep /\ co' = Step("Preparing")
  BY <1>1, <1>2, <1>6, PlainMove DEF Installing
<1> QED
  BY <1>3, <1>4, <1>5, <1>6 DEF Validate

LEMMA RetireConnectionStep ==
    ASSUME NEW g \in [Nat -> Nat], Inv(g), RetireConnection
    PROVE  Inv(g)'
<1>1. /\ co.step = "Retiring" /\ UNCHANGED <<operator, target, installed>>
      /\ \/ /\ run' = [run EXCEPT !.conn = @ \ {Retired}]
            /\ co' = Step("Preparing") /\ UNCHANGED rep
         \/ run' = run /\ Erred
  BY DEF RetireConnection, CoEffect, At
<1>2. LedgerStep(g) /\ cfg # "Current" /\ ShapeInv
  BY <1>1, SameTarget, QuietLedger, Working DEF Inv
<1>3. CASE run' = run /\ Erred
  BY <1>1, <1>2, <1>3, QuietRuntime, ErredStep
<1>4. CASE /\ run' = [run EXCEPT !.conn = @ \ {Retired}]
           /\ co' = Step("Preparing") /\ UNCHANGED rep
  <2>1. IsRecord(run', RuntimeFields) /\ run'.tracker = run.tracker /\ run'.conn = run.conn \ {Retired}
    <3>1. IsRecord(run, RuntimeFields)
      BY <1>2 DEF ShapeInv
    <3> QED
      BY <1>4, <3>1 DEF IsRecord, RuntimeFields
  <2>2. RuntimeStep
    BY <1>1, <2>1, WorkingRuntime
  <2> QED
    BY <1>1, <1>2, <1>4, <2>2, PlainMove DEF Installing
<1> QED
  BY <1>1, <1>3, <1>4

LEMMA RemoveConnectionStep ==
    ASSUME NEW g \in [Nat -> Nat], Inv(g), RemoveConnection
    PROVE  Inv(g)'
<1> DEFINE s == [run EXCEPT !.conn = @ \ {TargetInst}]
<1>1. /\ co.step = "Removing" /\ UNCHANGED <<operator, target, installed>>
      /\ run' = run \/ run' = s
      /\ Erred \/ (co' = Step("Cleaning") /\ UNCHANGED rep)
  BY DEF RemoveConnection, CoEffect, At
<1>2. LedgerStep(g) /\ cfg # "Current" /\ ShapeInv
  BY <1>1, SameTarget, QuietLedger, Working DEF Inv
<1>3. IsRecord(s, RuntimeFields) /\ s.tracker = run.tracker /\ s.conn = run.conn \ {TargetInst}
  <2>1. IsRecord(run, RuntimeFields)
    BY <1>2 DEF ShapeInv
  <2> QED
    BY <2>1 DEF IsRecord, RuntimeFields
<1> HIDE DEF s
<1>4. RuntimeStep
  BY <1>1, <1>2, <1>3, WorkingRuntime DEF ShapeInv
<1>5. CASE Erred
  BY <1>1, <1>2, <1>4, <1>5, ErredStep
<1>6. CASE co' = Step("Cleaning") /\ UNCHANGED rep
  BY <1>1, <1>2, <1>4, <1>6, PlainMove DEF Installing
<1> QED
  BY <1>1, <1>5, <1>6

LEMMA StartBuildStep ==
    ASSUME NEW g \in [Nat -> Nat], Inv(g), StartBuild
    PROVE  Inv(g)'
<1> DEFINE s == [run EXCEPT !.build = [gen |-> co.gen, state |-> "InProgress"],
                            !.tracked = [id |-> "build", cancelled |-> FALSE]]
<1>1. /\ co.step = "Building" /\ UNCHANGED <<operator, target, installed>>
      /\ run' = run \/ run' = s
      /\ \/ Erred
         \/ co' = Step("Activating") /\ UNCHANGED rep
         \/ co' = Step("AwaitingBuild") /\ UNCHANGED rep
  BY DEF StartBuild, At
<1>2. LedgerStep(g) /\ cfg # "Current" /\ ShapeInv
  BY <1>1, SameTarget, QuietLedger, Working DEF Inv
<1>3. IsRecord(s, RuntimeFields) /\ s.tracker = run.tracker /\ s.conn = run.conn
  <2>1. IsRecord(run, RuntimeFields)
    BY <1>2 DEF ShapeInv
  <2> QED
    BY <2>1 DEF IsRecord, RuntimeFields
<1> HIDE DEF s
<1>4. RuntimeStep
  BY <1>1, <1>2, <1>3, WorkingRuntime DEF ShapeInv
<1>5. CASE Erred
  BY <1>1, <1>2, <1>4, <1>5, ErredStep
<1>6. CASE co' = Step("Activating") /\ UNCHANGED rep
  BY <1>1, <1>2, <1>4, <1>6, PlainMove DEF Installing
<1>7. CASE co' = Step("AwaitingBuild") /\ UNCHANGED rep
  BY <1>1, <1>2, <1>4, <1>7, PlainMove DEF Installing
<1> QED
  BY <1>1, <1>5, <1>6, <1>7

LEMMA AwaitTrackedStep ==
    ASSUME NEW g \in [Nat -> Nat], Inv(g), NEW step, NEW state, NEW next,
           AwaitTracked(step, state, next),
           \/ step = "AwaitingBuild" /\ next = "Activating"
           \/ step = "AwaitingQuorum" /\ next = "InstallingCurrent"
    PROVE  Inv(g)'
<1>1. /\ co.step = step /\ UNCHANGED <<operator, target, installed>>
      /\ run' = run \/ run' = Cancelled
      /\ Erred \/ (co' = Step(next) /\ UNCHANGED rep)
  BY DEF AwaitTracked, At
<1>2. LedgerStep(g) /\ cfg # "Current" /\ ShapeInv
  BY <1>1, SameTarget, QuietLedger, Working DEF Inv
<1>3. RuntimeStep
  BY <1>1, <1>2, CancelledFields, WorkingRuntime DEF ShapeInv
<1>4. CASE Erred
  BY <1>1, <1>2, <1>3, <1>4, ErredStep
<1>5. CASE co' = Step(next) /\ UNCHANGED rep
  BY <1>1, <1>2, <1>3, <1>5, PlainMove DEF Installing
<1> QED
  BY <1>1, <1>4, <1>5

LEMMA StartWaitStep ==
    ASSUME NEW g \in [Nat -> Nat], Inv(g), StartWait
    PROVE  Inv(g)'
<1> DEFINE s == [run EXCEPT !.wait = [attempt |-> co.attempt, state |-> "InProgress"],
                            !.tracked = [id |-> "wait", cancelled |-> FALSE]]
<1>1. /\ co.step = "StartingWait" /\ UNCHANGED <<operator, target, installed>>
      /\ run' = run \/ run' = s
      /\ Erred \/ (co' = Step("AwaitingQuorum") /\ UNCHANGED rep)
  BY DEF StartWait, At
<1>2. LedgerStep(g) /\ cfg # "Current" /\ ShapeInv
  BY <1>1, SameTarget, QuietLedger, Working DEF Inv
<1>3. IsRecord(s, RuntimeFields) /\ s.tracker = run.tracker /\ s.conn = run.conn
  <2>1. IsRecord(run, RuntimeFields)
    BY <1>2 DEF ShapeInv
  <2> QED
    BY <2>1 DEF IsRecord, RuntimeFields
<1> HIDE DEF s
<1>4. RuntimeStep
  BY <1>1, <1>2, <1>3, WorkingRuntime DEF ShapeInv
<1>5. CASE Erred
  BY <1>1, <1>2, <1>4, <1>5, ErredStep
<1>6. CASE co' = Step("AwaitingQuorum") /\ UNCHANGED rep
  BY <1>1, <1>2, <1>4, <1>6, PlainMove DEF Installing
<1> QED
  BY <1>1, <1>5, <1>6

LEMMA CancelTrackedStep ==
    ASSUME NEW g \in [Nat -> Nat], Inv(g), CancelTracked
    PROVE  Inv(g)'
<1>1. /\ co.step = "Compensating" /\ UNCHANGED <<operator, target, installed, rep>>
      /\ run' = Cancelled /\ co' = Step("Settling")
  BY DEF CancelTracked, At
<1>2. LedgerStep(g) /\ cfg # "Current" /\ ShapeInv
  BY <1>1, QuietLedger, Working DEF Inv
<1>3. RuntimeStep
  BY <1>1, <1>2, CancelledFields, WorkingRuntime
<1> QED
  BY <1>1, <1>2, <1>3, PlainMove DEF Installing

LEMMA SettleStep ==
    ASSUME NEW g \in [Nat -> Nat], Inv(g), Settle
    PROVE  Inv(g)'
<1>1. /\ co.step = "Settling" /\ UNCHANGED <<operator, target, installed, run>>
      /\ Erred \/ (co' = Step("Restoring") /\ UNCHANGED rep)
  BY DEF Settle, At
<1>2. LedgerStep(g) /\ cfg # "Current" /\ RuntimeStep
  BY <1>1, SameTarget, QuietLedger, QuietRuntime, Working
<1>3. CASE Erred
  BY <1>1, <1>2, <1>3, ErredStep
<1>4. CASE co' = Step("Restoring") /\ UNCHANGED rep
  BY <1>1, <1>2, <1>4, PlainMove DEF Installing
<1> QED
  BY <1>1, <1>3, <1>4

LEMMA VerifyStep ==
    ASSUME NEW g \in [Nat -> Nat], Inv(g), Verify
    PROVE  Inv(g)'
<1>1. /\ co.step = "Verifying" /\ UNCHANGED <<operator, target, installed, run>>
      /\ Erred \/ Ended("Compensated")
  BY DEF Verify, At
<1>2. LedgerStep(g) /\ RuntimeStep
  BY <1>1, SameTarget, QuietLedger, QuietRuntime
<1>3. CASE Erred
  BY <1>1, <1>2, <1>3, ErredStep
<1>4. CASE Ended("Compensated")
  BY <1>1, <1>2, <1>4, EndStep
<1> QED
  BY <1>1, <1>3, <1>4

\* A configuration is installed, before the commit or as the commit.
LEMMA ReconfigureStep ==
    ASSUME NEW g \in [Nat -> Nat], Inv(g), co.step \notin {"none", "Validating", "Attesting",
              "Cleaning", "Verifying"},
           UNCHANGED <<operator, target>>, RuntimeStep, NEW conf, NEW s, co' = Step(s),
           rep' = [rep EXCEPT ![Primary].cfg = conf],
           \/ conf = "Current" /\ installed' = co.gen /\ run'.tracker = "Current"
                 /\ co.step = "InstallingCurrent" /\ s = "Attesting"
           \/ conf \in {"CatchUp", "Previous"} /\ installed' = installed
                 /\ s # "none" /\ (s \in Installing => co.step \in Installing)
    PROVE  Inv(g)'
<1>0. ShapeInv /\ CoInv /\ SamePrimary /\ cfg # "Current" /\ Known(g, co.attempt, co.gen)
  BY CoordinatorIsAlone, Working DEF Inv
<1>1. /\ IsRecord(co', CoordinatorFields) /\ co'.step = s /\ co'.asked = FALSE
      /\ co'.attempt = co.attempt /\ co'.gen = co.gen
  BY <1>0, StepFields
<1>2. rep' = [rep EXCEPT ![Primary] = [@ EXCEPT !.cfg = conf]] /\ rep'[Target] = rep[Target]
  BY <1>0, Ids DEF ShapeInv, IsRecord
<1>3. LedgerStep(g)
  BY <1>2, QuietLedger
<1>4. co.gen \in Nat /\ ~(installed >= 0)
  BY <1>0, Generations DEF Known, CoInv
<1>5. installed' >= 0 <=> conf = "Current"
  BY <1>4
<1> QED
  BY <1>0, <1>1, <1>2, <1>3, <1>5, MoveStep DEF Installing

LEMMA InstallCatchUpStep ==
    ASSUME NEW g \in [Nat -> Nat], Inv(g), InstallCatchUp
    PROVE  Inv(g)'
<1> DEFINE s == [run EXCEPT !.tracker = "CatchUp", !.conn = @ \cup {TargetInst}]
           t == [run EXCEPT !.tracker = "CatchUp"]
<1>1. /\ co.step = "InstallingCatchUp" /\ UNCHANGED <<operator, target, installed>>
      /\ \/ /\ run' = s /\ co' = Step("StartingWait")
            /\ rep' = [rep EXCEPT ![Primary].cfg = "CatchUp"]
         \/ (run' = run \/ run' = t) /\ Erred
  BY DEF InstallCatchUp, At
<1>2. ShapeInv
  BY DEF Inv
<1>3. /\ IsRecord(s, RuntimeFields) /\ s.tracker = "CatchUp" /\ s.conn = run.conn \cup {TargetInst}
      /\ IsRecord(t, RuntimeFields) /\ t.tracker = "CatchUp" /\ t.conn = run.conn
  <2>1. IsRecord(run, RuntimeFields)
    BY <1>2 DEF ShapeInv
  <2> QED
    BY <2>1 DEF IsRecord, RuntimeFields
<1> HIDE DEF s, t
<1>4. RuntimeStep
  BY <1>1, <1>2, <1>3, WorkingRuntime DEF ShapeInv
<1>5. CASE Erred /\ UNCHANGED installed
  BY <1>1, <1>4, <1>5, SameTarget, QuietLedger, ErredStep
<1>6. CASE co' = Step("StartingWait") /\ rep' = [rep EXCEPT ![Primary].cfg = "CatchUp"]
  BY <1>1, <1>4, <1>6, ReconfigureStep DEF Installing
<1> QED
  BY <1>1, <1>5, <1>6

LEMMA InstallCurrentStep ==
    ASSUME NEW g \in [Nat -> Nat], Inv(g), InstallCurrent
    PROVE  Inv(g)'
<1> DEFINE t == [run EXCEPT !.tracker = "Current"]
<1>1. /\ co.step = "InstallingCurrent" /\ UNCHANGED <<operator, target>>
      /\ \/ /\ run' = t /\ co' = Step("Attesting") /\ installed' = co.gen
            /\ rep' = [rep EXCEPT ![Primary].cfg = "Current"]
         \/ (run' = run \/ run' = t) /\ Erred /\ UNCHANGED installed
  BY DEF InstallCurrent, At
<1>2. ShapeInv
  BY DEF Inv
<1>3. IsRecord(t, RuntimeFields) /\ t.tracker = "Current" /\ t.conn = run.conn
  <2>1. IsRecord(run, RuntimeFields)
    BY <1>2 DEF ShapeInv
  <2> QED
    BY <2>1 DEF IsRecord, RuntimeFields
<1> HIDE DEF t
<1>4. RuntimeStep
  BY <1>1, <1>2, <1>3, WorkingRuntime DEF ShapeInv
<1>5. CASE Erred /\ UNCHANGED installed
  BY <1>1, <1>4, <1>5, SameTarget, QuietLedger, ErredStep
<1>6. CASE /\ run' = t /\ co' = Step("Attesting") /\ installed' = co.gen
           /\ rep' = [rep EXCEPT ![Primary].cfg = "Current"]
  BY <1>1, <1>3, <1>4, <1>6, ReconfigureStep
<1> QED
  BY <1>1, <1>5, <1>6

LEMMA RestoreStep ==
    ASSUME NEW g \in [Nat -> Nat], Inv(g), Restore
    PROVE  Inv(g)'
<1> DEFINE t == [run EXCEPT !.tracker = "Previous"]
<1>1. /\ co.step = "Restoring" /\ UNCHANGED <<operator, target, installed>>
      /\ run' = run \/ run' = t
      /\ \/ co' = Step("Removing") /\ UNCHANGED rep
         \/ co' = Step("Removing") /\ rep' = [rep EXCEPT ![Primary].cfg = "Previous"]
         \/ Erred
  BY DEF Restore, At
<1>2. ShapeInv /\ cfg # "Current"
  BY <1>1, Working DEF Inv
<1>3. IsRecord(t, RuntimeFields) /\ t.tracker = "Previous" /\ t.conn = run.conn
  <2>1. IsRecord(run, RuntimeFields)
    BY <1>2 DEF ShapeInv
  <2> QED
    BY <2>1 DEF IsRecord, RuntimeFields
<1> HIDE DEF t
<1>4. RuntimeStep
  BY <1>1, <1>2, <1>3, WorkingRuntime DEF ShapeInv
<1>5. CASE Erred
  BY <1>1, <1>4, <1>5, SameTarget, QuietLedger, ErredStep
<1>6. CASE co' = Step("Removing") /\ UNCHANGED rep
  BY <1>1, <1>2, <1>4, <1>6, QuietLedger, PlainMove DEF Installing
<1>7. CASE co' = Step("Removing") /\ rep' = [rep EXCEPT ![Primary].cfg = "Previous"]
  BY <1>1, <1>4, <1>7, ReconfigureStep DEF Installing
<1> QED
  BY <1>1, <1>5, <1>6, <1>7

LEMMA AskTimesOutStep ==
    ASSUME NEW g \in [Nat -> Nat], Inv(g), AskTimesOut
    PROVE  Inv(g)'
<1>1. UNCHANGED <<operator, target, installed, run>> /\ Erred /\ co.asked
  BY DEF AskTimesOut
<1>2. co.step # "none"
  BY <1>1, StageSteps DEF Inv, CoInv
<1> QED
  BY <1>1, <1>2, SameTarget, QuietLedger, QuietRuntime, ErredStep

-----------------------------------------------------------------------------
(* The stages.                                                             *)

LEMMA Stages ==
    /\ StageOf["Preparing"] = "Prepare" /\ StageOf["Activating"] = "Activate"
    /\ StageOf["Attesting"] = "Activate" /\ StageOf["Cleaning"] = "Cleanup"
    /\ Following["Preparing"] = "Building" /\ Following["Activating"] = "InstallingCatchUp"
    /\ Following["Cleaning"] = "Verifying"
BY DEF StageOf, Following

\* A stage that holds takes the coordinator on; the one that needs an activated
\* target has one.
LEMMA StagePassedStep ==
    ASSUME NEW g \in [Nat -> Nat], Inv(g), co.step \in DOMAIN StageOf, LedgerStep(g), RuntimeStep,
           UNCHANGED installed, StagePassed,
           co.step = "Activating" => (co.gen = rep[Target].gen => Serving)
    PROVE  Inv(g)'
<1>1. CASE co.step = "Attesting"
  BY <1>1, EndStep DEF StagePassed
<1>2. CASE co.step \in {"Preparing", "Activating", "Cleaning"}
  <2>1. co' = Step(Following[co.step]) /\ UNCHANGED rep /\ cfg # "Current"
    BY <1>2, Working DEF StagePassed
  <2>2. CASE co.step = "Preparing"
    BY <2>1, <2>2, Stages, PlainMove DEF Installing
  <2>3. CASE co.step = "Activating"
    BY <2>1, <2>3, Stages, PlainMove DEF Installing
  <2>4. CASE co.step = "Cleaning"
    BY <2>1, <2>4, Stages, PlainMove DEF Installing
  <2> QED
    BY <1>2, <2>2, <2>3, <2>4
<1> QED
  BY <1>1, <1>2, StageSteps

\* A stage is sent.
LEMMA SendStep ==
    ASSUME NEW g \in [Nat -> Nat], Inv(g), co.step \in DOMAIN StageOf,
           UNCHANGED <<operator, peer, run, installed, rep>>, NEW ver,
           mail' = mail \cup {[id |-> <<co.attempt, StageOf[co.step]>>, stage |-> StageOf[co.step],
                               inst |-> TargetInst, gen |-> co.gen, ver |-> ver]},
           co' = [co EXCEPT !.asked = TRUE]
    PROVE  Inv(g)'
<1> DEFINE m == [id |-> <<co.attempt, StageOf[co.step]>>, stage |-> StageOf[co.step],
                 inst |-> TargetInst, gen |-> co.gen, ver |-> ver]
<1>0. /\ co.step # "none" /\ SamePrimary /\ Known(g, co.attempt, co.gen) /\ ShapeInv /\ CoInv
      /\ IsRecord(co, CoordinatorFields)
  BY StageSteps, CoordinatorIsAlone DEF Inv, ShapeInv
<1>1. m.id[1] = co.attempt /\ m.id = <<co.attempt, m.stage>> /\ m.stage = StageOf[co.step] /\ m.gen = co.gen
  OBVIOUS
<1>2. /\ m.stage \in {"Prepare", "Activate", "Cleanup"}
      /\ m.stage = "Cleanup" => co.step = "Cleaning"
  BY <1>1, StageSteps, Stages
<1>3. mail' = mail \cup {m} /\ UNCHANGED <<op, stable, pod, net>>
  BY DEF operator
<1> HIDE DEF m
<1>4. LedgerStep(g)
  <2>1. LedgerInv(g)'
    BY <1>0, <1>1, <1>2, <1>3 DEF Inv, LedgerInv, Known
  <2>2. \A k : CleanedUp(k)' <=> CleanedUp(k)
    BY DEF CleanedUp
  <2>3. \A k : CleanupOf(k)' => CleanupOf(k) \/ (k = co.attempt /\ co.step = "Cleaning")
    BY <1>1, <1>2, <1>3, <2>2 DEF CleanupOf
  <2> QED
    BY <1>0, <1>3, <2>1, <2>2, <2>3 DEF LedgerStep, ShapeInv
<1>5. /\ IsRecord(co', CoordinatorFields) /\ co'.step = co.step
      /\ co'.attempt = co.attempt /\ co'.gen = co.gen
  BY <1>0 DEF IsRecord, CoordinatorFields
<1>6. rep' = [rep EXCEPT ![Primary] = [@ EXCEPT !.cfg = cfg]]
  BY <1>0, SameRep
<1>7. /\ installed >= 0 <=> cfg = "Current"
      /\ cfg = "Current" => run.tracker = "Current" /\ co.step \in {"Validating", "Attesting"}
  BY <1>0 DEF CoInv
<1> QED
  BY <1>0, <1>4, <1>5, <1>6, <1>7, QuietRuntime, StageSteps, MoveStep

LEMMA ActivateHolds == StageHolds("Activate") => Serving
<1>1. StageHolds("Activate") <=>
         rep[Target].epoch = Epoch /\ rep[Target].role = "ActiveSecondary" /\ rep[Target].data
  BY Zenon DEF StageHolds
<1> QED
  BY <1>1 DEF Serving

LEMMA AskPeerStep ==
    ASSUME NEW g \in [Nat -> Nat], Inv(g), AskPeer
    PROVE  Inv(g)'
<1>1. co.step \in DOMAIN StageOf /\ UNCHANGED <<operator, run, installed, peer>>
  BY DEF AskPeer
<1>2. co.step # "none"
  BY <1>1, StageSteps
<1>3. CASE Erred /\ UNCHANGED mail
  BY <1>1, <1>2, <1>3, SameTarget, QuietLedger, QuietRuntime, ErredStep DEF target
<1>4. CASE StageHolds(StageOf[co.step]) /\ StagePassed /\ UNCHANGED mail
  <2>1. rep'[Target] = rep[Target]
    BY <1>4, SameTarget DEF StagePassed
  <2>2. LedgerStep(g) /\ RuntimeStep
    BY <1>1, <1>4, <2>1, QuietLedger, QuietRuntime DEF target
  <2>3. co.step = "Activating" => Serving
    BY <1>4, Stages, ActivateHolds
  <2> QED
    BY <1>1, <1>4, <2>2, <2>3, StagePassedStep
<1>5. CASE /\ mail' = mail \cup {[id |-> <<co.attempt, StageOf[co.step]>>, stage |-> StageOf[co.step],
                                  inst |-> TargetInst, gen |-> co.gen, ver |-> peer.ver]}
           /\ co' = [co EXCEPT !.asked = TRUE] /\ UNCHANGED rep
  BY <1>1, <1>5, SendStep
<1> QED
  BY <1>3, <1>4, <1>5 DEF AskPeer

LEMMA PeerAcceptFields ==
    ASSUME NEW p, NEW m, IsRecord(p, PeerFields)
    PROVE  LET a == PeerAccept(p, m)
           IN  /\ IsRecord(a, PeerFields) /\ IsRecord(a.active, StageFields) /\ a.done = p.done
               /\ a.active.id = m.id /\ a.active.stage = m.stage /\ a.active.step = 1
BY DEF IsRecord, PeerFields, StageFields, PeerAccept

LEMMA PeerEndFields ==
    ASSUME NEW p, NEW state, IsRecord(p, PeerFields)
    PROVE  LET e == PeerEnd(p, state)
           IN  /\ IsRecord(e, PeerFields) /\ e.active = NoAction
               /\ DOMAIN e.done = DOMAIN p.done \cup {p.active.id}
               /\ e.done[p.active.id] = state
               /\ \A id \in DOMAIN p.done : id # p.active.id => e.done[id] = p.done[id]
<1>1. /\ IsRecord(PeerEnd(p, state), PeerFields) /\ PeerEnd(p, state).active = NoAction
      /\ PeerEnd(p, state).done = With(p.done, p.active.id, state)
  BY DEF IsRecord, PeerFields, PeerEnd, Recorded
<1> QED
  BY <1>1 DEF With

LEMMA PeerNextFields ==
    ASSUME NEW p, IsRecord(p, PeerFields), IsRecord(p.active, StageFields)
    PROVE  LET n == [p EXCEPT !.active.step = @ + 1, !.active.auth = FALSE]
           IN  /\ IsRecord(n, PeerFields) /\ IsRecord(n.active, StageFields) /\ n.done = p.done
               /\ n.active.stage = p.active.stage /\ n.active.id = p.active.id
               /\ n.active.step = p.active.step + 1
BY DEF IsRecord, PeerFields, StageFields

\* A stage is accepted, or answered, for the process it was meant for.
LEMMA Replies ==
    ASSUME NEW g, LedgerInv(g), NEW m
    PROVE  LET reply == PeerReply(peer, rep[Target], m)
           IN  /\ reply = "Accepted" => m.gen = rep[Target].gen /\ peer.active = NoAction
               /\ reply = "Completed" => /\ m.gen = rep[Target].gen
                                         /\ m.id \in DOMAIN peer.done
                                         /\ peer.done[m.id] = "Completed"
BY DEF LedgerInv, PeerReply, PeerRecord

\* The ledger when a stage arrives.
LEMMA ReceivedLedger ==
    ASSUME NEW g \in [Nat -> Nat], Inv(g), NEW m \in mail, mail' = mail \ {m},
           UNCHANGED <<operator>>, rep'[Target] = rep[Target],
           \/ peer' = peer
           \/ /\ peer' = PeerAccept(peer, m)
              /\ m.gen = rep[Target].gen /\ peer.active = NoAction
    PROVE  LedgerStep(g)
<1>1. UNCHANGED <<op, stable, pod, net>> /\ IsRecord(peer, PeerFields) /\ LedgerInv(g)
  BY DEF operator, Inv, ShapeInv
<1>2. CASE peer' = peer
  BY <1>1, <1>2 DEF LedgerStep, LedgerInv, Known, CleanupOf, CleanedUp
<1>3. CASE peer' = PeerAccept(peer, m) /\ m.gen = rep[Target].gen /\ peer.active = NoAction
  <2> DEFINE a == PeerAccept(peer, m)
  <2>1. /\ IsRecord(a, PeerFields) /\ IsRecord(a.active, StageFields) /\ a.done = peer.done
        /\ a.active.id = m.id /\ a.active.stage = m.stage /\ a.active.step = 1
    BY <1>1, PeerAcceptFields
  <2> HIDE DEF a
  <2>2. peer' = a
    BY <1>3 DEF a
  <2>3. LedgerInv(g)'
    BY <1>1, <1>3, <2>1, <2>2 DEF LedgerInv, Known
  <2>4. \A k : CleanedUp(k) => CleanedUp(k)'
    BY <1>3, <2>1, <2>2 DEF CleanedUp
  <2>5. \A k : CleanupOf(k)' => CleanupOf(k)
    BY <2>1, <2>2 DEF CleanedUp, CleanupOf
  <2> QED
    BY <1>1, <2>1, <2>2, <2>3, <2>4, <2>5 DEF LedgerStep
<1> QED
  BY <1>2, <1>3

\* A step that leaves the primary, the target's process and the operation alone.
LEMMA QuietStep ==
    ASSUME NEW g \in [Nat -> Nat], Inv(g), UNCHANGED <<op, stable, pod, rep, co, run, installed>>,
           IsRecord(peer', PeerFields), peer'.done = peer.done, LedgerInv(g)',
           \A k : CleanedUp(k) => CleanedUp(k)',
           \A k : CleanupOf(k)' => CleanupOf(k),
           \A q \in net' : q \in net \/ (/\ q.fences.gen = 0 /\ q.id = Id(q.act.attempt)
                                         /\ Known(g, q.act.attempt, q.act.gen))
    PROVE  Inv(g)'
<1>1. ShapeInv'
  BY DEF Inv, ShapeInv
<1>2. AloneInv(g)'
  BY DEF Inv, AloneInv, SamePrimary, Known, Id, Inst
<1>3. GensInv(g)' /\ CoInv'
  BY DEF Inv, GensInv, CoInv, Known, SamePrimary, cfg, Id
<1>4. ServeInv(g)'
  BY DEF Inv, ServeInv, Serving, Activated, SamePrimary, Record, Id
<1>5. OpInv'
  BY DEF Inv, OpInv, Undone, SamePrimary, cfg, Id
<1> QED
  BY <1>1, <1>2, <1>3, <1>4, <1>5 DEF Inv

LEMMA ReceiveStageStep ==
    ASSUME NEW g \in [Nat -> Nat], Inv(g), ReceiveStage
    PROVE  Inv(g)'
<1>1. PICK m \in mail :
        LET reply == IF pod[Target].exists THEN PeerReply(peer, rep[Target], m) ELSE "Unreachable"
        IN  /\ mail' = mail \ {m}
            /\ peer' = IF reply = "Accepted" THEN PeerAccept(peer, m) ELSE peer
            /\ IF co.asked /\ m.id = <<co.attempt, StageOf[co.step]>>
               THEN IF reply \in {"Accepted", "InProgress"}
                    THEN co' = [co EXCEPT !.asked = FALSE] /\ UNCHANGED rep
                    ELSE IF reply = "Completed" THEN StagePassed ELSE Erred
               ELSE UNCHANGED <<co, rep>>
            /\ UNCHANGED <<operator, trouble, run, installed>>
  BY DEF ReceiveStage
<1> DEFINE reply == IF pod[Target].exists THEN PeerReply(peer, rep[Target], m) ELSE "Unreachable"
<1>2. /\ reply = "Accepted" => m.gen = rep[Target].gen /\ peer.active = NoAction
      /\ reply = "Completed" => /\ m.gen = rep[Target].gen /\ m.id \in DOMAIN peer.done
                                /\ peer.done[m.id] = "Completed"
  BY Replies DEF Inv
<1>3. /\ mail' = mail \ {m} /\ UNCHANGED <<operator, run, installed>>
      /\ peer' = IF reply = "Accepted" THEN PeerAccept(peer, m) ELSE peer
      /\ \/ co.asked /\ co' = [co EXCEPT !.asked = FALSE] /\ UNCHANGED rep
         \/ /\ co.asked /\ m.id = <<co.attempt, StageOf[co.step]>>
            /\ reply = "Completed" /\ StagePassed
         \/ co.asked /\ Erred
         \/ UNCHANGED <<co, rep>>
  BY <1>1
<1> HIDE DEF reply
<1>4. rep'[Target] = rep[Target]
  BY <1>3, SameTarget DEF StagePassed
<1>5. LedgerStep(g) /\ RuntimeStep
  BY <1>2, <1>3, <1>4, ReceivedLedger, QuietRuntime
<1>6. co.asked => co.step \in DOMAIN StageOf /\ co.step # "none"
  BY StageSteps DEF Inv, CoInv
<1>7. CASE co.asked /\ Erred
  BY <1>3, <1>5, <1>6, <1>7, ErredStep
<1>8. CASE /\ co.asked /\ m.id = <<co.attempt, StageOf[co.step]>>
           /\ reply = "Completed" /\ StagePassed
  <2>1. ASSUME co.step = "Activating" PROVE Serving
    <3>1. Activated(co.attempt)
      BY <1>2, <1>8, <2>1, Stages DEF Activated
    <3>2. co.attempt \in 1 .. op.attempt
      BY <2>1, CoordinatorIsAlone DEF Known
    <3>3. ~CleanupOf(co.attempt)
      BY <2>1, <3>2 DEF Inv, ServeInv
    <3> QED
      BY <3>1, <3>2, <3>3 DEF Inv, ServeInv, CleanupOf
  <2> QED
    BY <1>3, <1>5, <1>6, <1>8, <2>1, StagePassedStep
<1>9. CASE co.asked /\ co' = [co EXCEPT !.asked = FALSE] /\ UNCHANGED rep
  <2>0. ShapeInv /\ CoInv /\ SamePrimary /\ IsRecord(co, CoordinatorFields)
    BY <1>6, <1>9, CoordinatorIsAlone DEF Inv, ShapeInv
  <2>1. /\ IsRecord(co', CoordinatorFields) /\ co'.step = co.step /\ co'.asked = FALSE
        /\ co'.attempt = co.attempt /\ co'.gen = co.gen
    BY <1>9, <2>0 DEF IsRecord, CoordinatorFields
  <2>2. rep' = [rep EXCEPT ![Primary] = [@ EXCEPT !.cfg = cfg]]
    BY <1>9, <2>0, SameRep
  <2>3. /\ installed >= 0 <=> cfg = "Current"
        /\ cfg = "Current" => run.tracker = "Current" /\ co.step \in {"Validating", "Attesting"}
    BY <1>6, <1>9, <2>0 DEF CoInv
  <2> QED
    BY <1>3, <1>5, <1>6, <1>9, <2>1, <2>2, <2>3, StageSteps, MoveStep
<1>10. CASE UNCHANGED <<co, rep>>
  <2>1. UNCHANGED <<op, stable, pod, net>>
    BY <1>3 DEF operator
  <2>2. \A k : CleanupOf(k)' => CleanupOf(k)
    <3>1. CASE peer' = peer
      BY <1>3, <3>1 DEF CleanupOf, CleanedUp
    <3>2. CASE peer' = PeerAccept(peer, m)
      <4> DEFINE a == PeerAccept(peer, m)
      <4>1. a.done = peer.done /\ a.active.id = m.id /\ a.active.stage = m.stage
        BY PeerAcceptFields DEF Inv, ShapeInv
      <4> HIDE DEF a
      <4>2. peer' = a
        BY <3>2 DEF a
      <4> QED
        BY <1>3, <4>1, <4>2 DEF CleanupOf, CleanedUp
    <3> QED
      BY <1>3, <3>1, <3>2
  <2> QED
    BY <1>3, <1>5, <1>10, <2>1, <2>2, QuietStep DEF LedgerStep
<1> QED
  BY <1>3, <1>7, <1>8, <1>9, <1>10

-----------------------------------------------------------------------------
(* What a stage does to the target's process.                              *)

LEMMA RoleChanged ==
    ASSUME NEW p, NEW role, IsRecord(p, ProcessFields)
    PROVE  LET q == Effect(p, [do |-> "ChangeRole", role |-> role, epoch |-> Epoch])
           IN  /\ IsRecord(q, ProcessFields) /\ q.gen = p.gen /\ q.inst = p.inst
               /\ q.role = role /\ q.open = p.open /\ q.data = p.data
<1> DEFINE act == [do |-> "ChangeRole", role |-> role, epoch |-> Epoch]
<1>1. act.do = "ChangeRole" /\ act.role = role
  OBVIOUS
<1>2. Effect(p, act) = [p EXCEPT !.role = act.role, !.wal = act.role, !.epoch = act.epoch,
                                 !.write = StatusForRole(act.role)]
  <2> HIDE DEF act
  <2> QED
    BY <1>1, ZenonT(30) DEF Effect
<1> HIDE DEF act
<1>3. LET q == Effect(p, act)
      IN  /\ IsRecord(q, ProcessFields) /\ q.gen = p.gen /\ q.inst = p.inst
          /\ q.role = role /\ q.open = p.open /\ q.data = p.data
  BY <1>1, <1>2 DEF IsRecord, ProcessFields
<1> QED
  BY <1>3 DEF act

LEMMA EpochUpdated ==
    ASSUME NEW p, IsRecord(p, ProcessFields)
    PROVE  LET q == Effect(p, [do |-> "UpdateEpoch", epoch |-> Epoch])
           IN  /\ IsRecord(q, ProcessFields) /\ q.gen = p.gen /\ q.inst = p.inst
               /\ q.role = p.role /\ q.open = p.open /\ q.data = p.data
<1> DEFINE act == [do |-> "UpdateEpoch", epoch |-> Epoch]
<1>1. act.do = "UpdateEpoch"
  OBVIOUS
<1>2. Effect(p, act) = [p EXCEPT !.epoch = act.epoch]
  <2> HIDE DEF act
  <2> QED
    BY <1>1, ZenonT(30) DEF Effect
<1> HIDE DEF act
<1>3. LET q == Effect(p, act)
      IN  /\ IsRecord(q, ProcessFields) /\ q.gen = p.gen /\ q.inst = p.inst
          /\ q.role = p.role /\ q.open = p.open /\ q.data = p.data
  BY <1>1, <1>2 DEF IsRecord, ProcessFields
<1> QED
  BY <1>3 DEF act

LEMMA ProcessOpened ==
    ASSUME NEW p, IsRecord(p, ProcessFields)
    PROVE  LET q == Effect(p, [do |-> "Open"])
           IN  /\ IsRecord(q, ProcessFields) /\ q.gen = p.gen /\ q.inst = p.inst /\ q.open = TRUE
<1> DEFINE act == [do |-> "Open"]
           r == Reset(p)
<1>1. act.do = "Open"
  OBVIOUS
<1>2. Effect(p, act) = [r EXCEPT !.open = TRUE, !.wal = "Unknown", !.write = "NotPrimary"]
  <2> HIDE DEF act
  <2> QED
    BY <1>1, ZenonT(30) DEF Effect
<1>3. IsRecord(r, ProcessFields) /\ r.gen = p.gen /\ r.inst = p.inst
  BY DEF Reset, IsRecord, ProcessFields
<1> HIDE DEF act, r
<1>4. LET q == Effect(p, act)
      IN  /\ IsRecord(q, ProcessFields) /\ q.gen = p.gen /\ q.inst = p.inst /\ q.open = TRUE
  BY <1>2, <1>3 DEF IsRecord, ProcessFields
<1> QED
  BY <1>4 DEF act

LEMMA ProcessClosed ==
    ASSUME NEW p, IsRecord(p, ProcessFields)
    PROVE  LET q == Effect(p, [do |-> "Close"])
           IN  /\ IsRecord(q, ProcessFields) /\ q.gen = p.gen /\ q.inst = p.inst /\ q.role = "None"
<1> DEFINE act == [do |-> "Close"]
<1>1. act.do = "Close"
  OBVIOUS
<1>2. Effect(p, act) = [p EXCEPT !.open = FALSE, !.role = "None", !.wal = "None",
                                 !.write = "NotPrimary"]
  <2> HIDE DEF act
  <2> QED
    BY <1>1, ZenonT(30) DEF Effect
<1> HIDE DEF act
<1>3. LET q == Effect(p, act)
      IN  IsRecord(q, ProcessFields) /\ q.gen = p.gen /\ q.inst = p.inst /\ q.role = "None"
  BY <1>2 DEF IsRecord, ProcessFields
<1> QED
  BY <1>3 DEF act

AddSteps == {"open", "epoch", "idle", "activate", "demote", "close"}

\* What the process p may be after a step, and how the stage goes on.
StepFits(p, step, res) ==
    /\ IsRecord(res.p, ProcessFields) /\ res.p.gen = p.gen /\ res.p.inst = p.inst
    /\ res.p.role \in Secondary => res.p.open
    /\ res.out \in {"Next", "Completed", "Stale"}
    /\ step \notin {"demote", "close"} /\ p.data /\ p.role = "ActiveSecondary" =>
          res.p.data /\ res.p.role = "ActiveSecondary"
    /\ step = "activate" /\ res.out = "Completed" => res.p.data /\ res.p.role = "ActiveSecondary"
    /\ res.out = "Next" => /\ step \in {"open", "epoch", "demote"}
                           /\ step = "open" \/ (step = "epoch" /\ p.open) => res.p.open

LEMMA StepEffects ==
    ASSUME NEW p, IsRecord(p, ProcessFields), p.role \in Secondary => p.open,
           NEW step \in AddSteps, step = "idle" => p.open
    PROVE  StepFits(p, step, StepResult(p, step, Epoch))
<1>0. Secondary = {"IdleSecondary", "ActiveSecondary"}
  BY DEF Secondary
<1>1. CASE step = "open"
  <2>1. StepResult(p, step, Epoch) = Next1(IF p.open THEN p ELSE Effect(p, [do |-> "Open"]))
    BY <1>1, ZenonT(30) DEF StepResult
  <2> DEFINE q == Effect(p, [do |-> "Open"])
  <2>2. IsRecord(q, ProcessFields) /\ q.gen = p.gen /\ q.inst = p.inst /\ q.open = TRUE
    BY ProcessOpened
  <2>3. p.open => StepFits(p, step, Next1(p))
    BY <1>1 DEF StepFits, Next1
  <2>4. ~p.open => StepFits(p, step, Next1(q))
    <3> HIDE DEF q
    <3> QED
      BY <1>0, <1>1, <2>2 DEF StepFits, Next1
  <2> QED
    BY <2>1, <2>3, <2>4
<1>2. CASE step = "epoch"
  <2> DEFINE q == Effect(p, [do |-> "UpdateEpoch", epoch |-> Epoch])
  <2>1. StepResult(p, step, Epoch) = IF p.epoch > Epoch THEN Stale1(p) ELSE Next1(q)
    BY <1>2, ZenonT(30) DEF StepResult
  <2>2. /\ IsRecord(q, ProcessFields) /\ q.gen = p.gen /\ q.inst = p.inst
        /\ q.role = p.role /\ q.open = p.open /\ q.data = p.data
    BY EpochUpdated
  <2>3. StepFits(p, step, Stale1(p))
    BY <1>2 DEF StepFits, Stale1
  <2>4. StepFits(p, step, Next1(q))
    <3> HIDE DEF q
    <3> QED
      BY <1>2, <2>2 DEF StepFits, Next1
  <2> QED
    BY <2>1, <2>3, <2>4
<1>3. CASE step = "idle"
  <2> DEFINE q == Effect(p, [do |-> "ChangeRole", role |-> "IdleSecondary", epoch |-> Epoch])
  <2>1. StepResult(p, step, Epoch) =
            IF p.epoch = Epoch /\ p.role \in Secondary THEN Done1(p)
            ELSE IF p.epoch = Epoch /\ p.role = "Unknown" THEN Done1(q) ELSE Stale1(p)
    BY <1>3, ZenonT(30) DEF StepResult
  <2>2. /\ IsRecord(q, ProcessFields) /\ q.gen = p.gen /\ q.inst = p.inst
        /\ q.role = "IdleSecondary" /\ q.open = p.open /\ q.data = p.data
    BY RoleChanged
  <2>3. StepFits(p, step, Stale1(p)) /\ StepFits(p, step, Done1(p))
    BY <1>3 DEF StepFits, Stale1, Done1
  <2>4. p.role = "Unknown" => StepFits(p, step, Done1(q))
    <3> HIDE DEF q
    <3> QED
      BY <1>3, <2>2 DEF StepFits, Done1
  <2> QED
    BY <2>1, <2>3, <2>4
<1>4. CASE step = "activate"
  <2> DEFINE q == Effect(p, [do |-> "ChangeRole", role |-> "ActiveSecondary", epoch |-> Epoch])
  <2>1. StepResult(p, step, Epoch) =
            IF p.epoch = Epoch /\ p.role \in Secondary /\ CopyReached(p) THEN Done1(q)
            ELSE Stale1(p)
    BY <1>4, ZenonT(30) DEF StepResult
  <2>2. /\ IsRecord(q, ProcessFields) /\ q.gen = p.gen /\ q.inst = p.inst
        /\ q.role = "ActiveSecondary" /\ q.open = p.open /\ q.data = p.data
    BY RoleChanged
  <2>3. StepFits(p, step, Stale1(p))
    BY <1>4 DEF StepFits, Stale1
  <2>4. p.role \in Secondary /\ p.data => StepFits(p, step, Done1(q))
    <3> HIDE DEF q
    <3> QED
      BY <1>4, <2>2 DEF StepFits, Done1
  <2> QED
    BY <2>1, <2>3, <2>4 DEF CopyReached
<1>5. CASE step = "demote"
  <2> DEFINE q == Effect(p, [do |-> "ChangeRole", role |-> "None", epoch |-> Epoch])
  <2>1. StepResult(p, step, Epoch) =
            IF ~p.open THEN Done1(p)
            ELSE IF p.epoch # Epoch THEN Stale1(p)
            ELSE Next1(IF p.role \in Secondary THEN q ELSE p)
    BY <1>5, ZenonT(30) DEF StepResult
  <2>2. /\ IsRecord(q, ProcessFields) /\ q.gen = p.gen /\ q.inst = p.inst /\ q.role = "None"
    BY RoleChanged
  <2>3. StepFits(p, step, Stale1(p)) /\ StepFits(p, step, Done1(p)) /\ StepFits(p, step, Next1(p))
    BY <1>5 DEF StepFits, Stale1, Done1, Next1
  <2>4. StepFits(p, step, Next1(q))
    <3> HIDE DEF q
    <3> QED
      BY <1>0, <1>5, <2>2 DEF StepFits, Next1
  <2> QED
    BY <2>1, <2>3, <2>4
<1>6. CASE step = "close"
  <2> DEFINE q == Effect(p, [do |-> "Close"])
  <2>1. StepResult(p, step, Epoch) = Done1(IF p.open THEN q ELSE p)
    BY <1>6, ZenonT(30) DEF StepResult
  <2>2. IsRecord(q, ProcessFields) /\ q.gen = p.gen /\ q.inst = p.inst /\ q.role = "None"
    BY ProcessClosed
  <2>3. StepFits(p, step, Done1(p))
    BY <1>6 DEF StepFits, Done1
  <2>4. StepFits(p, step, Done1(q))
    <3> HIDE DEF q
    <3> QED
      BY <1>0, <1>6, <2>2 DEF StepFits, Done1
  <2> QED
    BY <2>1, <2>3, <2>4
<1> QED
  BY <1>1, <1>2, <1>3, <1>4, <1>5, <1>6 DEF AddSteps

\* The step at hand of a stage in the ledger.
LEMMA StagesAtHand ==
    ASSUME NEW g, LedgerInv(g), peer.active # NoAction
    PROVE  LET step == StepAtHand(peer)
               a == peer.active
           IN  /\ step \in AddSteps
               /\ a.stage = "Prepare" => /\ a.step = 1 <=> step = "open"
                                         /\ a.step = 2 <=> step = "epoch"
                                         /\ a.step = 3 <=> step = "idle"
               /\ a.stage = "Activate" <=> step = "activate"
               /\ a.stage = "Cleanup" <=> step \in {"demote", "close"}
               /\ a.stage = "Cleanup" => (a.step = 1 <=> step = "demote")
               /\ step = "idle" => rep[Target].open
<1>1. /\ StepsOf["Prepare"] = <<"open", "epoch", "idle">> /\ StepsOf["Activate"] = <<"activate">>
      /\ StepsOf["Cleanup"] = <<"demote", "close">>
  BY DEF StepsOf
<1>2. \/ peer.active.stage = "Prepare" /\ peer.active.step \in {1, 2, 3}
      \/ peer.active.stage = "Activate" /\ peer.active.step = 1
      \/ peer.active.stage = "Cleanup" /\ peer.active.step \in {1, 2}
  BY DEF LedgerInv
<1>3. peer.active.stage = "Prepare" /\ peer.active.step # 1 => rep[Target].open
  BY DEF LedgerInv
<1> QED
  BY <1>1, <1>2, <1>3 DEF StepAtHand, AddSteps

\* The target's process, or the runtime's tracked work, goes on.
LEMMA TargetWorks ==
    ASSUME NEW g \in [Nat -> Nat], Inv(g), UNCHANGED <<op, stable, pod, net, co, installed, mail>>,
           IsRecord(run', RuntimeFields), run'.tracker = run.tracker, run'.conn = run.conn,
           SamePrimary \/ run' = run,
           IsRecord(rep', Replica), rep'[Primary] = rep[Primary],
           IsRecord(rep'[Target], ProcessFields), rep'[Target].gen = rep[Target].gen,
           rep'[Target].inst = rep[Target].inst,
           IsRecord(peer', PeerFields), LedgerInv(g)',
           \A k : CleanedUp(k)' <=> CleanedUp(k),
           \/ Serving => Serving'
           \/ \E k \in 1 .. op.attempt : CleanedUp(k) /\ g[k] = rep[Target].gen,
           \A k : Activated(k)' => Activated(k) \/ Serving'
    PROVE  Inv(g)'
<1>0. /\ op.attempt \in Nat /\ op.tgen \in Nat /\ rep[Target].gen \in Nat
      /\ \A j, k \in 1 .. op.attempt : g[j] = g[k] => j = k
  BY Generations
<1>1. ShapeInv'
  BY DEF Inv, ShapeInv
<1>2. AloneInv(g)'
  BY DEF Inv, AloneInv, SamePrimary, Known, Id, Inst
<1>3. GensInv(g)'
  BY DEF Inv, GensInv, Known
<1>4. CoInv'
  BY DEF Inv, CoInv, SamePrimary, cfg, Id
<1>5. \A k : CleanupOf(k)' <=> CleanupOf(k)
  BY DEF CleanupOf
<1>6. CASE Serving => Serving'
  <2>1. ServeInv(g)'
    BY <1>5, <1>6 DEF Inv, ServeInv, SamePrimary, Record, Id
  <2> QED
    BY <1>1, <1>2, <1>3, <1>4, <2>1 DEF Inv, OpInv, Undone, SamePrimary, cfg, Id
<1>7. ASSUME NEW j \in 1 .. op.attempt, CleanedUp(j), g[j] = rep[Target].gen
      PROVE  Inv(g)'
  <2>1. /\ installed # g[j] /\ CleanupOf(j)
        /\ co.step # "none" /\ co.attempt = j => co.step \in {"Cleaning", "Verifying"}
    BY <1>7 DEF Inv, ServeInv, CleanupOf
  <2>2. co.step \in Installing => co.gen # rep[Target].gen
    <3>1. co.step \in Installing => co.step \notin {"none", "Cleaning", "Verifying"}
      BY DEF Installing
    <3> QED
      BY <1>0, <1>7, <2>1, <3>1 DEF Inv, GensInv, Known
  <2>3. ASSUME NEW k \in 1 .. op.attempt, Activated(k)' PROVE Serving' \/ CleanedUp(k)'
    <3>1. CASE Activated(k)
      <4>1. g[k] = rep[Target].gen
        <5>1. <<k, "Activate">> \in DOMAIN peer.done /\ <<k, "Activate">>[1] = k
          BY <3>1 DEF Activated
        <5> QED
          BY <5>1 DEF Inv, LedgerInv, Known
      <4> QED
        BY <1>0, <1>7, <4>1
    <3> QED
      BY <2>3, <3>1
  <2>4. ServeInv(g)'
    BY <1>5, <1>7, <2>1, <2>2, <2>3 DEF Inv, ServeInv, SamePrimary, Record, Id
  <2> QED
    BY <1>1, <1>2, <1>3, <1>4, <2>4 DEF Inv, OpInv, Undone, SamePrimary, cfg, Id
<1> QED
  BY <1>6, <1>7

\* A stage ends without effect.
LEMMA StageEndsStep ==
    ASSUME NEW g \in [Nat -> Nat], Inv(g), UNCHANGED <<operator, rep, primary, mail>>,
           NEW state \in {"Stale", "Failed"}, peer.active # NoAction, peer' = PeerEnd(peer, state)
    PROVE  Inv(g)'
<1>1. UNCHANGED <<op, stable, pod, net, co, run, installed, rep, mail>>
  BY DEF operator, primary
<1>2. ShapeInv /\ LedgerInv(g) /\ IsRecord(peer, PeerFields)
  BY DEF Inv, ShapeInv
<1> DEFINE e == PeerEnd(peer, state)
           id == peer.active.id
<1>3. /\ IsRecord(e, PeerFields) /\ e.active = NoAction
      /\ DOMAIN e.done = DOMAIN peer.done \cup {id}
      /\ e.done[id] = state
      /\ \A x \in DOMAIN peer.done : x # id => e.done[x] = peer.done[x]
  BY <1>2, PeerEndFields
<1> HIDE DEF e
<1>4. peer' = e
  BY DEF e
<1>5. /\ id = <<id[1], peer.active.stage>> /\ Known(g, id[1], rep[Target].gen)
  BY <1>2 DEF LedgerInv
<1>6. LedgerInv(g)'
  BY <1>1, <1>2, <1>3, <1>4, <1>5 DEF LedgerInv, Known
<1>7. peer.active.stage \in {"Prepare", "Activate", "Cleanup"}
  BY <1>2 DEF LedgerInv
<1>8. ASSUME NEW k PROVE CleanedUp(k)' <=> CleanedUp(k)
  <2>1. CleanedUp(k)' <=> <<k, "Cleanup">> \in DOMAIN peer.done \/ <<k, "Cleanup">> = id
    BY <1>3, <1>4 DEF CleanedUp
  <2>2. <<k, "Cleanup">> = id <=> peer.active.stage = "Cleanup" /\ id[1] = k
    <3> DEFINE j == id[1]
               t == peer.active.stage
    <3>1. id = <<j, t>>
      BY <1>5
    <3> HIDE DEF j, t, id
    <3>2. <<k, "Cleanup">> = id <=> t = "Cleanup" /\ j = k
      BY <3>1
    <3> QED
      BY <3>2 DEF j, t
  <2> QED
    BY <2>1, <2>2 DEF CleanedUp
<1>9. \A k : Activated(k)' => Activated(k)
  BY <1>3, <1>4 DEF Activated
<1>10. Serving' <=> Serving
  BY <1>1 DEF Serving
<1> QED
  BY <1>1, <1>2, <1>3, <1>4, <1>6, <1>8, <1>9, <1>10, TargetWorks DEF ShapeInv

LEMMA AuthorizeStep ==
    ASSUME NEW g \in [Nat -> Nat], Inv(g), Authorize
    PROVE  Inv(g)'
<1>1. UNCHANGED <<operator, rep, primary, mail>> /\ peer.active # NoAction
  BY DEF Authorize, Staging
<1>2. CASE peer' = PeerEnd(peer, "Stale")
  BY <1>1, <1>2, StageEndsStep
<1>3. CASE peer' = [peer EXCEPT !.active.auth = TRUE]
  <2>1. LedgerInv(g) /\ IsRecord(peer, PeerFields) /\ IsRecord(peer.active, StageFields)
    BY <1>1 DEF Inv, ShapeInv, LedgerInv
  <2>2. /\ IsRecord(peer', PeerFields) /\ IsRecord(peer'.active, StageFields)
        /\ peer'.done = peer.done /\ peer'.active.id = peer.active.id
        /\ peer'.active.stage = peer.active.stage /\ peer'.active.step = peer.active.step
    BY <1>3, <2>1 DEF IsRecord, PeerFields, StageFields
  <2>3. UNCHANGED <<op, stable, pod, net, co, run, installed, rep, mail>>
    BY <1>1 DEF operator, primary
  <2>4. LedgerInv(g)'
    BY <1>1, <2>1, <2>2, <2>3 DEF LedgerInv, Known
  <2>5. peer'.active # NoAction
    BY <2>2 DEF NoAction, IsRecord, StageFields
  <2>6. \A k : CleanedUp(k)' <=> CleanedUp(k)
    BY <1>1, <2>2, <2>5 DEF CleanedUp
  <2> QED
    BY <2>2, <2>3, <2>4, <2>6, QuietStep DEF CleanupOf
<1> QED
  BY <1>2, <1>3 DEF Authorize

LEMMA RunStepStep ==
    ASSUME NEW g \in [Nat -> Nat], Inv(g), RunStep
    PROVE  Inv(g)'
<1> DEFINE p == rep[Target]
           step == StepAtHand(peer)
           res == StepResult(p, step, Epoch)
           id == peer.active.id
<1>1. UNCHANGED <<operator, primary, mail>> /\ peer.active # NoAction
  BY DEF RunStep, Staging
<1>2. CASE peer' = PeerEnd(peer, "Failed") /\ UNCHANGED rep
  BY <1>1, <1>2, StageEndsStep
<1>3. CASE rep' = [rep EXCEPT ![Target] = res.p] /\ peer' = PeerStepped(peer, res.out)
  <2>1. /\ ShapeInv /\ LedgerInv(g) /\ IsRecord(peer, PeerFields) /\ IsRecord(peer.active, StageFields)
        /\ IsRecord(p, ProcessFields) /\ (p.role \in Secondary => p.open)
        /\ id = <<id[1], peer.active.stage>> /\ Known(g, id[1], p.gen)
    BY <1>1 DEF Inv, ShapeInv, LedgerInv
  <2>2. /\ step \in AddSteps
        /\ peer.active.stage = "Prepare" => /\ peer.active.step = 1 <=> step = "open"
                                            /\ peer.active.step = 2 <=> step = "epoch"
                                            /\ peer.active.step = 3 <=> step = "idle"
        /\ peer.active.stage = "Activate" <=> step = "activate"
        /\ peer.active.stage = "Cleanup" <=> step \in {"demote", "close"}
        /\ peer.active.stage = "Cleanup" => (peer.active.step = 1 <=> step = "demote")
        /\ step = "idle" => p.open
    BY <1>1, <2>1, StagesAtHand
  <2>3. StepFits(p, step, res)
    BY <2>1, <2>2, StepEffects
  <2>4. /\ UNCHANGED <<op, stable, pod, net, co, run, installed, mail>>
        /\ IsRecord(rep', Replica) /\ rep'[Primary] = rep[Primary] /\ rep'[Target] = res.p
    BY <1>1, <1>3, <2>1, Ids DEF operator, primary, ShapeInv, IsRecord
  <2>5. peer.active.stage = "Prepare" /\ peer.active.step # 1 => p.open
    BY <1>1, <2>1 DEF LedgerInv
  <2>6. \/ peer.active.stage = "Prepare" /\ peer.active.step \in {1, 2, 3}
        \/ peer.active.stage = "Activate" /\ peer.active.step = 1
        \/ peer.active.stage = "Cleanup" /\ peer.active.step \in {1, 2}
    BY <1>1, <2>1 DEF LedgerInv
  <2> HIDE DEF res, step
  <2>7. /\ IsRecord(res.p, ProcessFields) /\ res.p.gen = p.gen /\ res.p.inst = p.inst
        /\ res.p.role \in Secondary => res.p.open
        /\ res.out \in {"Next", "Completed", "Stale"}
        /\ res.out = "Next" => /\ step \in {"open", "epoch", "demote"}
                               /\ step = "open" \/ (step = "epoch" /\ p.open) => res.p.open
    BY <2>3 DEF StepFits
  <2>8. \/ Serving => Serving'
        \/ \E k \in 1 .. op.attempt : CleanedUp(k) /\ g[k] = rep[Target].gen
    <3>1. CASE step \in {"demote", "close"}
      <4>1. CleanedUp(id[1]) /\ id[1] \in 1 .. op.attempt /\ g[id[1]] = rep[Target].gen
        BY <1>1, <2>1, <2>2, <3>1 DEF CleanedUp, Known
      <4> QED
        BY <4>1
    <3>2. CASE step \notin {"demote", "close"}
      BY <2>3, <2>4, <3>2 DEF StepFits, Serving
    <3> QED
      BY <3>1, <3>2
  <2>9. CASE res.out = "Next"
    <3> DEFINE n == [peer EXCEPT !.active.step = @ + 1, !.active.auth = FALSE]
    <3>1. /\ IsRecord(n, PeerFields) /\ IsRecord(n.active, StageFields) /\ n.done = peer.done
          /\ n.active.stage = peer.active.stage /\ n.active.id = peer.active.id
          /\ n.active.step = peer.active.step + 1
      BY <2>1, PeerNextFields
    <3>2. peer' = n
      BY <1>3, <2>9 DEF PeerStepped
    <3> HIDE DEF n
    <3>3. n.active # NoAction
      BY <3>1 DEF NoAction, IsRecord, StageFields
    <3>4. /\ \/ n.active.stage = "Prepare" /\ n.active.step \in {2, 3}
             \/ n.active.stage = "Cleanup" /\ n.active.step = 2
          /\ n.active.stage = "Prepare" => res.p.open
      BY <2>2, <2>5, <2>6, <2>7, <2>9, <3>1
    <3>5. LedgerInv(g)'
      BY <2>1, <2>4, <2>7, <3>1, <3>2, <3>4 DEF LedgerInv, Known
    <3>6. \A k : CleanedUp(k)' <=> CleanedUp(k)
      BY <1>1, <3>1, <3>2, <3>3 DEF CleanedUp
    <3>7. \A k : Activated(k)' => Activated(k)
      BY <3>1, <3>2 DEF Activated
    <3> QED
      BY <2>1, <2>4, <2>7, <2>8, <3>1, <3>2, <3>5, <3>6, <3>7, TargetWorks DEF ShapeInv
  <2>10. CASE res.out # "Next"
    <3> DEFINE e == PeerEnd(peer, res.out)
    <3>1. /\ IsRecord(e, PeerFields) /\ e.active = NoAction
          /\ DOMAIN e.done = DOMAIN peer.done \cup {id}
          /\ e.done[id] = res.out
          /\ \A x \in DOMAIN peer.done : x # id => e.done[x] = peer.done[x]
      BY <2>1, PeerEndFields
    <3>2. peer' = e
      BY <1>3, <2>10 DEF PeerStepped
    <3> HIDE DEF e
    <3>3. LedgerInv(g)'
      BY <2>1, <2>4, <2>7, <2>10, <3>1, <3>2 DEF LedgerInv, Known
    <3> DEFINE j == id[1]
               t == peer.active.stage
    <3>4. id = <<j, t>>
      BY <2>1
    <3>5. ASSUME NEW k PROVE CleanedUp(k)' <=> CleanedUp(k)
      <4>1. CleanedUp(k)' <=> <<k, "Cleanup">> \in DOMAIN peer.done \/ <<k, "Cleanup">> = id
        BY <3>1, <3>2 DEF CleanedUp
      <4>2. <<k, "Cleanup">> = id <=> t = "Cleanup" /\ j = k
        <5> HIDE DEF j, t, id
        <5> QED
          BY <3>4
      <4> QED
        BY <1>1, <4>1, <4>2 DEF CleanedUp
    <3>6. ASSUME NEW k, Activated(k)' PROVE Activated(k) \/ Serving'
      <4>1. CASE <<k, "Activate">> # id
        BY <3>1, <3>2, <3>6, <4>1 DEF Activated
      <4>2. CASE <<k, "Activate">> = id
        <5>1. t = "Activate"
          <6> HIDE DEF j, t, id
          <6> QED
            BY <3>4, <4>2
        <5>2. step = "activate" /\ res.out = "Completed"
          BY <2>2, <3>1, <3>2, <3>6, <4>2, <5>1 DEF Activated
        <5> QED
          BY <2>3, <2>4, <5>2 DEF StepFits, Serving
      <4> QED
        BY <4>1, <4>2
    <3> QED
      BY <2>1, <2>4, <2>7, <2>8, <3>1, <3>2, <3>3, <3>5, <3>6, TargetWorks DEF ShapeInv
  <2> QED
    BY <2>9, <2>10
<1> QED
  BY <1>2, <1>3 DEF RunStep

\* The copy arrives at the process that is there, or the wait ends.
LEMMA TrackedStep ==
    ASSUME NEW g \in [Nat -> Nat], Inv(g), FinishBuild \/ FinishWait
    PROVE  Inv(g)'
<1>1. /\ UNCHANGED <<operator, co, installed, target>> /\ run.tracked # NoAction
      /\ rep' = rep \/ rep' = [rep EXCEPT ![Target].data = TRUE]
      /\ \E state : \/ run' = [run EXCEPT !.build.state = state, !.tracked = NoAction]
                    \/ run' = [run EXCEPT !.wait.state = state, !.tracked = NoAction]
  BY DEF FinishBuild, FinishWait, Tracked
<1>2. UNCHANGED <<op, stable, pod, net, co, installed, mail, peer>>
  BY <1>1 DEF operator, target
<1>3. /\ ShapeInv /\ LedgerInv(g) /\ IsRecord(run, RuntimeFields) /\ IsRecord(rep, Replica)
      /\ IsRecord(rep[Target], ProcessFields) /\ IsRecord(peer, PeerFields)
  BY DEF Inv, ShapeInv
<1>4. IsRecord(run', RuntimeFields) /\ run'.tracker = run.tracker /\ run'.conn = run.conn
  BY <1>1, <1>3 DEF IsRecord, RuntimeFields
<1>5. SamePrimary
  BY <1>1 DEF Inv, AloneInv, BlankRun
<1>6. /\ IsRecord(rep', Replica) /\ rep'[Primary] = rep[Primary]
      /\ rep'[Target] = rep[Target] \/ rep'[Target] = [rep[Target] EXCEPT !.data = TRUE]
  BY <1>1, <1>3, Ids DEF IsRecord
<1>7. /\ IsRecord(rep'[Target], ProcessFields) /\ rep'[Target].gen = rep[Target].gen
      /\ rep'[Target].inst = rep[Target].inst /\ rep'[Target].role = rep[Target].role
      /\ rep'[Target].open = rep[Target].open
  BY <1>3, <1>6 DEF IsRecord, ProcessFields
<1>8. Serving => Serving'
  <2>1. rep'[Target].data = rep[Target].data \/ rep'[Target].data = TRUE
    BY <1>3, <1>6 DEF IsRecord, ProcessFields
  <2> QED
    BY <1>7, <2>1 DEF Serving
<1>9. LedgerInv(g)'
  BY <1>2, <1>3, <1>7 DEF LedgerInv, Known
<1>10. \A k : (CleanedUp(k)' <=> CleanedUp(k)) /\ (Activated(k)' <=> Activated(k))
  BY <1>2 DEF CleanedUp, Activated
<1> QED
  BY <1>2, <1>3, <1>4, <1>5, <1>6, <1>7, <1>8, <1>9, <1>10, TargetWorks

-----------------------------------------------------------------------------
(* The intent.                                                             *)

LEMMA AdmitFields ==
    ASSUME NEW p, NEW q, IsRecord(p, ProcessFields)
    PROVE  LET a == Admit(p, q)
           IN  /\ IsRecord(a, ProcessFields) /\ a.cfg = p.cfg
               /\ a.active = [id |-> q.id, act |-> q.act] /\ a.done = p.done
               /\ a.role = p.role /\ a.gen = p.gen /\ a.inst = p.inst
BY DEF IsRecord, ProcessFields, Admit

LEMMA AdmitStep ==
    ASSUME NEW g \in [Nat -> Nat], Inv(g), NEW q \in net, CanAdmit(rep[Primary], q),
           rep' = [rep EXCEPT ![Primary] = Admit(@, q)],
           co' = [step |-> "Validating", attempt |-> q.act.attempt, gen |-> q.act.gen,
                  asked |-> FALSE],
           net' = net \ {q}, UNCHANGED <<op, stable, pod, run, peer, mail, installed>>
    PROVE  Inv(g)'
<1> DEFINE p == rep[Primary]
           k == q.act.attempt
<1>1. /\ SamePrimary /\ p.active = NoAction /\ Record(p, Id(k)) = "none"
      /\ Known(g, k, q.act.gen) /\ q.id = Id(k)
  BY DEF CanAdmit, Fences, Inv, AloneInv, SamePrimary
<1>2. co.step = "none" /\ CoInv
  BY <1>1 DEF Inv, CoInv
<1>3. /\ IsRecord(co', CoordinatorFields) /\ co'.step = "Validating" /\ co'.attempt = k
      /\ co'.asked = FALSE /\ co'.gen = q.act.gen
  BY DEF IsRecord, CoordinatorFields
<1>4. /\ IsRecord(rep', Replica) /\ rep'[Primary] = Admit(p, q) /\ rep'[Target] = rep[Target]
      /\ IsRecord(p, ProcessFields)
  BY Ids DEF Inv, ShapeInv, IsRecord
<1>5. /\ IsRecord(rep'[Primary], ProcessFields) /\ rep'[Primary].cfg = p.cfg
      /\ rep'[Primary].active = [id |-> q.id, act |-> q.act] /\ rep'[Primary].done = p.done
      /\ rep'[Primary].role = p.role /\ rep'[Primary].gen = p.gen /\ rep'[Primary].inst = p.inst
  <2> DEFINE a == Admit(p, q)
  <2>1. /\ IsRecord(a, ProcessFields) /\ a.cfg = p.cfg
        /\ a.active = [id |-> q.id, act |-> q.act] /\ a.done = p.done
        /\ a.role = p.role /\ a.gen = p.gen /\ a.inst = p.inst
    <3> HIDE DEF p
    <3> QED
      BY <1>4, AdmitFields, Zenon
  <2>2. rep'[Primary] = a
    BY <1>4
  <2> HIDE DEF a
  <2> QED
    BY <2>1, <2>2
<1>6. rep'[Primary].active # NoAction /\ rep'[Primary].active.id = Id(k)
  BY <1>1, <1>5 DEF NoAction
<1>7. ShapeInv'
  BY <1>3, <1>4, <1>5 DEF Inv, ShapeInv
<1>8. SamePrimary' /\ cfg' = cfg
  BY <1>1, <1>5 DEF SamePrimary, cfg
<1>9. AloneInv(g)'
  BY <1>1, <1>5, <1>8 DEF Inv, AloneInv, Known, Id, Inst
<1>10. GensInv(g)' /\ LedgerInv(g)'
  BY <1>1, <1>3, <1>4 DEF Inv, GensInv, LedgerInv, Known
<1>11. \A j : Record(p, Id(j)) # "none" => Id(j) \in DOMAIN p.done
  BY <1>1 DEF Record
<1>12. CoInv'
  <2>1. installed >= 0 <=> cfg = "Current"
    BY <1>1, <1>2 DEF CoInv
  <2>2. cfg = "Current" => run.tracker = "Current"
    BY <1>1, <1>2 DEF CoInv
  <2>3. ASSUME Id(k) \in DOMAIN p.done PROVE FALSE
    BY <1>1, <1>2, <2>3 DEF Record, CoInv
  <2> QED
    BY <1>2, <1>3, <1>5, <1>6, <1>8, <2>1, <2>2, <2>3 DEF CoInv, Id
<1>13. ServeInv(g)'
  <2>1. \A j : (CleanupOf(j)' <=> CleanupOf(j)) /\ (Activated(j)' <=> Activated(j))
           /\ (CleanedUp(j)' <=> CleanedUp(j))
    BY DEF CleanupOf, CleanedUp, Activated
  <2>2. Serving' <=> Serving
    BY <1>4 DEF Serving
  <2>3. \A j : Record(p, Id(j)) # "none" => Record(rep'[Primary], Id(j)) # "none"
    BY <1>1, <1>5 DEF Record
  <2>4. ~CleanupOf(k)
    BY <1>1 DEF Inv, ServeInv, Known
  <2> QED
    BY <1>1, <1>3, <1>4, <2>1, <2>2, <2>3, <2>4 DEF Inv, ServeInv, Installing, Id
<1>14. OpInv'
  BY <1>1, <1>4, <1>5, <1>8 DEF Inv, OpInv, Undone, Id
<1> QED
  BY <1>7, <1>9, <1>10, <1>12, <1>13, <1>14 DEF Inv

LEMMA HandleIntentStep ==
    ASSUME NEW g \in [Nat -> Nat], Inv(g), HandleIntent
    PROVE  Inv(g)'
<1>1. UNCHANGED <<op, stable, pod, run, installed, peer, mail>>
  BY DEF HandleIntent, target
<1>2. PICK q \in net :
         /\ \/ /\ CanAdmit(rep[Primary], q)
               /\ rep' = [rep EXCEPT ![Primary] = Admit(@, q)]
               /\ co' = [step |-> "Validating", attempt |-> q.act.attempt, gen |-> q.act.gen,
                         asked |-> FALSE]
            \/ UNCHANGED <<rep, co>>
         /\ net' = net \ {q}
  BY DEF HandleIntent
<1>3. CASE UNCHANGED <<rep, co>>
  <2>1. LedgerInv(g)' /\ IsRecord(peer', PeerFields)
    BY <1>1, <1>3 DEF Inv, ShapeInv, LedgerInv, Known
  <2>2. \A k : (CleanupOf(k)' <=> CleanupOf(k)) /\ (CleanedUp(k)' <=> CleanedUp(k))
    BY <1>1 DEF CleanupOf, CleanedUp
  <2> QED
    BY <1>1, <1>2, <1>3, <2>1, <2>2, QuietStep
<1> QED
  BY <1>1, <1>2, <1>3, AdmitStep

LEMMA CoordinateStep ==
    ASSUME NEW g \in [Nat -> Nat], Inv(g), Coordinate
    PROVE  Inv(g)'
<1>1. CASE AwaitBuild
  BY <1>1, AwaitTrackedStep DEF AwaitBuild
<1>2. CASE AwaitQuorum
  BY <1>2, AwaitTrackedStep DEF AwaitQuorum
<1> QED
  BY <1>1, <1>2, HandleIntentStep, ValidateStep, RetireConnectionStep, AskPeerStep, StartBuildStep,
     InstallCatchUpStep, StartWaitStep, InstallCurrentStep, CancelTrackedStep, SettleStep,
     RestoreStep, RemoveConnectionStep, VerifyStep, TrackedStep DEF Coordinate

LEMMA ServeStep ==
    ASSUME NEW g \in [Nat -> Nat], Inv(g), Serve
    PROVE  Inv(g)'
BY ReceiveStageStep, AuthorizeStep, RunStepStep DEF Serve

-----------------------------------------------------------------------------
(* The operator.                                                           *)

\* The operator goes on with the attempt at hand.
LEMMA OperatorStep ==
    ASSUME NEW g \in [Nat -> Nat], Inv(g), UNCHANGED <<rep, net, co, run, peer, mail, installed>>,
           IsRecord(pod', Replica), \A r \in Replica : IsRecord(pod'[r], PodFields),
           pod'[Primary].exists <=> pod[Primary].exists,
           IsRecord(op', OperationFields), op'.attempt = op.attempt, op'.tgen = op.tgen,
           op'.pgen = op.pgen,
           op'.phase = "AddFreezeIntent" => op.phase = op'.phase \/ op.tgen < rep[Target].gen,
           OpInv'
    PROVE  Inv(g)'
<1>1. ShapeInv'
  BY DEF Inv, ShapeInv
<1>2. AloneInv(g)'
  BY DEF Inv, AloneInv, SamePrimary, Known, Id, Inst
<1>3. GensInv(g)' /\ CoInv' /\ LedgerInv(g)'
  BY DEF Inv, GensInv, LedgerInv, CoInv, Known, SamePrimary, cfg, Id
<1>4. ServeInv(g)'
  BY DEF Inv, ServeInv, Serving, Activated, CleanupOf, CleanedUp, SamePrimary, Record, Id
<1> QED
  BY <1>1, <1>2, <1>3, <1>4 DEF Inv

LEMMA PersistFrame ==
    ASSUME NEW next, Persist(next)
    PROVE  op' = next /\ UNCHANGED <<stable, rep, pod, net, co, run, peer, mail, installed>>
BY DEF Persist, primary, target

LEMMA WithPhaseFields ==
    ASSUME ShapeInv, NEW phase
    PROVE  /\ LET n == WithPhase(phase)
              IN  /\ IsRecord(n, OperationFields) /\ n.attempt = op.attempt /\ n.tgen = op.tgen
                  /\ n.pgen = op.pgen /\ n.phase = phase /\ n.committed = op.committed
           /\ LET n == Goto(phase)
              IN  /\ IsRecord(n, OperationFields) /\ n.attempt = op.attempt /\ n.tgen = op.tgen
                  /\ n.pgen = op.pgen /\ n.phase = phase /\ n.committed = op.committed
<1>1. IsRecord(op, OperationFields)
  BY DEF ShapeInv
<1> QED
  BY <1>1 DEF WithPhase, Goto, IsRecord, OperationFields

\* Only the phase changes.
LEMMA PhaseStep ==
    ASSUME NEW g \in [Nat -> Nat], Inv(g), NEW phase,
           Persist(WithPhase(phase)) \/ Persist(Goto(phase)),
           phase = "AddFreezeIntent" => op.tgen < rep[Target].gen,
           \/ phase = "Poisoned"
           \/ phase \in BeforeCommit /\ ~op.committed
           \/ phase = "AddCommittedDegradedHandoff" /\ op.committed
           \/ phase = "Failed" /\ Undone /\ ~op.committed,
           phase \in {"AddDispatchIntent", "AddAwaitCoordination"} => op.attempt > 0,
           phase \in {"AddDeleteCompensatedTarget", "AddCompensateFinalize"} =>
              /\ ~(installed >= 0 /\ installed = op.tgen)
              /\ ~SamePrimary \/ (op.attempt > 0 /\ Id(op.attempt) \in DOMAIN rep[Primary].done),
           phase = "AddCommittedDegradedHandoff" =>
              ~(pod[Target].exists /\ pod[Target].label = "secondary")
    PROVE  Inv(g)'
<1>0. ShapeInv /\ OpInv
  BY DEF Inv
<1>1. /\ UNCHANGED <<stable, rep, pod, net, co, run, peer, mail, installed>>
      /\ IsRecord(op', OperationFields) /\ op'.attempt = op.attempt /\ op'.tgen = op.tgen
      /\ op'.pgen = op.pgen /\ op'.phase = phase /\ op'.committed = op.committed
  BY <1>0, WithPhaseFields, PersistFrame
<1>2. OpInv'
  <2>1. /\ SamePrimary' <=> SamePrimary /\ cfg' = cfg
    BY <1>1 DEF SamePrimary, cfg
  <2>2. Undone' => /\ ~(installed >= 0 /\ installed = op.tgen)
                   /\ ~SamePrimary \/ (op.attempt > 0 /\ Id(op.attempt) \in DOMAIN rep[Primary].done)
    <3>1. Undone' => phase \in {"AddDeleteCompensatedTarget", "AddCompensateFinalize", "Failed"}
      BY <1>1 DEF Undone
    <3>2. phase = "Failed" => Undone
      BY DEF BeforeCommit
    <3> QED
      BY <1>0, <3>1, <3>2 DEF OpInv
  <2> QED
    BY <1>0, <1>1, <2>1, <2>2 DEF OpInv, Id, BeforeCommit, AfterCommit
<1> QED
  BY <1>0, <1>1, <1>2, OperatorStep DEF ShapeInv

LEMMA FailClosedStep ==
    ASSUME NEW g \in [Nat -> Nat], Inv(g), Persist(WithPhase("Poisoned"))
    PROVE  Inv(g)'
BY PhaseStep

LEMMA DegradedHandoffStep ==
    ASSUME NEW g \in [Nat -> Nat], Inv(g), DegradedHandoff
    PROVE  Inv(g)'
<1>0. ShapeInv /\ OpInv
  BY DEF Inv
<1>1. /\ op' = Goto("Failed") /\ stable' = "Target" /\ op.phase = "AddCommittedDegradedHandoff"
      /\ UNCHANGED <<rep, pod, net, co, run, peer, mail, installed>>
  BY DEF DegradedHandoff, primary, target
<1>2. /\ IsRecord(op', OperationFields) /\ op'.attempt = op.attempt /\ op'.tgen = op.tgen
      /\ op'.pgen = op.pgen /\ op'.phase = "Failed" /\ op'.committed = op.committed
  BY <1>0, <1>1, WithPhaseFields
<1>3. op.committed /\ installed >= 0 /\ ~(pod[Target].exists /\ pod[Target].label = "secondary")
  BY <1>0, <1>1 DEF OpInv, AfterCommit
<1>4. OpInv'
  BY <1>1, <1>2, <1>3 DEF OpInv, Undone, BeforeCommit, AfterCommit
<1> QED
  BY <1>0, <1>1, <1>2, <1>4, OperatorStep DEF ShapeInv

LEMMA CompensateFinalizeStep ==
    ASSUME NEW g \in [Nat -> Nat], Inv(g), CompensateFinalize
    PROVE  Inv(g)'
<1>1. Persist(Goto("Failed")) /\ op.phase = "AddCompensateFinalize"
  BY DEF CompensateFinalize
<1>2. Undone /\ ~op.committed
  BY <1>1 DEF Undone, Inv, OpInv, BeforeCommit
<1> QED
  BY <1>1, <1>2, PhaseStep

PodsInv(ps) == IsRecord(ps, Replica) /\ \A r \in Replica : IsRecord(ps[r], PodFields)

LEMMA PodGoes ==
    ASSUME NEW ps, PodsInv(ps), NEW r \in Replica
    PROVE  LET qs == [ps EXCEPT ![r].exists = FALSE]
           IN  /\ PodsInv(qs) /\ \A s \in Replica \ {r} : qs[s] = ps[s]
               /\ qs[r].exists = FALSE /\ qs[r].label = ps[r].label
BY DEF PodsInv, IsRecord, PodFields

LEMMA PodConnects ==
    ASSUME NEW ps, PodsInv(ps), NEW r \in Replica, NEW v
    PROVE  LET qs == [ps EXCEPT ![r].up = v]
           IN  /\ PodsInv(qs) /\ \A s \in Replica \ {r} : qs[s] = ps[s]
               /\ qs[r].exists = ps[r].exists /\ qs[r].label = ps[r].label
BY DEF PodsInv, IsRecord, PodFields

LEMMA PodLabelled ==
    ASSUME NEW ps, PodsInv(ps), NEW r \in Replica, NEW v
    PROVE  LET qs == [ps EXCEPT ![r].label = v]
           IN  /\ PodsInv(qs) /\ \A s \in Replica \ {r} : qs[s] = ps[s]
               /\ qs[r].exists = ps[r].exists /\ qs[r].label = v
BY DEF PodsInv, IsRecord, PodFields

\* A label of the target's pod changes.
LEMMA LabelStep ==
    ASSUME NEW g \in [Nat -> Nat], Inv(g), NEW label, pod' = [pod EXCEPT ![Target].label = label],
           UNCHANGED <<op, stable, rep, net, co, run, peer, mail, installed>>,
           label = "secondary" =>
              op.committed /\ op.phase \notin {"AddCommittedDegradedHandoff", "Failed"}
    PROVE  Inv(g)'
<1> DEFINE qs == [pod EXCEPT ![Target].label = label]
<1>0. ShapeInv /\ OpInv /\ PodsInv(pod)
  BY DEF Inv, ShapeInv, PodsInv
<1>1. /\ PodsInv(qs) /\ qs[Primary] = pod[Primary]
      /\ qs[Target].exists = pod[Target].exists /\ qs[Target].label = label
  <2>1. /\ PodsInv(qs) /\ \A s \in Replica \ {Target} : qs[s] = pod[s]
        /\ qs[Target].exists = pod[Target].exists /\ qs[Target].label = label
    BY <1>0, Ids DEF PodsInv, IsRecord, PodFields
  <2> HIDE DEF qs
  <2> QED
    BY <2>1, Ids
<1> HIDE DEF qs
<1>2. pod' = qs
  BY DEF qs
<1>3. OpInv'
  BY <1>0, <1>1, <1>2 DEF OpInv, Undone, SamePrimary, cfg, Id
<1> QED
  BY <1>0, <1>1, <1>2, <1>3, OperatorStep DEF ShapeInv, PodsInv

LEMMA DegradeStep ==
    ASSUME NEW g \in [Nat -> Nat], Inv(g), Degrade, op.committed
    PROVE  Inv(g)'
<1>1. CASE pod[Target].exists /\ pod[Target].label = "secondary"
  BY <1>1, LabelStep DEF Degrade, primary, target
<1>2. CASE ~(pod[Target].exists /\ pod[Target].label = "secondary")
  BY <1>2, PhaseStep DEF Degrade
<1> QED
  BY <1>1, <1>2

\* The operator undoes an addition whose primary is gone when it finds the target
\* short of what a commit needs.
LEMMA PrimarySilentStep ==
    ASSUME NEW g \in [Nat -> Nat], Inv(g), PrimarySilent
    PROVE  Inv(g)'
<1>1. CASE op.committed
  BY <1>1, DegradeStep DEF PrimarySilent
<1>2. CASE Persist(WithPhase("Poisoned"))
  BY <1>2, FailClosedStep
<1>3. CASE /\ ~op.committed /\ ~(pod[Primary].exists /\ rep[Primary].inst = Inst(Primary))
           /\ SafelyUncommitted /\ Persist(WithPhase("AddDeleteCompensatedTarget"))
  <2>1. ~SamePrimary
    BY <1>3 DEF Inv, AloneInv
  <2>2. op.attempt > 0 => rep[Target].gen = op.tgen
    BY <1>3 DEF SafelyUncommitted
  <2>3. installed # op.tgen \/ ~(installed >= 0)
    <3>1. CASE op.attempt > 0
      <4>1. rep[Target].role # "ActiveSecondary"
        BY <1>3 DEF SafelyUncommitted
      <4> QED
        BY <2>2, <3>1, <4>1 DEF Inv, ServeInv, Serving
    <3>2. CASE ~(op.attempt > 0)
      <4>1. op.attempt \in Nat
        BY Generations
      <4>2. op.attempt = 0
        BY <3>2, <4>1
      <4>3. installed = -1
        BY <4>2 DEF Inv, GensInv
      <4> QED
        BY <4>3
    <3> QED
      BY <3>1, <3>2
  <2> QED
    BY <1>3, <2>1, <2>3, PhaseStep DEF BeforeCommit
<1> QED
  BY <1>1, <1>2, <1>3 DEF PrimarySilent

\* The primary that reports the current configuration has installed it.
LEMMA InstalledIsMade ==
    ASSUME NEW g, Inv(g), Installed
    PROVE  SamePrimary /\ installed >= 0 /\ cfg = "Current"
BY PrimaryIsAlone DEF Installed, Inv, CoInv, cfg

LEMMA RecordCommitStep ==
    ASSUME NEW g \in [Nat -> Nat], Inv(g), RecordCommit
    PROVE  Inv(g)'
<1>0. ShapeInv /\ OpInv
  BY DEF Inv
<1>1. /\ Deciding /\ installed >= 0
      /\ op' = [WithPhase("AddRecordCommit") EXCEPT !.committed = TRUE]
      /\ UNCHANGED <<stable, rep, pod, net, co, run, peer, mail, installed>>
  BY InstalledIsMade, PersistFrame DEF RecordCommit
<1>2. /\ IsRecord(op', OperationFields) /\ op'.attempt = op.attempt /\ op'.tgen = op.tgen
      /\ op'.pgen = op.pgen /\ op'.phase = "AddRecordCommit" /\ op'.committed = TRUE
  <2>1. IsRecord(op, OperationFields)
    BY <1>0 DEF ShapeInv
  <2> QED
    BY <1>1, <2>1 DEF WithPhase, IsRecord, OperationFields
<1>3. OpInv'
  BY <1>0, <1>1, <1>2 DEF OpInv, Undone, BeforeCommit, AfterCommit
<1> QED
  BY <1>0, <1>1, <1>2, <1>3, OperatorStep DEF ShapeInv

LEMMA PrimaryChangedStep ==
    ASSUME NEW g \in [Nat -> Nat], Inv(g), PrimaryChanged
    PROVE  Inv(g)'
BY DegradeStep, FailClosedStep DEF PrimaryChanged

LEMMA DispatchIntentStep ==
    ASSUME NEW g \in [Nat -> Nat], Inv(g), DispatchIntent \/ PlanDispatch
    PROVE  Inv(g)'
<1>0. ShapeInv /\ OpInv
  BY DEF Inv
<1>1. /\ op.phase \in {"AddDispatchIntent", "AddAwaitCoordination"}
      /\ \E fences, pending : op' = [op EXCEPT !.phase = "AddAwaitCoordination",
                                              !.pending = pending, !.fences = fences]
      /\ UNCHANGED <<stable, rep, pod, net, co, run, peer, mail, installed>>
  <2>1. IsRecord(op, OperationFields)
    BY <1>0 DEF ShapeInv
  <2>2. CASE DispatchIntent
    <3>1. /\ op.phase = "AddDispatchIntent"
          /\ op' = [op EXCEPT !.phase = "AddAwaitCoordination", !.pending = TRUE, !.fences = << >>]
          /\ UNCHANGED <<stable, rep, pod, net, co, run, peer, mail, installed>>
      BY <2>2, PersistFrame DEF DispatchIntent
    <3> QED
      BY <3>1
  <2>3. CASE PlanDispatch
    <3>1. /\ op.phase = "AddAwaitCoordination" /\ op' = [op EXCEPT !.fences = Fences(rep[Primary])]
          /\ UNCHANGED <<stable, rep, pod, net, co, run, peer, mail, installed>>
      BY <2>3, PersistFrame DEF PlanDispatch, Executing, Await
    <3>2. op' = [op EXCEPT !.phase = "AddAwaitCoordination", !.pending = op.pending,
                           !.fences = Fences(rep[Primary])]
      BY <2>1, <3>1 DEF IsRecord, OperationFields
    <3> QED
      BY <3>1, <3>2
  <2> QED
    BY <2>2, <2>3
<1>2. /\ IsRecord(op', OperationFields) /\ op'.attempt = op.attempt /\ op'.tgen = op.tgen
      /\ op'.pgen = op.pgen /\ op'.phase = "AddAwaitCoordination" /\ op'.committed = op.committed
  <2>1. IsRecord(op, OperationFields)
    BY <1>0 DEF ShapeInv
  <2> QED
    BY <1>1, <2>1 DEF IsRecord, OperationFields
<1>3. OpInv'
  BY <1>0, <1>1, <1>2 DEF OpInv, Undone, BeforeCommit, AfterCommit
<1> QED
  BY <1>0, <1>1, <1>2, <1>3, OperatorStep DEF ShapeInv

LEMMA SteadyIsSame ==
    ASSUME NEW g, Inv(g), Steady
    PROVE  SamePrimary
BY PrimaryIsAlone DEF Steady, PrimaryExact

LEMMA RefreezeStep ==
    ASSUME NEW g \in [Nat -> Nat], Inv(g), Refreeze
    PROVE  Inv(g)'
<1>1. op.phase = "AddAwaitCoordination" /\ Restarts /\ Persist(WithPhase("AddFreezeIntent")) /\ SamePrimary
  BY SteadyIsSame DEF Refreeze, Await
<1>2. rep[Target].gen # op.tgen
  BY <1>1 DEF Restarts, Inv, AloneInv, SamePrimary
<1>3. op.tgen < rep[Target].gen
  <2>1. op.tgen \in Nat /\ rep[Target].gen \in Nat /\ op.tgen <= rep[Target].gen
    BY Generations DEF Inv, GensInv
  <2> QED
    BY <1>2, <2>1
<1>4. ~op.committed
  BY <1>1 DEF Inv, OpInv, BeforeCommit
<1> QED
  BY <1>1, <1>3, <1>4, PhaseStep DEF BeforeCommit

\* A compensated attempt has ended, and has not installed its configuration.
LEMMA AwaitEndsStep ==
    ASSUME NEW g \in [Nat -> Nat], Inv(g), AwaitEnds
    PROVE  Inv(g)'
<1>1. CASE Persist(WithPhase("Poisoned"))
  BY <1>1, FailClosedStep
<1>2. CASE Await /\ Outcome = "Compensated" /\ Persist(WithPhase("AddDeleteCompensatedTarget"))
  <2>1. op.phase = "AddAwaitCoordination" /\ SamePrimary /\ Steady
    BY <1>2, SteadyIsSame DEF Await
  <2>2. ~op.committed /\ op.attempt > 0
    BY <2>1 DEF Inv, OpInv, BeforeCommit
  <2>3. cfg # "Current"
    BY <2>1, <2>2 DEF Steady, Installed, PrimaryExact, cfg
  <2>4. ~(installed >= 0)
    BY <2>1, <2>3 DEF Inv, CoInv
  <2>5. Id(op.attempt) \in DOMAIN rep[Primary].done
    BY <1>2 DEF Outcome, Record
  <2> QED
    BY <1>2, <2>2, <2>4, <2>5, PhaseStep DEF BeforeCommit
<1> QED
  BY <1>1, <1>2 DEF AwaitEnds

LEMMA DispatchStep ==
    ASSUME NEW g \in [Nat -> Nat], Inv(g), Dispatch
    PROVE  Inv(g)'
<1> DEFINE q == [id |-> Id(op.attempt), fences |-> op.fences,
                 act |-> [do |-> "Add", attempt |-> op.attempt, gen |-> op.tgen]]
<1>1. /\ net' = net \cup {q} /\ op.fences = Fences(rep[Primary]) /\ SamePrimary
      /\ op.phase = "AddAwaitCoordination"
      /\ UNCHANGED <<op, stable, rep, pod, co, run, peer, mail, installed>>
  BY SteadyIsSame DEF Dispatch, Executing, Await, primary, target
<1>2. op.attempt > 0 /\ op.attempt \in Nat
  BY <1>1, Generations DEF Inv, OpInv
<1>3. Known(g, op.attempt, op.tgen)
  BY <1>2 DEF Known, Inv, GensInv
<1>4. /\ q.fences.gen = 0 /\ q.id = Id(q.act.attempt) /\ q.act.attempt = op.attempt
      /\ q.act.gen = op.tgen
  BY <1>1 DEF Fences, SamePrimary
<1> HIDE DEF q
<1>5. LedgerInv(g)' /\ IsRecord(peer', PeerFields)
  BY <1>1 DEF Inv, ShapeInv, LedgerInv, Known
<1>6. \A k : (CleanupOf(k)' <=> CleanupOf(k)) /\ (CleanedUp(k)' <=> CleanedUp(k))
  BY <1>1 DEF CleanupOf, CleanedUp
<1> QED
  BY <1>1, <1>3, <1>4, <1>5, <1>6, QuietStep

\* A phase of the publication follows another.
LEMMA PublicationStep ==
    ASSUME NEW g \in [Nat -> Nat], Inv(g), NEW phase \in {"AddPublishTarget", "AddFinalize"}, NEW late,
           op' = [op EXCEPT !.phase = phase, !.late = late], op.phase \in AfterCommit,
           UNCHANGED <<stable, rep, pod, net, co, run, peer, mail, installed>>,
           op.phase # "AddCommittedDegradedHandoff"
    PROVE  Inv(g)'
<1>0. ShapeInv /\ OpInv
  BY DEF Inv
<1>1. /\ IsRecord(op', OperationFields) /\ op'.attempt = op.attempt /\ op'.tgen = op.tgen
      /\ op'.pgen = op.pgen /\ op'.phase = phase /\ op'.committed = op.committed
  <2>1. IsRecord(op, OperationFields)
    BY <1>0 DEF ShapeInv
  <2> QED
    BY <2>1 DEF IsRecord, OperationFields
<1>2. OpInv'
  BY <1>0, <1>1 DEF OpInv, Undone, BeforeCommit, AfterCommit
<1> QED
  BY <1>0, <1>1, <1>2, OperatorStep DEF ShapeInv

LEMMA StartPublishStep ==
    ASSUME NEW g \in [Nat -> Nat], Inv(g), StartPublish
    PROVE  Inv(g)'
<1>1. /\ op' = [op EXCEPT !.phase = "AddPublishTarget", !.late = FALSE] /\ op.phase = "AddRecordCommit"
      /\ UNCHANGED <<stable, rep, pod, net, co, run, peer, mail, installed>>
  BY PersistFrame DEF StartPublish
<1> QED
  BY <1>1, PublicationStep DEF AfterCommit

LEMMA PublishDeadlineStep ==
    ASSUME NEW g \in [Nat -> Nat], Inv(g), PublishDeadline
    PROVE  Inv(g)'
<1>1. /\ op.phase \in {"AddPublishTarget", "AddFinalize"} /\ op' = [op EXCEPT !.late = TRUE]
      /\ UNCHANGED <<stable, rep, pod, net, co, run, peer, mail, installed>>
  BY DEF PublishDeadline, primary, target
<1>2. op' = [op EXCEPT !.phase = op.phase, !.late = TRUE]
  BY <1>1 DEF Inv, ShapeInv, IsRecord, OperationFields
<1> QED
  BY <1>1, <1>2, PublicationStep DEF AfterCommit

LEMMA PublishLabelStep ==
    ASSUME NEW g \in [Nat -> Nat], Inv(g), PublishLabel
    PROVE  Inv(g)'
<1>1. /\ op.phase \in {"AddPublishTarget", "AddFinalize"}
      /\ pod' = [pod EXCEPT ![Target].label = "secondary"]
      /\ UNCHANGED <<op, stable, rep, net, co, run, peer, mail, installed>>
  BY DEF PublishLabel, Publishing, primary, target
<1>2. op.committed
  BY <1>1 DEF Inv, OpInv, AfterCommit
<1> QED
  BY <1>1, <1>2, LabelStep

LEMMA PublishDoneStep ==
    ASSUME NEW g \in [Nat -> Nat], Inv(g), PublishDone
    PROVE  Inv(g)'
<1>1. CASE op.phase = "AddPublishTarget"
  <2>1. /\ op' = [op EXCEPT !.phase = "AddFinalize", !.late = FALSE]
        /\ UNCHANGED <<stable, rep, pod, net, co, run, peer, mail, installed>>
    BY <1>1, PersistFrame DEF PublishDone
  <2> QED
    BY <1>1, <2>1, PublicationStep DEF AfterCommit
<1>2. CASE op.phase # "AddPublishTarget"
  <2>0. ShapeInv /\ OpInv
    BY DEF Inv
  <2>1. /\ op' = Goto("Completed") /\ stable' = "Target" /\ op.phase = "AddFinalize"
        /\ Attested /\ UNCHANGED <<rep, pod, net, co, run, peer, mail, installed>>
    BY <1>2 DEF PublishDone, Publishing, primary, target
  <2>2. /\ IsRecord(op', OperationFields) /\ op'.attempt = op.attempt /\ op'.tgen = op.tgen
        /\ op'.pgen = op.pgen /\ op'.phase = "Completed" /\ op'.committed = op.committed
    BY <2>0, <2>1, WithPhaseFields
  <2>3. op.committed /\ installed >= 0 /\ TargetInst \in run.conn /\ cfg = "Current"
    BY <2>0, <2>1, InstalledIsMade DEF OpInv, AfterCommit, Attested
  <2>4. OpInv'
    BY <2>1, <2>2, <2>3 DEF OpInv, Undone, BeforeCommit, AfterCommit, cfg
  <2> QED
    BY <2>0, <2>1, <2>2, <2>4, OperatorStep DEF ShapeInv
<1> QED
  BY <1>1, <1>2

LEMMA PublishGivenUpStep ==
    ASSUME NEW g \in [Nat -> Nat], Inv(g), PublishGivenUp
    PROVE  Inv(g)'
<1>1. op.committed
  BY DEF PublishGivenUp, Publishing, Inv, OpInv, AfterCommit
<1> QED
  BY <1>1, DegradeStep DEF PublishGivenUp

\* Another attempt is made, for the process of the target that is there now.
LEMMA FreezeStep ==
    ASSUME NEW g \in [Nat -> Nat], Inv(g), FreezeIntent
    PROVE  \E h \in [Nat -> Nat] : Inv(h)'
<1>1. CASE Persist(WithPhase("Poisoned"))
  BY <1>1, FailClosedStep
<1>2. CASE /\ op.phase = "AddFreezeIntent" /\ Steady /\ op.attempt < MaxAttempts
           /\ Persist([WithPhase("AddDispatchIntent") EXCEPT
                         !.attempt = @ + 1, !.pgen = rep[Primary].gen, !.tgen = rep[Target].gen])
  <2>0. ShapeInv /\ OpInv /\ SamePrimary /\ IsRecord(op, OperationFields)
    BY <1>2, SteadyIsSame DEF Inv, ShapeInv
  <2>1. /\ UNCHANGED <<stable, rep, pod, net, co, run, peer, mail, installed>>
        /\ op' = [WithPhase("AddDispatchIntent") EXCEPT
                    !.attempt = @ + 1, !.pgen = rep[Primary].gen, !.tgen = rep[Target].gen]
    BY <1>2, PersistFrame
  <2>14. PICK n \in Nat, t \in Nat : n = op.attempt + 1 /\ t = rep[Target].gen
    BY Generations
  <2>2. /\ IsRecord(op', OperationFields) /\ op'.attempt = n /\ op'.tgen = t
        /\ op'.pgen = 0 /\ op'.phase = "AddDispatchIntent" /\ op'.committed = op.committed
    BY <2>0, <2>1, <2>14 DEF WithPhase, IsRecord, OperationFields, SamePrimary
  <2>3. /\ op.attempt \in Nat /\ n \in Nat /\ t \in Nat /\ n \in 0 .. MaxAttempts /\ n > 0
        /\ 1 .. op.attempt \subseteq 1 .. n /\ n \notin 1 .. op.attempt
        /\ \A k \in 1 .. n : k = n \/ k \in 1 .. op.attempt
    BY <1>2, <2>14, Generations, AddAssumption DEF Inv, ShapeInv
  <2>4. PICK h \in [Nat -> Nat] : h[n] = t /\ \A k \in 1 .. op.attempt : h[k] = g[k]
    <3>1. /\ [g EXCEPT ![n] = t] \in [Nat -> Nat]
          /\ [g EXCEPT ![n] = t][n] = t
          /\ \A k \in 1 .. op.attempt : [g EXCEPT ![n] = t][k] = g[k]
      BY <2>3
    <3> QED
      BY <3>1
  <2>5. \A k \in 1 .. op.attempt : g[k] \in Nat /\ g[k] < t
    <3> SUFFICES ASSUME NEW k \in 1 .. op.attempt PROVE g[k] \in Nat /\ g[k] < t
      OBVIOUS
    <3>1. op.attempt > 0 /\ op.tgen \in Nat /\ g[k] \in Nat /\ g[k] <= op.tgen
      BY <2>3, Generations
    <3>2. op.tgen < t
      BY <1>2, <2>14, <3>1 DEF Inv, GensInv
    <3> QED
      BY <2>3, <3>1, <3>2
  <2>6. \A k, gen : Known(g, k, gen) => Known(h, k, gen)'
    BY <2>2, <2>3, <2>4 DEF Known
  <2>7. ShapeInv'
    BY <2>0, <2>1, <2>2, <2>3 DEF ShapeInv
  <2>8. AloneInv(h)'
    BY <2>1, <2>2, <2>6 DEF Inv, AloneInv, SamePrimary, Id, Inst
  <2>9. GensInv(h)'
    <3>1. ASSUME NEW j \in 1 .. n, NEW k \in 1 .. n, j < k PROVE h[j] < h[k]
      <4>1. j \in 1 .. op.attempt
        BY <2>3, <3>1
      <4>2. CASE k = n
        BY <2>4, <2>5, <4>1, <4>2
      <4>3. CASE k \in 1 .. op.attempt
        BY <2>4, <3>1, <4>1, <4>3 DEF Inv, GensInv
      <4> QED
        BY <2>3, <4>2, <4>3
    <3>2. t <= t
      BY <2>3
    <3>3. installed = -1 \/ \E k \in 1 .. n : installed = h[k]
      BY <2>3, <2>4 DEF Inv, GensInv
    <3>4. co.step # "none" => Known(h, co.attempt, co.gen)'
      BY <2>1, <2>6 DEF Inv, GensInv
    <3> QED
      BY <2>1, <2>2, <2>3, <2>4, <2>14, <3>1, <3>2, <3>3, <3>4 DEF GensInv
  <2>10. LedgerInv(h)'
    <3>1. LedgerInv(g)
      BY DEF Inv
    <3>2. /\ \A m \in mail : Known(h, m.id[1], m.gen)'
          /\ peer.active # NoAction => Known(h, peer.active.id[1], rep[Target].gen)'
          /\ \A id \in DOMAIN peer.done : Known(h, id[1], rep[Target].gen)'
      BY <2>1, <2>6, <3>1 DEF LedgerInv
    <3> QED
      BY <2>1, <3>1, <3>2 DEF LedgerInv
  <2>11. CoInv'
    BY <2>1 DEF Inv, CoInv, SamePrimary, cfg, Id
  <2>12. ServeInv(h)'
    <3>1. \A k : /\ CleanupOf(k)' <=> CleanupOf(k)
                 /\ CleanedUp(k)' <=> CleanedUp(k)
                 /\ Activated(k)' <=> Activated(k)
      BY <2>1 DEF CleanupOf, CleanedUp, Activated
    <3>2. \A k : CleanupOf(k) \/ Activated(k) => k \in 1 .. op.attempt
      <4> SUFFICES ASSUME NEW k, CleanupOf(k) \/ Activated(k) PROVE k \in 1 .. op.attempt
        OBVIOUS
      <4>1. <<k, "Cleanup">>[1] = k /\ <<k, "Activate">>[1] = k
        OBVIOUS
      <4> QED
        BY <4>1 DEF CleanupOf, CleanedUp, Activated, Inv, LedgerInv, Known
    <3>3. \A k : Record(rep'[Primary], Id(k)) = Record(rep[Primary], Id(k))
      BY <2>1
    <3> QED
      BY <2>1, <2>2, <2>4, <3>1, <3>2, <3>3 DEF Inv, ServeInv, Serving, SamePrimary, Id
  <2>13. OpInv'
    BY <1>2, <2>0, <2>1, <2>2, <2>3 DEF OpInv, Undone, SamePrimary, cfg, BeforeCommit, AfterCommit
  <2> QED
    BY <2>4, <2>7, <2>8, <2>9, <2>10, <2>11, <2>12, <2>13 DEF Inv
<1> QED
  BY <1>1, <1>2 DEF FreezeIntent

-----------------------------------------------------------------------------
(* Processes that end.                                                     *)

LEMMA BlankFields ==
    ASSUME NEW i, NEW gen
    PROVE  LET b == BlankProcess(i, gen)
           IN  /\ IsRecord(b, ProcessFields) /\ b.gen = gen /\ b.inst = i
               /\ b.role = "Unknown" /\ b.active = NoAction
BY DEF BlankProcess, IsRecord, ProcessFields

LEMMA BlankLedger ==
    IsRecord(BlankPeer, PeerFields) /\ BlankPeer.active = NoAction /\ DOMAIN BlankPeer.done = {}
<1>1. IsRecord(BlankPeer, PeerFields) /\ BlankPeer.active = NoAction /\ BlankPeer.done = << >>
  BY DEF BlankPeer, IsRecord, PeerFields
<1> QED
  BY <1>1

\* Another process takes the place of the target's, which no attempt was made for.
LEMMA TargetEnds ==
    ASSUME NEW g \in [Nat -> Nat], Inv(g), UNCHANGED <<op, stable, net, co, run, mail, installed>>,
           peer' = BlankPeer, PodsInv(pod'), pod'[Primary] = pod[Primary],
           pod'[Target].exists => pod[Target].exists,
           pod'[Target].label = "secondary" => pod[Target].label = "secondary",
           IsRecord(rep', Replica), rep'[Primary] = rep[Primary],
           NEW i \in Nat, rep'[Target] = BlankProcess(i, rep[Target].gen + 1)
    PROVE  Inv(g)'
<1>1. /\ IsRecord(rep'[Target], ProcessFields) /\ rep'[Target].gen = rep[Target].gen + 1
      /\ rep'[Target].inst = i /\ rep'[Target].role = "Unknown"
  BY BlankFields
<1>2. /\ op.attempt \in Nat /\ op.tgen \in Nat /\ rep[Target].gen \in Nat
      /\ op.tgen <= rep[Target].gen
      /\ \A k \in 1 .. op.attempt : g[k] \in Nat /\ g[k] <= rep[Target].gen
  BY Generations DEF Inv, GensInv
<1>3. /\ rep'[Target].gen \in Nat /\ op.tgen < rep'[Target].gen /\ op.tgen <= rep'[Target].gen
      /\ \A k \in 1 .. op.attempt : g[k] # rep'[Target].gen
      /\ rep'[Target].gen # -1
  BY <1>1, <1>2
<1>4. IsRecord(peer', PeerFields) /\ peer'.active = NoAction /\ DOMAIN peer'.done = {}
  BY BlankLedger
<1>5. ShapeInv'
  BY <1>1, <1>3, <1>4, Ids DEF Inv, ShapeInv, PodsInv
<1>6. AloneInv(g)'
  BY DEF Inv, AloneInv, SamePrimary, Known, Id, Inst
<1>7. GensInv(g)'
  BY <1>3 DEF Inv, GensInv, Known
<1>8. LedgerInv(g)'
  BY <1>1, <1>4 DEF Inv, LedgerInv, Known, Secondary
<1>9. CoInv'
  BY DEF Inv, CoInv, SamePrimary, cfg, Id
<1>10. ServeInv(g)'
  <2>1. installed' # rep'[Target].gen
    BY <1>3 DEF Inv, GensInv
  <2>2. co'.step \in Installing => co'.gen # rep'[Target].gen
    BY <1>3 DEF Inv, GensInv, Known, Installing
  <2>3. \A k : ~Activated(k)' /\ (CleanupOf(k)' => CleanupOf(k))
    BY <1>4 DEF Activated, CleanupOf, CleanedUp
  <2> QED
    BY <2>1, <2>2, <2>3 DEF Inv, ServeInv, SamePrimary, Record, Id
<1>11. OpInv'
  BY DEF Inv, OpInv, Undone, SamePrimary, cfg, Id
<1> QED
  BY <1>5, <1>6, <1>7, <1>8, <1>9, <1>10, <1>11 DEF Inv

\* A step outside the processes of the primary and of the target.
LEMMA OutsideStep ==
    ASSUME NEW g \in [Nat -> Nat], Inv(g),
           UNCHANGED <<op, stable, net, co, run, peer, mail, installed>>,
           PodsInv(pod'),
           \A r \in {Primary, Target} : /\ pod'[r].exists = pod[r].exists
                                        /\ pod'[r].label = pod[r].label,
           IsRecord(rep', Replica), rep'[Primary] = rep[Primary], rep'[Target] = rep[Target]
    PROVE  Inv(g)'
<1>1. ShapeInv'
  BY Ids DEF Inv, ShapeInv, PodsInv
<1>2. AloneInv(g)'
  BY DEF Inv, AloneInv, SamePrimary, Known, Id, Inst
<1>3. GensInv(g)' /\ CoInv' /\ LedgerInv(g)'
  BY DEF Inv, GensInv, LedgerInv, CoInv, Known, SamePrimary, cfg, Id
<1>4. ServeInv(g)'
  BY DEF Inv, ServeInv, Serving, Activated, CleanupOf, CleanedUp, SamePrimary, Record, Id
<1>5. OpInv'
  BY DEF Inv, OpInv, Undone, SamePrimary, cfg, Id
<1> QED
  BY <1>1, <1>2, <1>3, <1>4, <1>5 DEF Inv

LEMMA KnownPods == ASSUME NEW g, Inv(g) PROVE PodsInv(pod)
BY DEF Inv, ShapeInv, PodsInv

LEMMA DeleteTargetStep ==
    ASSUME NEW g \in [Nat -> Nat], Inv(g), DeleteTarget
    PROVE  Inv(g)'
<1>1. CASE pod[Target].exists /\ rep[Target].inst = TargetInst
  <2> DEFINE qs == [pod EXCEPT ![Target].exists = FALSE]
  <2>1. /\ UNCHANGED <<op, stable, net, co, run, mail, installed>> /\ pod' = qs
        /\ peer' = BlankPeer /\ rep' = [rep EXCEPT ![Target] = Restarted(@)]
    BY <1>1 DEF DeleteTarget, primary
  <2>2. /\ PodsInv(qs) /\ qs[Primary] = pod[Primary] /\ qs[Target].exists = FALSE
        /\ qs[Target].label = pod[Target].label
    <3>1. PodsInv(pod)
      BY KnownPods
    <3>2. /\ PodsInv(qs) /\ \A s \in Replica \ {Target} : qs[s] = pod[s]
          /\ qs[Target].exists = FALSE /\ qs[Target].label = pod[Target].label
      BY <3>1, Ids DEF PodsInv, IsRecord, PodFields
    <3> HIDE DEF qs
    <3> QED
      BY <3>2, Ids
  <2>3. IsRecord(rep, Replica) /\ rep[Target].inst \in Nat
    BY DEF Inv, ShapeInv
  <2>4. /\ IsRecord(rep', Replica) /\ rep'[Primary] = rep[Primary]
        /\ rep'[Target] = BlankProcess(rep[Target].inst, rep[Target].gen + 1)
    BY <2>1, <2>3, Ids DEF Restarted, IsRecord
  <2> HIDE DEF qs
  <2> QED
    BY <2>1, <2>2, <2>3, <2>4, TargetEnds
<1>2. CASE ~(pod[Target].exists /\ rep[Target].inst = TargetInst)
  <2>1. Persist(Goto("AddCompensateFinalize")) /\ op.phase = "AddDeleteCompensatedTarget"
    BY <1>2 DEF DeleteTarget
  <2>2. /\ ~op.committed /\ ~(installed >= 0 /\ installed = op.tgen)
        /\ ~SamePrimary \/ (op.attempt > 0 /\ Id(op.attempt) \in DOMAIN rep[Primary].done)
    BY <2>1 DEF Inv, OpInv, BeforeCommit, Undone
  <2> QED
    BY <2>1, <2>2, PhaseStep DEF BeforeCommit
<1> QED
  BY <1>1, <1>2

LEMMA ReconcileStep ==
    ASSUME NEW g \in [Nat -> Nat], Inv(g), Reconcile
    PROVE  \E h \in [Nat -> Nat] : Inv(h)'
<1>1. CASE FreezeIntent
  BY <1>1, FreezeStep
<1>2. CASE FailClosed
  BY <1>2, FailClosedStep DEF FailClosed
<1>3. CASE DegradedHandoff \/ DeleteTarget \/ CompensateFinalize \/ PrimarySilent
  BY <1>3, DegradedHandoffStep, DeleteTargetStep, CompensateFinalizeStep, PrimarySilentStep
<1>4. CASE RecordCommit \/ PrimaryChanged \/ DispatchIntent \/ Refreeze
  BY <1>4, RecordCommitStep, PrimaryChangedStep, DispatchIntentStep, RefreezeStep
<1>5. CASE AwaitEnds \/ PlanDispatch \/ Dispatch \/ StartPublish
  BY <1>5, AwaitEndsStep, DispatchIntentStep, DispatchStep, StartPublishStep
<1>6. CASE PublishLabel \/ PublishDone \/ PublishGivenUp
  BY <1>6, PublishLabelStep, PublishDoneStep, PublishGivenUpStep
<1> QED
  BY <1>1, <1>2, <1>3, <1>4, <1>5, <1>6 DEF Reconcile

-----------------------------------------------------------------------------
(* Time and faults.                                                        *)

LEMMA NothingMoves ==
    ASSUME NEW g \in [Nat -> Nat], Inv(g),
           UNCHANGED <<op, stable, rep, pod, net, co, run, peer, mail, installed>>
    PROVE  Inv(g)'
BY KnownPods, OutsideStep DEF Inv, ShapeInv

LEMMA ClockStep ==
    ASSUME NEW g \in [Nat -> Nat], Inv(g), Clock
    PROVE  Inv(g)'
<1>1. CASE PublishDeadline
  BY <1>1, PublishDeadlineStep
<1>2. CASE \E a \in DOMAIN time : TimePasses(a)
  BY <1>2, NothingMoves DEF TimePasses, primary, target
<1> QED
  BY <1>1, <1>2 DEF Clock

LEMMA ConnectionStep ==
    ASSUME NEW g \in [Nat -> Nat], Inv(g), NEW r \in Replica, Disconnect(r) \/ Reconnect(r)
    PROVE  Inv(g)'
<1>1. PICK v \in BOOLEAN :
        /\ UNCHANGED <<op, stable, net, rep, co, run, peer, mail, installed>>
        /\ pod' = [pod EXCEPT ![r].up = v]
  BY DEF Disconnect, Reconnect, Fault, primary, target
<1> DEFINE qs == [pod EXCEPT ![r].up = v]
<1>2. /\ PodsInv(qs) /\ \A s \in Replica \ {r} : qs[s] = pod[s]
      /\ qs[r].exists = pod[r].exists /\ qs[r].label = pod[r].label
  BY KnownPods, PodConnects
<1> HIDE DEF qs
<1>3. pod' = qs /\ \A s \in Replica : qs[s].exists = pod[s].exists /\ qs[s].label = pod[s].label
  BY <1>1, <1>2 DEF qs
<1> QED
  BY <1>1, <1>2, <1>3, Ids, OutsideStep DEF Inv, ShapeInv

\* What a fault does to the pods and to the processes.
LEMMA EndingProcess ==
    ASSUME NEW g, Inv(g), NEW r \in Replica, RestartContainer(r) \/ LosePod(r) \/ ReplacePod(r)
    PROVE  /\ UNCHANGED <<op, stable, net, mail, installed>> /\ Ends(r)
           /\ \/ rep' = [rep EXCEPT ![r] = Restarted(@)] /\ pod'[r].label = pod[r].label
              \/ /\ rep' = [rep EXCEPT ![r] = BlankProcess(@.inst + 1, @.gen + 1)]
                 /\ pod'[r].label = "bootstrap"
           /\ pod'[r].exists => pod[r].exists
           /\ PodsInv(pod') /\ \A s \in Replica \ {r} : pod'[s] = pod[s]
<1>1. CASE RestartContainer(r)
  BY <1>1, KnownPods DEF RestartContainer, Fault
<1>2. CASE LosePod(r)
  <2> DEFINE qs == [pod EXCEPT ![r].exists = FALSE]
  <2>1. /\ PodsInv(qs) /\ \A s \in Replica \ {r} : qs[s] = pod[s]
        /\ qs[r].exists = FALSE /\ qs[r].label = pod[r].label
    BY KnownPods, PodGoes
  <2>2. /\ UNCHANGED <<op, stable, net, mail, installed>> /\ Ends(r) /\ pod' = qs
        /\ rep' = [rep EXCEPT ![r] = Restarted(@)]
    BY <1>2 DEF LosePod, Fault
  <2> HIDE DEF qs
  <2> QED
    BY <2>1, <2>2
<1>3. CASE ReplacePod(r)
  <2> DEFINE qs == [pod EXCEPT ![r].label = "bootstrap"]
  <2>1. /\ PodsInv(qs) /\ \A s \in Replica \ {r} : qs[s] = pod[s]
        /\ qs[r].exists = pod[r].exists /\ qs[r].label = "bootstrap"
    BY KnownPods, PodLabelled
  <2>2. /\ UNCHANGED <<op, stable, net, mail, installed>> /\ Ends(r) /\ pod' = qs
        /\ rep' = [rep EXCEPT ![r] = BlankProcess(@.inst + 1, @.gen + 1)]
    BY <1>3 DEF ReplacePod, Fault
  <2> HIDE DEF qs
  <2> QED
    BY <2>1, <2>2
<1> QED
  BY <1>1, <1>2, <1>3

\* Another process takes the place of the primary's.
LEMMA PrimaryEnds ==
    ASSUME NEW g \in [Nat -> Nat], Inv(g),
           RestartContainer(Primary) \/ LosePod(Primary) \/ ReplacePod(Primary)
    PROVE  Inv(g)'
<1>1. /\ UNCHANGED <<op, stable, net, peer, mail, installed>> /\ co' = NoCo /\ run' = BlankRun
      /\ PodsInv(pod') /\ pod'[Target] = pod[Target]
      /\ rep' = [rep EXCEPT ![Primary] = Restarted(@)] \/
         rep' = [rep EXCEPT ![Primary] = BlankProcess(@.inst + 1, @.gen + 1)]
  BY Ids, EndingProcess DEF Ends
<1>2. IsRecord(rep, Replica) /\ rep[Primary].gen \in Nat /\ rep[Primary].inst \in Nat
  BY DEF Inv, ShapeInv
<1>3. \E i \in Nat : rep' = [rep EXCEPT ![Primary] = BlankProcess(i, rep[Primary].gen + 1)]
  BY <1>1, <1>2, Ids DEF Restarted, IsRecord
<1>4. PICK i \in Nat : rep' = [rep EXCEPT ![Primary] = BlankProcess(i, rep[Primary].gen + 1)]
  BY <1>3
<1> DEFINE b == BlankProcess(i, rep[Primary].gen + 1)
<1>5. /\ IsRecord(b, ProcessFields) /\ b.gen = rep[Primary].gen + 1 /\ b.inst = i
      /\ b.role = "Unknown" /\ b.active = NoAction /\ DOMAIN b.done = {}
  <2>1. b.done = << >>
    BY DEF BlankProcess
  <2> QED
    BY <2>1, BlankFields
<1>6. IsRecord(rep', Replica) /\ rep'[Primary] = b /\ rep'[Target] = rep[Target]
  <2> HIDE DEF b
  <2> QED
    BY <1>2, <1>4, Ids DEF IsRecord, b
<1> HIDE DEF b
<1>7. ~SamePrimary'
  BY <1>2, <1>5, <1>6 DEF SamePrimary
<1>8. /\ IsRecord(NoCo, CoordinatorFields) /\ NoCo.step = "none" /\ NoCo.asked = FALSE
      /\ IsRecord(BlankRun, RuntimeFields) /\ BlankRun.tracker = "Previous" /\ BlankRun.conn = {}
  BY DEF NoCo, IsRecord, CoordinatorFields, BlankRun, RuntimeFields
<1>9. ShapeInv'
  <2>1. /\ IsRecord(rep'[Primary], ProcessFields) /\ rep'[Primary].gen \in Nat
        /\ rep'[Primary].inst \in Nat
    BY <1>2, <1>5, <1>6
  <2> QED
    BY <1>1, <1>6, <1>8, <2>1 DEF Inv, ShapeInv, PodsInv
<1>10. AloneInv(g)'
  BY <1>1, <1>5, <1>6, <1>7 DEF Inv, AloneInv, Known, Id
<1>11. GensInv(g)' /\ LedgerInv(g)'
  BY <1>1, <1>6, <1>8 DEF Inv, GensInv, LedgerInv, Known
<1>12. CoInv'
  BY <1>1, <1>5, <1>6, <1>7, <1>8 DEF CoInv
<1>13. ServeInv(g)'
  <2>1. \A k : /\ CleanupOf(k)' <=> CleanupOf(k)
               /\ CleanedUp(k)' <=> CleanedUp(k)
               /\ Activated(k)' <=> Activated(k)
    BY <1>1 DEF CleanupOf, CleanedUp, Activated
  <2>2. Serving' <=> Serving
    BY <1>6 DEF Serving
  <2>3. co'.step = "none" /\ co'.step \notin Installing
    BY <1>1, <1>8 DEF Installing
  <2> QED
    BY <1>1, <1>6, <1>7, <2>1, <2>2, <2>3 DEF Inv, ServeInv
<1>14. OpInv'
  BY <1>1, <1>7 DEF Inv, OpInv, Undone
<1> QED
  BY <1>9, <1>10, <1>11, <1>12, <1>13, <1>14 DEF Inv

LEMMA FaultsStep ==
    ASSUME NEW g \in [Nat -> Nat], Inv(g), NEW r \in Replica, Faults(r) \/ Reconnect(r)
    PROVE  Inv(g)'
<1>1. CASE Disconnect(r) \/ Reconnect(r)
  BY <1>1, ConnectionStep
<1>2. CASE RestartContainer(r) \/ LosePod(r) \/ ReplacePod(r)
  <2>1. CASE r = Primary
    BY <1>2, <2>1, PrimaryEnds
  <2>2. CASE r # Primary
    <3>1. /\ UNCHANGED <<op, stable, net, mail, installed>> /\ Ends(r)
          /\ \/ rep' = [rep EXCEPT ![r] = Restarted(@)] /\ pod'[r].label = pod[r].label
             \/ /\ rep' = [rep EXCEPT ![r] = BlankProcess(@.inst + 1, @.gen + 1)]
                /\ pod'[r].label = "bootstrap"
          /\ pod'[r].exists => pod[r].exists
          /\ PodsInv(pod') /\ \A s \in Replica \ {r} : pod'[s] = pod[s]
      BY <1>2, EndingProcess
    <3>2. UNCHANGED <<co, run>> /\ peer' = IF r = Target THEN BlankPeer ELSE peer
      BY <2>2, <3>1 DEF Ends
    <3>3. IsRecord(rep, Replica) /\ rep[Target].inst \in Nat
      BY DEF Inv, ShapeInv
    <3>4. CASE r = Target
      <4>1. /\ IsRecord(rep', Replica) /\ rep'[Primary] = rep[Primary]
            /\ \E i \in Nat : rep'[Target] = BlankProcess(i, rep[Target].gen + 1)
        BY <3>1, <3>3, <3>4, Ids DEF Restarted, IsRecord
      <4>2. /\ pod'[Primary] = pod[Primary] /\ peer' = BlankPeer
            /\ pod'[Target].exists => pod[Target].exists
            /\ pod'[Target].label = "secondary" => pod[Target].label = "secondary"
        BY <3>1, <3>2, <3>4, Ids
      <4> QED
        BY <3>1, <3>2, <4>1, <4>2, TargetEnds
    <3>5. CASE r # Target
      <4>1. /\ IsRecord(rep', Replica) /\ rep'[Primary] = rep[Primary]
            /\ rep'[Target] = rep[Target]
        BY <2>2, <3>1, <3>3, <3>5, Ids DEF IsRecord
      <4>2. pod'[Primary] = pod[Primary] /\ pod'[Target] = pod[Target] /\ peer' = peer
        BY <2>2, <3>1, <3>2, <3>5, Ids
      <4> QED
        BY <3>1, <3>2, <4>1, <4>2, OutsideStep
    <3> QED
      BY <3>4, <3>5
  <2> QED
    BY <2>1, <2>2
<1> QED
  BY <1>1, <1>2 DEF Faults

LEMMA NextInv == IInv /\ [Next]_vars => IInv'
<1> SUFFICES ASSUME IInv, [Next]_vars PROVE \E h \in [Nat -> Nat] : Inv(h)'
  BY DEF IInv
<1>1. PICK g \in [Nat -> Nat] : Inv(g)
  BY DEF IInv
<1>2. CASE Reconcile
  BY <1>1, <1>2, ReconcileStep
<1>3. CASE Coordinate \/ AskTimesOut \/ Serve
  BY <1>1, <1>3, CoordinateStep, AskTimesOutStep, ServeStep
<1>4. CASE Clock
  BY <1>1, <1>4, ClockStep
<1>5. CASE \E r \in Replica : Faults(r) \/ Reconnect(r)
  BY <1>1, <1>5, FaultsStep
<1>6. CASE UNCHANGED vars
  BY <1>1, <1>6, NothingMoves DEF vars
<1> QED
  BY <1>2, <1>3, <1>4, <1>5, <1>6 DEF Next

LEMMA MemberFields ==
    ASSUME NEW inst, NEW role
    PROVE  LET m == Member(inst, role)
           IN  /\ IsRecord(m, ProcessFields) /\ m.gen = 0 /\ m.inst = inst /\ m.role = role
               /\ m.active = NoAction /\ m.done = << >>
               /\ role = "Primary" => m.cfg = "Previous"
BY ZenonT(60) DEF Member, BlankProcess, IsRecord, ProcessFields

LEMMA InitInv == Init => IInv
<1> SUFFICES ASSUME Init PROVE IInv
  OBVIOUS
<1>0. PICK g \in [Nat -> Nat] : \A k \in Nat : g[k] = 0
  <2>1. [k \in Nat |-> 0] \in [Nat -> Nat]
    OBVIOUS
  <2> QED
    BY <2>1
<1>1. /\ IsRecord(op, OperationFields) /\ op.attempt = 0 /\ op.tgen = 0 /\ op.pgen = 0
      /\ op.phase = "AddFreezeIntent" /\ op.committed = FALSE
  BY DEF Init, IsRecord, OperationFields
<1>2. rep[Primary] = Member(0, "Primary") /\ rep[Target] = BlankProcess(TargetInst, 0)
  BY Ids DEF Init
<1>3. /\ IsRecord(rep[Primary], ProcessFields) /\ rep[Primary].gen = 0 /\ rep[Primary].inst = 0
      /\ rep[Primary].active = NoAction /\ DOMAIN rep[Primary].done = {} /\ cfg = "Previous"
  <2>1. rep[Primary].done = << >>
    BY <1>2, MemberFields
  <2> QED
    BY <1>2, <2>1, MemberFields DEF cfg
<1>4. /\ IsRecord(rep[Target], ProcessFields) /\ rep[Target].gen = 0
      /\ rep[Target].inst = TargetInst /\ rep[Target].role = "Unknown"
  BY <1>2, BlankFields
<1>5. /\ IsRecord(run, RuntimeFields) /\ run.tracker = "Previous" /\ run.conn \subseteq {Retired}
  BY DEF Init, BlankRun, IsRecord, RuntimeFields
<1>6. /\ IsRecord(co, CoordinatorFields) /\ co.step = "none" /\ co.asked = FALSE
      /\ IsRecord(peer, PeerFields) /\ peer.active = NoAction /\ DOMAIN peer.done = {}
  BY BlankLedger DEF Init, NoCo, IsRecord, CoordinatorFields
<1>7. PodsInv(pod) /\ pod[Primary].exists /\ pod[Target].label = "bootstrap"
  BY Ids DEF Init, PodsInv, IsRecord, PodFields
<1>8. ShapeInv
  <2>1. 0 \in 0 .. MaxAttempts /\ 0 \in Nat /\ TargetInst \in Nat
    BY AddAssumption DEF TargetInst
  <2>2. IsRecord(rep, Replica)
    BY DEF Init, IsRecord
  <2> QED
    BY <1>1, <1>3, <1>4, <1>5, <1>6, <1>7, <2>1, <2>2 DEF ShapeInv, PodsInv
<1>9. AloneInv(g)
  BY <1>1, <1>3, <1>7, Ids DEF AloneInv, SamePrimary, Init
<1>10. GensInv(g)
  BY <1>1, <1>4, <1>6 DEF GensInv, Init
<1>11. LedgerInv(g)
  BY <1>4, <1>6 DEF LedgerInv, Init, Secondary
<1>12. CoInv
  <2>1. installed = -1 /\ ~(installed >= 0)
    BY DEF Init
  <2> QED
    BY <1>3, <1>5, <1>6, <2>1 DEF CoInv
<1>13. ServeInv(g)
  BY <1>1, <1>4, <1>6 DEF ServeInv, Init, Installing
<1>14. OpInv
  BY <1>1, <1>7 DEF OpInv, Undone, Init, BeforeCommit, AfterCommit
<1> QED
  BY <1>0, <1>8, <1>9, <1>10, <1>11, <1>12, <1>13, <1>14 DEF Inv, IInv

-----------------------------------------------------------------------------
(* Theorems.                                                               *)

\* What the three theorems below rest on: generations can be given to the attempts
\* so that each attempt works on a target process of its own, through every frozen
\* intent, stage, answer and fault.
THEOREM AttemptsAreApart == Spec => []IInv
BY InitInv, NextInv, PTL DEF Spec

LEMMA InvStands == IInv => CommitStands
<1> SUFFICES ASSUME IInv PROVE CommitStands
  OBVIOUS
<1>1. PICK g \in [Nat -> Nat] : Inv(g)
  BY DEF IInv
<1> QED
  BY <1>1 DEF Inv, OpInv, CommitStands

\* Once the primary has installed the configuration of the intent the operator
\* holds, no decision of decide_await_coordination, of a silent or changed primary
\* or of a compensation deletes the target or ends with the previous snapshot, for
\* any number of secondaries, attempts and faults.
THEOREM TheCommitStands == Spec => []CommitStands
BY AttemptsAreApart, InvStands, PTL

LEMMA InvServes == IInv => CommittedTargetServes
<1> SUFFICES ASSUME IInv PROVE CommittedTargetServes
  OBVIOUS
<1>1. PICK g \in [Nat -> Nat] : Inv(g)
  BY DEF IInv
<1>2. stable = "Target" \/ op.committed => installed >= 0
  BY <1>1 DEF Inv, OpInv
<1>3. rep[Target].gen = installed => rep[Target].data /\ rep[Target].role = "ActiveSecondary"
  BY <1>1 DEF Inv, ServeInv, Serving
<1> QED
  BY <1>2, <1>3 DEF CommittedTargetServes

\* The process that a current configuration was installed for has the copy and the
\* active role as long as it lives: Prepare, Activate and Cleanup stages that
\* arrive late, or belong to another attempt, do not touch it.
THEOREM TheCommittedTargetServes == Spec => []CommittedTargetServes
BY AttemptsAreApart, InvServes, PTL

LEMMA InvConsistent == IInv => Consistent
<1> SUFFICES ASSUME IInv PROVE Consistent
  OBVIOUS
<1>1. PICK g \in [Nat -> Nat] : Inv(g)
  BY DEF IInv
<1>2. TypeOK
  BY <1>1 DEF Inv, ShapeInv, CoInv, OpInv, BeforeCommit, AfterCommit, TypeOK, Terminal, Closing
<1>3. LabelledIsCommitted
  BY <1>1 DEF Inv, OpInv, LabelledIsCommitted
<1>4. PublishedIsTracked
  BY <1>1 DEF Inv, AloneInv, CoInv, OpInv, SamePrimary, PublishedIsTracked
<1> QED
  BY <1>2, <1>3, <1>4 DEF Consistent

\* The target has its serving label only when the addition is committed and not
\* degraded, and a primary that was left alone counts its quorums in the published
\* configuration, with a connection to the target, when the operation is completed.
THEOREM LabelsAndQuorumsAgree == Spec => []Consistent
BY AttemptsAreApart, InvConsistent, PTL
=============================================================================
