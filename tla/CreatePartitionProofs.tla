------------------------- MODULE CreatePartitionProofs -------------------------
(***************************************************************************)
(* What the creation of a partition has committed stays as it is, counts   *)
(* in the primary's configuration and has a copy of the state, for every   *)
(* number of replicas and any number of attempts, faults, failures and     *)
(* missed deadlines.                                                       *)
(*                                                                         *)
(* The argument follows what is due at a replica: the action it runs and   *)
(* the requests its agent may still admit.  Agents and faults only remove  *)
(* from it, an admission leaves nothing but the admitted action, and the   *)
(* operator adds to it when it dispatches.  So nothing that could move a   *)
(* replica from its role is due once the candidate's own phases are over,  *)
(* and what is due at the primary then are configurations, each of which   *)
(* names the committed members.                                            *)
(***************************************************************************)
EXTENDS CreatePartition, FiniteSetTheorems, TLAPS

IsRecord(f, fields) == f = [x \in fields |-> f[x]]

ProcessFields ==
    {"inst", "gen", "ver", "active", "done", "open", "role", "epoch", "wal", "write", "cfg", "data"}
OperationFields == {"phase", "insts", "committed", "target", "index", "pending", "late"}
PendingFields == {"id", "target", "fences"}
ActionFields == {"id", "act"}
PodFields == {"exists", "up", "label"}

-----------------------------------------------------------------------------
(* The phases.                                                             *)

Opening == {"CreateOpenPrimary", "CreateOpenSecondary"}

PrimaryPhases ==
    {"CreateOpenPrimary", "CreatePromotePrimary", "CreatePrimaryCurrentConfiguration",
     "CreateCommitPrimary"}

SecondaryPhases ==
    {"CreateOpenSecondary", "CreateUpdateSecondaryEpoch", "CreateAssignSecondaryIdle",
     "CreateBuildSecondary", "CreateAssignSecondaryActive", "CreateCommitSecondary"}
    \cup Configuring

Forward == PrimaryPhases \cup SecondaryPhases
Routing == {"CreatePublishRouting", "CreateFinalize", "Completed"}
Unstarted == {"None", "Failed", "CreateFenceRouting"}
Phases == Forward \cup Compensating \cup Routing \cup Unstarted \cup {"Poisoned"}

\* The phases whose action the primary runs for the candidate.
AtPrimary ==
    Configuring \cup {"CreatePrimaryCurrentConfiguration", "CreateBuildSecondary",
                      "CreateCompensateRestoreConfiguration", "CreateCompensateRemoveCandidate"}

PendingInv ==
    op.pending # NoAction =>
        /\ IsRecord(op.pending, PendingFields)
        /\ op.phase \in Acting /\ op.pending.id[2] = op.phase
        /\ op.pending.target \in Replica
        /\ op.phase \notin Labelling =>
              op.pending.target = IF op.phase \in AtPrimary THEN Primary ELSE op.target

OperationInv ==
    /\ IsRecord(op, OperationFields)
    /\ op.phase \in Phases
    /\ op.committed \in 0..N /\ op.target \in Replica /\ op.index \in 0..(N - 1)
    /\ PendingInv
    /\ op.phase \in PrimaryPhases => op.committed = 0
    /\ op.phase \in SecondaryPhases \cup {"CreateCompensateRestoreConfiguration"} =>
          op.committed >= 1
    /\ op.phase \in Forward \cup Compensating => op.target = op.committed + 1
    /\ op.phase \in Routing => op.committed = N
    /\ op.phase \in Unstarted => op.committed < N
    /\ stable \in BOOLEAN /\ (stable => op.phase = "Completed")

-----------------------------------------------------------------------------
(* Processes, requests and what is due.                                    *)

Roles == {"Unknown", "None", "Primary", "IdleSecondary", "ActiveSecondary"}

ActInv(act) ==
    /\ act.do \in {"Open", "ChangeRole", "UpdateEpoch", "Build", "Wait", "CatchUp", "Current",
                   "Remove", "Close"}
    /\ act.do = "ChangeRole" => act.role \in Roles
    /\ act.do \in {"ChangeRole", "UpdateEpoch"} => act.epoch = Epoch

ProcessInv(p) ==
    /\ IsRecord(p, ProcessFields)
    /\ p.inst \in Nat /\ p.gen \in Nat /\ p.ver \in Nat
    /\ p.role \in Roles /\ p.epoch \in 0..Epoch
    /\ p.active # NoAction =>
          IsRecord(p.active, ActionFields) /\ p.active.id \notin DOMAIN p.done /\ ActInv(p.active.act)
    /\ \A id \in DOMAIN p.done : p.done[id] \in {"Completed", "Failed"}

\* The fences of q were observed at the process p, or at one before it.
Past(p, q) ==
    /\ q.fences.gen \in Nat /\ q.fences.ver \in Nat
    /\ q.fences.gen <= p.gen
    /\ q.fences.gen = p.gen => q.fences.ver <= p.ver

RequestInv(q) == q.to \in Replica /\ Past(rep[q.to], q) /\ ActInv(q.act)

PodInv(d) ==
    IsRecord(d, PodFields) /\ d.exists \in BOOLEAN /\ d.up \in BOOLEAN
    /\ d.label \in {"bootstrap", "primary", "secondary"}

\* The agent of r may still admit q.
Fresh(r, q) ==
    /\ q.to = r /\ q.fences.gen = rep[r].gen /\ q.fences.ver = rep[r].ver
    /\ q.id \notin DOMAIN rep[r].done

Due(r) ==
    {[id |-> q.id, act |-> q.act] : q \in {x \in net : Fresh(r, x)}}
    \cup (IF rep[r].active = NoAction THEN {} ELSE {rep[r].active})

TypeInv ==
    /\ OperationInv
    /\ IsRecord(rep, Replica) /\ \A r \in Replica : ProcessInv(rep[r])
    /\ IsRecord(pod, Replica) /\ \A r \in Replica : PodInv(pod[r])
    /\ \A q \in net : RequestInv(q)

-----------------------------------------------------------------------------
(* Where a replica that no fault has befallen stands.                      *)

Stage(p, open, role, epoch) == p.open = open /\ p.role = role /\ p.epoch = epoch

Unopened(p) == Stage(p, FALSE, "Unknown", BlankEpoch)
Opened(p) == Stage(p, TRUE, "Unknown", BlankEpoch)
Numbered(p) == Stage(p, TRUE, "Unknown", Epoch)
Idle(p) == Stage(p, TRUE, "IdleSecondary", Epoch)
Serves(p) == Stage(p, TRUE, "ActiveSecondary", Epoch)
Leads(p) == Stage(p, TRUE, "Primary", Epoch)

\* A committed member has its role; all that may be due there are actions of
\* the primary that change no role.
Settled(r) ==
    /\ pod[r].exists
    /\ IF r = Primary THEN Leads(rep[r]) ELSE Serves(rep[r])
    /\ \A a \in Due(r) :
          r = Primary /\ a.act.do \in {"CatchUp", "Current", "Build", "Wait", "Remove"}

\* A replica the creation has not come to.
Clean(r) ==
    pod[r].exists =>
        /\ Unopened(rep[r]) /\ rep[r].cfg = NoConfig
        /\ DOMAIN rep[r].done = {} /\ Due(r) = {}

\* What a completed action of the candidate has done.
RecordInv(p) ==
    \A id \in DOMAIN p.done : p.done[id] = "Completed" =>
        /\ id[2] \in Opening => p.open
        /\ id[2] \in {"CreatePromotePrimary", "CreateUpdateSecondaryEpoch"} => p.epoch = Epoch
        /\ id[2] = "CreateAssignSecondaryIdle" => p.role # "Unknown"
        /\ id[2] = "CreateAssignSecondaryActive" => p.role = "ActiveSecondary"
        /\ id[2] = "CreatePrimaryCurrentConfiguration" => p.cfg # NoConfig

\* The action of the candidate's phase.
Own(act) ==
    /\ op.phase \in Opening => act.do = "Open"
    /\ op.phase = "CreateUpdateSecondaryEpoch" => act.do = "UpdateEpoch"
    /\ op.phase \in {"CreatePromotePrimary", "CreateAssignSecondaryIdle",
                     "CreateAssignSecondaryActive"} => act.do = "ChangeRole"
    /\ op.phase = "CreatePromotePrimary" => act.role = "Primary"
    /\ op.phase = "CreateAssignSecondaryIdle" => act.role = "IdleSecondary"
    /\ op.phase = "CreateAssignSecondaryActive" => act.role = "ActiveSecondary"
    /\ op.phase = "CreatePrimaryCurrentConfiguration" =>
          act.do = "Current" /\ act.members = Secondaries(Primary)

\* Only the pending action is due, or it is done and nothing is.
Takes(r, before, after) ==
    \/ /\ before
       /\ \A a \in Due(r) : op.pending # NoAction /\ a.id = op.pending.id /\ Own(a.act)
    \/ after /\ Due(r) = {}

Founded(p) == p.cfg = ConfigOf("Current", Primary) /\ p.write = "Granted"

Progress(r) ==
    /\ pod[r].exists
    /\ RecordInv(rep[r])
    /\ op.phase \notin {"CreatePrimaryCurrentConfiguration", "CreateCommitPrimary"} =>
          rep[r].cfg = NoConfig
    /\ op.phase \in Opening => Takes(r, Unopened(rep[r]), Opened(rep[r]))
    /\ op.phase = "CreatePromotePrimary" => Takes(r, Opened(rep[r]), Leads(rep[r]))
    /\ op.phase = "CreatePrimaryCurrentConfiguration" =>
          Leads(rep[r]) /\ Takes(r, rep[r].cfg = NoConfig, Founded(rep[r]))
    /\ op.phase = "CreateCommitPrimary" => Leads(rep[r]) /\ Founded(rep[r]) /\ Due(r) = {}
    /\ op.phase = "CreateUpdateSecondaryEpoch" => Takes(r, Opened(rep[r]), Numbered(rep[r]))
    /\ op.phase = "CreateAssignSecondaryIdle" => Takes(r, Numbered(rep[r]), Idle(rep[r]))
    /\ op.phase = "CreateBuildSecondary" => Idle(rep[r]) /\ Due(r) = {}
    /\ op.phase = "CreateAssignSecondaryActive" => Takes(r, Idle(rep[r]), Serves(rep[r]))
    /\ op.phase \in Configuring \cup {"CreateCommitSecondary"} =>
          Serves(rep[r]) /\ Due(r) = {}

\* The creation has not come to r, or has undone what it did.
Waiting(r) ==
    /\ r > op.committed /\ op.phase # "Poisoned"
    /\ r = op.target => op.phase \notin Forward \cup (Compensating \ {"CreateCompensateFinalize"})

ReplicaInv(r) ==
    /\ pod[r].up
    /\ r <= op.committed \/ op.phase \notin {"None", "Failed"} => Same(r)
    /\ r <= op.committed => Settled(r)
    /\ op.phase \in Forward /\ r = op.target => Progress(r)
    /\ Waiting(r) => Clean(r)

IInv == TypeInv /\ \A r \in Replica \ hit : ReplicaInv(r)

-----------------------------------------------------------------------------
(* What is due after a step.                                               *)

\* p2 comes after p: what p has recorded is recorded, unless p is replaced.
Later(p, p2) ==
    /\ p2.gen >= p.gen
    /\ p2.gen = p.gen => p2.ver >= p.ver /\ DOMAIN p.done \subseteq DOMAIN p2.done

LEMMA InDue ==
    ASSUME NEW r, NEW a
    PROVE  a \in Due(r) <=> \/ \E q \in net : Fresh(r, q) /\ a = [id |-> q.id, act |-> q.act]
                            \/ rep[r].active # NoAction /\ a = rep[r].active
  BY DEF Due

\* Every action that is due keeps the invariant of actions.
LEMMA DueIsAction ==
    ASSUME TypeInv, NEW r \in Replica, NEW a \in Due(r)
    PROVE  ActInv(a.act) /\ a.id \notin DOMAIN rep[r].done
<1>1. CASE \E q \in net : Fresh(r, q) /\ a = [id |-> q.id, act |-> q.act]
  BY <1>1 DEF TypeInv, RequestInv, Fresh
<1>2. CASE rep[r].active # NoAction /\ a = rep[r].active
  BY <1>2 DEF TypeInv, ProcessInv
<1> QED
  BY <1>1, <1>2, InDue

\* What is due at a successor was due before, except the action it runs.
LEMMA DueAfter ==
    ASSUME TypeInv, NEW r \in Replica, NEW p2, p2.gen \in Nat, p2.ver \in Nat,
           rep'[r] = p2, Later(rep[r], p2), net' \subseteq net
    PROVE  \A a \in Due(r)' :
              \/ p2.active # NoAction /\ a = p2.active
              \/ /\ a \in Due(r) /\ a.id \notin DOMAIN p2.done
                 /\ p2.gen = rep[r].gen /\ p2.ver = rep[r].ver
<1> SUFFICES ASSUME NEW q \in net', Fresh(r, q)', p2.gen \in Nat
             PROVE  /\ Fresh(r, q) /\ q.id \notin DOMAIN p2.done
                    /\ p2.gen = rep[r].gen /\ p2.ver = rep[r].ver
  BY InDue DEF Due
<1>1. /\ q.to = r /\ q.fences.gen = p2.gen /\ q.fences.ver = p2.ver
      /\ q.id \notin DOMAIN p2.done
  BY DEF Fresh
<1>2. Past(rep[r], q)
  BY <1>1 DEF TypeInv, RequestInv
<1>3. rep[r].gen \in Nat /\ rep[r].ver \in Nat
  BY DEF TypeInv, ProcessInv
<1>4. p2.gen = rep[r].gen /\ p2.ver = rep[r].ver
  BY <1>1, <1>2, <1>3 DEF Past, Later
<1> QED
  BY <1>1, <1>4 DEF Fresh, Later

\* Nothing changes at a replica whose process and requests are the same.
LEMMA DueSame ==
    ASSUME NEW r, rep'[r] = rep[r], net' \subseteq net
    PROVE  Due(r)' \subseteq Due(r)
  BY DEF Due, Fresh

-----------------------------------------------------------------------------
(* The end of an action.                                                   *)

Configures(act) == act.do \in {"CatchUp", "Current"}

\* What the effect e of an action leaves of the process p.
EffectFacts(p, act, e) ==
    /\ IsRecord(e, ProcessFields)
    /\ e.inst = p.inst /\ e.gen = p.gen /\ e.ver = p.ver /\ e.done = p.done
    /\ e.data = p.data
    /\ act.do = "Open" => Opened(e) /\ e.cfg = NoConfig
    /\ act.do = "Close" => e.role = "None" /\ e.epoch = p.epoch
    /\ act.do = "ChangeRole" => e.open = p.open /\ e.role = act.role /\ e.epoch = Epoch
    /\ act.do = "UpdateEpoch" => e.open = p.open /\ e.role = p.role /\ e.epoch = Epoch
    /\ act.do \in {"CatchUp", "Current", "Build", "Wait", "Remove"} =>
          e.open = p.open /\ e.role = p.role /\ e.epoch = p.epoch
    /\ Configures(act) => /\ e.cfg = [mode |-> act.do, members |-> act.members]
                          /\ p.role = "Primary" => e.write = "Granted"
    /\ ~Configures(act) /\ act.do # "Open" => e.cfg = p.cfg
    /\ act.do \in {"Build", "Wait", "Remove"} => e.write = p.write

LEMMA EffectOf ==
    ASSUME NEW p, NEW act, NEW e, IsRecord(p, ProcessFields), e = Effect(p, act), ActInv(act)
    PROVE  EffectFacts(p, act, e)
<1>1. CASE act.do = "ChangeRole"
  <2>1. e = [p EXCEPT !.role = act.role, !.wal = act.role, !.epoch = act.epoch,
                      !.write = StatusForRole(act.role)]
    BY <1>1, Zenon DEF Effect
  <2> QED
    BY <1>1, <2>1 DEF IsRecord, ProcessFields, StatusForRole, Configures, ActInv, EffectFacts
<1>2. CASE act.do = "UpdateEpoch"
  <2>1. e = [p EXCEPT !.epoch = act.epoch]
    BY <1>2, Zenon DEF Effect
  <2> QED
    BY <1>2, <2>1 DEF IsRecord, ProcessFields, Configures, ActInv, EffectFacts
<1>3. CASE act.do \in {"CatchUp", "Current"}
  <2> DEFINE cfg == [mode |-> act.do, members |-> act.members]
  <2>1. e = [p EXCEPT !.cfg = cfg, !.write = Configured(p)]
    BY <1>3, Zenon DEF Effect
  <2> HIDE DEF cfg
  <2>2. /\ IsRecord(e, ProcessFields) /\ e.cfg = cfg /\ e.write = Configured(p)
        /\ e.inst = p.inst /\ e.gen = p.gen /\ e.ver = p.ver /\ e.done = p.done
        /\ e.data = p.data /\ e.open = p.open /\ e.role = p.role /\ e.epoch = p.epoch
    BY <2>1 DEF IsRecord, ProcessFields
  <2>3. p.role = "Primary" => e.write = "Granted"
    BY <2>2 DEF Configured
  <2> QED
    BY <1>3, <2>2, <2>3 DEF cfg, Configures, EffectFacts
<1>4. CASE act.do = "Open"
  <2>1. e = [[p EXCEPT !.role = "Unknown", !.epoch = BlankEpoch, !.cfg = NoConfig]
                EXCEPT !.open = TRUE, !.wal = "Unknown", !.write = "NotPrimary"]
    BY <1>4, Zenon DEF Effect, Reset
  <2> QED
    BY <1>4, <2>1 DEF IsRecord, ProcessFields, Configures, Opened, Stage, EffectFacts
<1>5. CASE act.do = "Close"
  <2>1. e = [p EXCEPT !.open = FALSE, !.role = "None", !.wal = "None", !.write = "NotPrimary"]
    BY <1>5, Zenon DEF Effect
  <2> QED
    BY <1>5, <2>1 DEF IsRecord, ProcessFields, Configures, EffectFacts
<1>6. CASE act.do \in {"Build", "Wait", "Remove"}
  <2>1. e = p
    BY <1>6, Zenon DEF Effect
  <2> QED
    BY <1>6, <2>1 DEF Configures, EffectFacts
<1> QED
  BY <1>1, <1>2, <1>3, <1>4, <1>5, <1>6 DEF ActInv

\* What a failed action may leave of the process p.
ResidueFacts(p, act, e) ==
    /\ IsRecord(e, ProcessFields)
    /\ e.inst = p.inst /\ e.gen = p.gen /\ e.ver = p.ver /\ e.done = p.done
    /\ e.data = p.data /\ e.open = p.open
    /\ act.do \notin {"ChangeRole", "Open"} => e = p
    /\ act.do # "Open" => e.role = p.role /\ e.epoch = p.epoch /\ e.cfg = p.cfg
    /\ act.do = "Open" =>
          e = p \/ (~p.open /\ e.role = "Unknown" /\ e.epoch = BlankEpoch /\ e.cfg = NoConfig)

LEMMA ResidueOf ==
    ASSUME NEW p, NEW act, NEW e, IsRecord(p, ProcessFields), e \in Residues(p, act)
    PROVE  ResidueFacts(p, act, e)
<1>1. \/ e = p
      \/ /\ act.do = "ChangeRole"
         /\ \/ e = [p EXCEPT !.wal = act.role]
            \/ e = [p EXCEPT !.wal = act.role, !.write = StatusForRole(act.role)]
            \/ e = [p EXCEPT !.write = StatusForRole(act.role)]
      \/ act.do = "Open" /\ ~p.open /\ e = Reset(p)
  BY DEF Residues
<1> QED
  BY <1>1 DEF IsRecord, ProcessFields, Reset, ResidueFacts

\* A process whose action has ended, with the effect or the residue e.
RecordedFacts(e, id, state, p2) ==
    /\ IsRecord(p2, ProcessFields)
    /\ p2.inst = e.inst /\ p2.gen = e.gen /\ p2.ver = e.ver /\ p2.active = NoAction
    /\ p2.open = e.open /\ p2.role = e.role /\ p2.epoch = e.epoch /\ p2.cfg = e.cfg
    /\ p2.write = e.write /\ p2.data = e.data
    /\ DOMAIN p2.done = DOMAIN e.done \cup {id} /\ p2.done[id] = state
    /\ \A x \in DOMAIN e.done : x # id => p2.done[x] = e.done[x]

LEMMA RecordedIs ==
    ASSUME NEW e, NEW id, NEW state, NEW p2, IsRecord(e, ProcessFields),
           p2 = Recorded(e, id, state)
    PROVE  RecordedFacts(e, id, state, p2)
<1>1. /\ IsRecord(p2, ProcessFields)
      /\ p2.inst = e.inst /\ p2.gen = e.gen /\ p2.ver = e.ver /\ p2.active = NoAction
      /\ p2.open = e.open /\ p2.role = e.role /\ p2.epoch = e.epoch /\ p2.cfg = e.cfg
      /\ p2.write = e.write /\ p2.data = e.data
      /\ p2.done = With(e.done, id, state)
  BY DEF Recorded, IsRecord, ProcessFields
<1> QED
  BY <1>1 DEF With, RecordedFacts

\* What ends leaves a process of the invariant that comes after the first.
LEMMA EndedIs ==
    ASSUME NEW p, NEW e, NEW p2, NEW state \in {"Completed", "Failed"},
           ProcessInv(p), p.active # NoAction,
           state = "Completed" => e = Effect(p, p.active.act),
           state = "Failed" => e \in Residues(p, p.active.act),
           p2 = Recorded(e, p.active.id, state)
    PROVE  ProcessInv(p2) /\ Later(p, p2)
<1> DEFINE act == p.active.act
           id == p.active.id
<1>1. IsRecord(p, ProcessFields) /\ ActInv(act) /\ Epoch = 1 /\ BlankEpoch = 0
  BY DEF ProcessInv, Epoch, BlankEpoch
<1>2. /\ IsRecord(e, ProcessFields)
      /\ e.inst = p.inst /\ e.gen = p.gen /\ e.ver = p.ver /\ e.done = p.done
      /\ e.role \in Roles /\ e.epoch \in 0..Epoch
  <2>1. CASE state = "Completed"
    <3> HIDE DEF act
    <3>1. e = Effect(p, act)
      BY <2>1 DEF act
    <3>5. EffectFacts(p, act, e)
      BY <1>1, <3>1, EffectOf
    <3>4. /\ IsRecord(e, ProcessFields)
          /\ e.inst = p.inst /\ e.gen = p.gen /\ e.ver = p.ver /\ e.done = p.done
          /\ act.do = "Open" => Opened(e)
          /\ act.do = "Close" => e.role = "None" /\ e.epoch = p.epoch
          /\ act.do = "ChangeRole" => e.role = act.role /\ e.epoch = Epoch
          /\ act.do = "UpdateEpoch" => e.role = p.role /\ e.epoch = Epoch
          /\ act.do \in {"CatchUp", "Current", "Build", "Wait", "Remove"} =>
                e.role = p.role /\ e.epoch = p.epoch
      BY <3>5 DEF EffectFacts
    <3>2. act.do = "Open" => e.role = "Unknown" /\ e.epoch = BlankEpoch
      BY <3>4 DEF Opened, Stage
    <3>3. p.role \in Roles /\ p.epoch \in 0..Epoch /\ "Unknown" \in Roles /\ "None" \in Roles
      BY DEF ProcessInv, Roles
    <3> QED
      BY <1>1, <3>2, <3>3, <3>4 DEF ActInv
  <2>2. CASE state = "Failed"
    BY <1>1, <2>2, ResidueOf DEF ResidueFacts, ProcessInv, Roles
  <2> QED
    BY <2>1, <2>2
<1> HIDE DEF act, id
<1>3. p2 = Recorded(e, id, state)
  BY DEF id
<1>4. /\ IsRecord(p2, ProcessFields)
      /\ p2.inst = e.inst /\ p2.gen = e.gen /\ p2.ver = e.ver /\ p2.active = NoAction
      /\ p2.role = e.role /\ p2.epoch = e.epoch
      /\ DOMAIN p2.done = DOMAIN e.done \cup {id} /\ p2.done[id] = state
      /\ \A x \in DOMAIN e.done : x # id => p2.done[x] = e.done[x]
  BY <1>2, <1>3, RecordedIs DEF RecordedFacts
<1>5. \A x \in DOMAIN p2.done : p2.done[x] \in {"Completed", "Failed"}
  BY <1>2, <1>4 DEF ProcessInv
<1>6. Later(p, p2)
  BY <1>2, <1>4 DEF Later, ProcessInv
<1> QED
  BY <1>2, <1>4, <1>5, <1>6 DEF ProcessInv

-----------------------------------------------------------------------------
(* Steps of the agents.                                                    *)

\* A step that replaces processes by later ones keeps the types.
LEMMA TypesKept ==
    ASSUME TypeInv, UNCHANGED <<op, stable>>, net' \subseteq net,
           IsRecord(pod, Replica)', \A s \in Replica : PodInv(pod'[s]),
           IsRecord(rep, Replica)', \A s \in Replica : ProcessInv(rep'[s]) /\ Later(rep[s], rep'[s])
    PROVE  TypeInv'
<1>1. OperationInv'
  BY DEF TypeInv, OperationInv, PendingInv
<1>2. \A q \in net' : RequestInv(q)'
  <2> TAKE q \in net'
  <2>1. q.to \in Replica /\ Past(rep[q.to], q) /\ ActInv(q.act)
    BY DEF TypeInv, RequestInv
  <2>2. ProcessInv(rep[q.to]) /\ ProcessInv(rep'[q.to]) /\ Later(rep[q.to], rep'[q.to])
    BY <2>1 DEF TypeInv
  <2>3. Past(rep'[q.to], q)
    BY <2>1, <2>2 DEF Past, Later, ProcessInv
  <2> QED
    BY <2>1, <2>3 DEF RequestInv
<1> QED
  BY <1>1, <1>2 DEF TypeInv

\* The same process for the invariant.
Alike(p, p2) ==
    /\ p2.inst = p.inst /\ p2.open = p.open /\ p2.role = p.role /\ p2.epoch = p.epoch
    /\ p2.cfg = p.cfg /\ p2.write = p.write /\ p2.done = p.done

LEMMA ReplicaKept ==
    ASSUME NEW r \in Replica, ReplicaInv(r), UNCHANGED op,
           pod'[r].exists = pod[r].exists, pod'[r].up = pod[r].up,
           Alike(rep[r], rep'[r]), Due(r)' \subseteq Due(r)
    PROVE  ReplicaInv(r)'
<1>1. \A a : Own(a)' <=> Own(a)
  BY DEF Own, Secondaries
<1>2. \A open, role, epoch : Stage(rep[r], open, role, epoch)' <=> Stage(rep[r], open, role, epoch)
  BY DEF Stage, Alike
<1>3. Settled(r) => Settled(r)'
  BY <1>2 DEF Settled, Leads, Serves
<1>4. Clean(r) => Clean(r)'
  BY <1>2 DEF Clean, Unopened, Alike
<1>5. RecordInv(rep[r]) => RecordInv(rep[r])'
  BY DEF RecordInv, Alike
<1>6. Founded(rep[r])' <=> Founded(rep[r])
  BY DEF Founded, ConfigOf, Secondaries, Alike
<1>7. /\ Unopened(rep[r])' <=> Unopened(rep[r])
      /\ Opened(rep[r])' <=> Opened(rep[r])
      /\ Numbered(rep[r])' <=> Numbered(rep[r])
      /\ Idle(rep[r])' <=> Idle(rep[r])
      /\ Serves(rep[r])' <=> Serves(rep[r])
      /\ Leads(rep[r])' <=> Leads(rep[r])
  BY <1>2 DEF Unopened, Opened, Numbered, Idle, Serves, Leads
<1>8. Progress(r) => Progress(r)'
  BY <1>1, <1>5, <1>6, <1>7 DEF Progress, Takes, Alike
<1>9. Waiting(r)' <=> Waiting(r)
  BY DEF Waiting
<1> QED
  BY <1>3, <1>4, <1>8, <1>9 DEF ReplicaInv, Same, Alike

\* The process p2 ends the action of p.
Ends(p, e, state, p2) ==
    /\ p.active # NoAction /\ state \in {"Completed", "Failed"}
    /\ state = "Completed" => e = Effect(p, p.active.act)
    /\ state = "Failed" => e \in Residues(p, p.active.act)
    /\ p2 = Recorded(e, p.active.id, state)

LEMMA EndFacts ==
    ASSUME NEW p, NEW e, NEW state, NEW p2, ProcessInv(p), Ends(p, e, state, p2)
    PROVE  /\ ProcessInv(p2) /\ Later(p, p2)
           /\ RecordedFacts(e, p.active.id, state, p2)
           /\ state = "Completed" => EffectFacts(p, p.active.act, e)
           /\ state = "Failed" => ResidueFacts(p, p.active.act, e)
<1>1. IsRecord(p, ProcessFields) /\ ActInv(p.active.act)
  BY DEF ProcessInv, Ends
<1>2. ProcessInv(p2) /\ Later(p, p2)
  BY EndedIs DEF Ends
<1>3. state = "Completed" => EffectFacts(p, p.active.act, e)
  BY <1>1, EffectOf DEF Ends
<1>4. state = "Failed" => ResidueFacts(p, p.active.act, e)
  BY <1>1, ResidueOf DEF Ends
<1>5. IsRecord(e, ProcessFields)
  BY <1>3, <1>4 DEF Ends, EffectFacts, ResidueFacts
<1>6. RecordedFacts(e, p.active.id, state, p2)
  BY <1>5, RecordedIs DEF Ends
<1> QED
  BY <1>2, <1>3, <1>4, <1>6

\* Nothing with the id of the action that has ended is due.
LEMMA DueEnds ==
    ASSUME TypeInv, NEW r \in Replica, NEW e, NEW state, Ends(rep[r], e, state, rep'[r]),
           net' \subseteq net
    PROVE  /\ rep[r].active \in Due(r)
           /\ \A a \in Due(r)' : a \in Due(r) /\ a.id # rep[r].active.id
<1>1. ProcessInv(rep[r])
  BY DEF TypeInv
<1>2. /\ ProcessInv(rep'[r]) /\ Later(rep[r], rep'[r])
      /\ RecordedFacts(e, rep[r].active.id, state, rep'[r])
  BY <1>1, EndFacts
<1>3. rep'[r].active = NoAction /\ rep[r].active.id \in DOMAIN rep'[r].done
  BY <1>2 DEF RecordedFacts
<1>4. rep'[r].gen \in Nat /\ rep'[r].ver \in Nat
  BY <1>2 DEF ProcessInv
<1>5. \A a \in Due(r)' : a \in Due(r) /\ a.id \notin DOMAIN rep'[r].done
  BY <1>2, <1>3, <1>4, DueAfter
<1> QED
  BY <1>3, <1>5, InDue DEF Ends

\* The records of a process that has kept what they stand for.
LEMMA RecordsKept ==
    ASSUME NEW p, NEW e, NEW id, NEW state, NEW p2, RecordedFacts(e, id, state, p2),
           e.done = p.done, RecordInv(p),
           p.open => p2.open, p.epoch = Epoch => p2.epoch = Epoch,
           p.role # "Unknown" => p2.role # "Unknown",
           p.role = "ActiveSecondary" => p2.role = "ActiveSecondary",
           p.cfg # NoConfig => p2.cfg # NoConfig,
           state = "Completed" =>
              /\ id[2] \in Opening => p2.open
              /\ id[2] \in {"CreatePromotePrimary", "CreateUpdateSecondaryEpoch"} =>
                    p2.epoch = Epoch
              /\ id[2] = "CreateAssignSecondaryIdle" => p2.role # "Unknown"
              /\ id[2] = "CreateAssignSecondaryActive" => p2.role = "ActiveSecondary"
              /\ id[2] = "CreatePrimaryCurrentConfiguration" => p2.cfg # NoConfig
    PROVE  RecordInv(p2)
<1> SUFFICES ASSUME NEW x \in DOMAIN p2.done, p2.done[x] = "Completed"
             PROVE  /\ x[2] \in Opening => p2.open
                    /\ x[2] \in {"CreatePromotePrimary", "CreateUpdateSecondaryEpoch"} =>
                          p2.epoch = Epoch
                    /\ x[2] = "CreateAssignSecondaryIdle" => p2.role # "Unknown"
                    /\ x[2] = "CreateAssignSecondaryActive" => p2.role = "ActiveSecondary"
                    /\ x[2] = "CreatePrimaryCurrentConfiguration" => p2.cfg # NoConfig
  BY DEF RecordInv
<1>1. CASE x = id
  BY <1>1 DEF RecordedFacts
<1>2. CASE x # id
  <2>1. x \in DOMAIN p.done /\ p.done[x] = "Completed"
    BY <1>2 DEF RecordedFacts
  <2> QED
    BY <2>1 DEF RecordInv
<1> QED
  BY <1>1, <1>2

\* The candidate's action ends.
LEMMA CandidateEnds ==
    ASSUME IInv, NEW r \in Replica, ReplicaInv(r), op.phase \in Forward, r = op.target,
           NEW e, NEW state, Ends(rep[r], e, state, rep'[r]),
           UNCHANGED op, net' \subseteq net, pod'[r].exists = pod[r].exists
    PROVE  Progress(r)'
<1> DEFINE p == rep[r]
           p2 == rep'[r]
           act == rep[r].active.act
           id == rep[r].active.id
<1>1. ProcessInv(p) /\ TypeInv /\ Progress(r)
  BY DEF IInv, TypeInv, ReplicaInv
<1>2. /\ RecordedFacts(e, id, state, p2) /\ state \in {"Completed", "Failed"}
      /\ state = "Completed" => EffectFacts(p, act, e)
      /\ state = "Failed" => ResidueFacts(p, act, e)
  BY <1>1, EndFacts DEF Ends
<1>3. /\ rep[r].active \in Due(r)
      /\ \A a \in Due(r)' : a \in Due(r) /\ a.id # id
  BY <1>1, DueEnds
<1>4. PendingInv
  BY <1>1 DEF TypeInv, OperationInv
<1>5. /\ op.pending # NoAction /\ id = op.pending.id /\ Own(act)
      /\ Due(r)' = {} /\ id[2] = op.phase
      /\ op.phase \in Opening => Unopened(p)
      /\ op.phase \in {"CreatePromotePrimary", "CreateUpdateSecondaryEpoch"} => Opened(p)
      /\ op.phase = "CreateAssignSecondaryIdle" => Numbered(p)
      /\ op.phase = "CreateAssignSecondaryActive" => Idle(p)
      /\ op.phase = "CreatePrimaryCurrentConfiguration" => Leads(p) /\ p.cfg = NoConfig
      /\ op.phase \in Opening \cup {"CreatePromotePrimary", "CreatePrimaryCurrentConfiguration",
            "CreateUpdateSecondaryEpoch", "CreateAssignSecondaryIdle",
            "CreateAssignSecondaryActive"}
      /\ op.phase # "CreatePrimaryCurrentConfiguration" => p.cfg = NoConfig
  BY <1>1, <1>3, <1>4 DEF Progress, Takes, PendingInv, Forward, PrimaryPhases, SecondaryPhases,
     Configuring, Opening
<1>6. pod'[r].exists /\ RecordInv(p) /\ op' = op
  BY <1>1 DEF Progress
<1> HIDE DEF p, p2, act, id
<1>7. CASE state = "Failed"
  <2>1. /\ p2.open = p.open /\ p2.role = p.role /\ p2.epoch = p.epoch /\ p2.cfg = p.cfg
        /\ e.done = p.done
    <3>1. act.do = "Open" => Unopened(p) /\ p.cfg = NoConfig
      BY <1>5 DEF Own, Opening
    <3> QED
      BY <1>2, <1>7, <3>1 DEF ResidueFacts, RecordedFacts, Unopened, Stage
  <2>2. RecordInv(p2)
    BY <1>2, <1>6, <1>7, <2>1, RecordsKept
  <2>3. \A open, role, epoch : Stage(p, open, role, epoch) => Stage(p2, open, role, epoch)
    BY <2>1 DEF Stage
  <2> QED
    BY <1>5, <1>6, <2>1, <2>2, <2>3
    DEF Progress, Takes, p2, Unopened, Opened, Numbered, Idle, Leads, Opening, Configuring
<1>8. CASE state = "Completed"
  <2>1. EffectFacts(p, act, e)
    BY <1>2, <1>8
  <2>2. /\ p2.open = e.open /\ p2.role = e.role /\ p2.epoch = e.epoch /\ p2.cfg = e.cfg
        /\ p2.write = e.write /\ e.done = p.done
    BY <1>2, <2>1 DEF RecordedFacts, EffectFacts
  <2>3. CASE op.phase \in Opening
    <3>1. Opened(p2) /\ p2.cfg = NoConfig /\ Unopened(p) /\ p.cfg = NoConfig
      BY <1>5, <2>1, <2>2, <2>3 DEF EffectFacts, Own, Opening, Opened, Stage
    <3>2. RecordInv(p2)
      BY <1>2, <1>5, <1>6, <2>2, <2>3, <3>1, RecordsKept
      DEF Opened, Unopened, Stage, Opening, Epoch, BlankEpoch
    <3> QED
      BY <1>5, <1>6, <2>3, <3>1, <3>2 DEF Progress, Takes, p2, Opening, Configuring
  <2>4. CASE op.phase = "CreatePromotePrimary"
    <3>1. Leads(p2) /\ p2.cfg = NoConfig /\ Opened(p) /\ p.cfg = NoConfig
      BY <1>5, <2>1, <2>2, <2>4 DEF EffectFacts, Own, Opening, Opened, Leads, Stage, Configures
    <3>2. RecordInv(p2)
      BY <1>2, <1>5, <1>6, <2>2, <2>4, <3>1, RecordsKept
      DEF Opened, Leads, Stage, Opening
    <3> QED
      BY <1>5, <1>6, <2>4, <3>1, <3>2 DEF Progress, Takes, p2, Opening, Configuring
  <2>5. CASE op.phase = "CreatePrimaryCurrentConfiguration"
    <3>1. act.do = "Current" /\ act.members = Secondaries(Primary) /\ Leads(p) /\ p.cfg = NoConfig
      BY <1>5, <2>5 DEF Own
    <3>2. Leads(p2) /\ p2.write = "Granted" /\ p2.cfg = ConfigOf("Current", Primary)
      BY <2>1, <2>2, <3>1 DEF EffectFacts, Leads, Stage, Configures, ConfigOf
    <3>3. p2.cfg # NoConfig
      BY <3>2 DEF ConfigOf, NoConfig
    <3>4. RecordInv(p2)
      BY <1>2, <1>5, <1>6, <2>2, <2>5, <3>1, <3>2, <3>3, RecordsKept DEF Leads, Stage, Opening
    <3>5. Founded(rep[r])'
      BY <1>6, <3>2 DEF Founded, ConfigOf, Secondaries, p2
    <3> QED
      BY <1>5, <1>6, <2>5, <3>2, <3>4, <3>5 DEF Progress, Takes, p2, Opening, Configuring
  <2>6. CASE op.phase = "CreateUpdateSecondaryEpoch"
    <3>1. Numbered(p2) /\ p2.cfg = NoConfig /\ Opened(p) /\ p.cfg = NoConfig
      BY <1>5, <2>1, <2>2, <2>6 DEF EffectFacts, Own, Opening, Opened, Numbered, Stage, Configures
    <3>2. RecordInv(p2)
      BY <1>2, <1>5, <1>6, <2>2, <2>6, <3>1, RecordsKept
      DEF Opened, Numbered, Stage, Opening
    <3> QED
      BY <1>5, <1>6, <2>6, <3>1, <3>2 DEF Progress, Takes, p2, Opening, Configuring
  <2>7. CASE op.phase = "CreateAssignSecondaryIdle"
    <3>1. Idle(p2) /\ p2.cfg = NoConfig /\ Numbered(p) /\ p.cfg = NoConfig
      BY <1>5, <2>1, <2>2, <2>7 DEF EffectFacts, Own, Opening, Idle, Numbered, Stage, Configures
    <3>2. RecordInv(p2)
      BY <1>2, <1>5, <1>6, <2>2, <2>7, <3>1, RecordsKept
      DEF Idle, Numbered, Stage, Opening
    <3> QED
      BY <1>5, <1>6, <2>7, <3>1, <3>2 DEF Progress, Takes, p2, Opening, Configuring
  <2>8. CASE op.phase = "CreateAssignSecondaryActive"
    <3>1. Serves(p2) /\ p2.cfg = NoConfig /\ Idle(p) /\ p.cfg = NoConfig
      BY <1>5, <2>1, <2>2, <2>8 DEF EffectFacts, Own, Opening, Idle, Serves, Stage, Configures
    <3>2. RecordInv(p2)
      BY <1>2, <1>5, <1>6, <2>2, <2>8, <3>1, RecordsKept
      DEF Idle, Serves, Stage, Opening
    <3> QED
      BY <1>5, <1>6, <2>8, <3>1, <3>2 DEF Progress, Takes, p2, Opening, Configuring
  <2> QED
    BY <1>5, <2>3, <2>4, <2>5, <2>6, <2>7, <2>8
<1> QED
  BY <1>2, <1>7, <1>8

\* An action that ends at a replica no fault has befallen.
LEMMA EndKeeps ==
    ASSUME IInv, NEW r \in Replica, ReplicaInv(r), pod[r].exists,
           NEW e, NEW state, Ends(rep[r], e, state, rep'[r]), UNCHANGED op,
           net' \subseteq net, pod'[r].exists = pod[r].exists, pod'[r].up = pod[r].up
    PROVE  ReplicaInv(r)'
<1> DEFINE p == rep[r]
           p2 == rep'[r]
           act == rep[r].active.act
<1>1. ProcessInv(p) /\ TypeInv
  BY DEF IInv, TypeInv
<1>2. /\ RecordedFacts(e, rep[r].active.id, state, p2) /\ state \in {"Completed", "Failed"}
      /\ state = "Completed" => EffectFacts(p, act, e)
      /\ state = "Failed" => ResidueFacts(p, act, e)
  BY <1>1, EndFacts DEF Ends
<1>3. rep[r].active \in Due(r) /\ \A a \in Due(r)' : a \in Due(r)
  BY <1>1, DueEnds
<1>4. p2.inst = p.inst
  BY <1>2 DEF RecordedFacts, EffectFacts, ResidueFacts
<1>5. Settled(r) => Settled(r)'
  <2> SUFFICES ASSUME Settled(r) PROVE Settled(r)'
    OBVIOUS
  <2>1. r = Primary /\ act.do \in {"CatchUp", "Current", "Build", "Wait", "Remove"}
    BY <1>3 DEF Settled
  <2>2. p2.open = p.open /\ p2.role = p.role /\ p2.epoch = p.epoch
    BY <1>2, <2>1 DEF RecordedFacts, EffectFacts, ResidueFacts
  <2>3. Leads(rep[r])'
    BY <2>1, <2>2 DEF Settled, Leads, Stage
  <2> QED
    BY <1>3, <2>1, <2>3 DEF Settled
<1>6. ~Waiting(r)
  BY <1>3 DEF ReplicaInv, Clean
<1>7. Waiting(r)' <=> Waiting(r)
  BY DEF Waiting
<1>8. op.phase \in Forward /\ r = op.target => Progress(r)'
  BY CandidateEnds
<1> QED
  BY <1>4, <1>5, <1>6, <1>7, <1>8 DEF ReplicaInv, Same

\* A request that is admitted leaves nothing else due.
LEMMA AdmitFacts ==
    ASSUME TypeInv, NEW r \in Replica, NEW q \in net, q.to = r, CanAdmit(rep[r], q),
           rep'[r] = Admit(rep[r], q), net' \subseteq net
    PROVE  /\ ProcessInv(rep'[r]) /\ Later(rep[r], rep'[r]) /\ Alike(rep[r], rep'[r])
           /\ rep'[r].data = rep[r].data
           /\ rep'[r].active \in Due(r) /\ Due(r)' \subseteq {rep'[r].active}
<1> DEFINE p == rep[r]
           p2 == rep'[r]
<1>1. ProcessInv(p) /\ RequestInv(q)
  BY DEF TypeInv
<1>2. q.fences.gen = p.gen /\ q.fences.ver = p.ver /\ q.id \notin DOMAIN p.done
  BY <1>1 DEF CanAdmit, Fences, Record, ProcessInv
<1>3. /\ IsRecord(p2, ProcessFields) /\ p2.gen = p.gen /\ p2.ver = p.ver + 1
      /\ Alike(p, p2) /\ p2.data = p.data
      /\ p2.active = [id |-> q.id, act |-> q.act]
  BY <1>1 DEF ProcessInv, Admit, IsRecord, ProcessFields, Alike
<1>4. p2.active \in Due(r)
  BY <1>2, <1>3, InDue DEF Fresh
<1> HIDE DEF p2
<1>5. ProcessInv(p2)
  BY <1>1, <1>2, <1>3 DEF ProcessInv, RequestInv, Alike, IsRecord, ActionFields
<1>6. Later(p, p2)
  BY <1>1, <1>3 DEF Later, ProcessInv, Alike
<1>7. p2.gen \in Nat /\ p2.ver \in Nat /\ p2.ver # p.ver
  BY <1>1, <1>3, <1>5 DEF ProcessInv
<1>8. Due(r)' \subseteq {p2.active}
  BY <1>6, <1>7, DueAfter DEF p2
<1> QED
  BY <1>3, <1>4, <1>5, <1>6, <1>8 DEF p2

\* Every replica but those of a step keeps its process.
LEMMA ProcessesKept ==
    ASSUME TypeInv
    PROVE  \A s \in Replica : Later(rep[s], rep[s]) /\ Alike(rep[s], rep[s])
  BY DEF TypeInv, ProcessInv, Later, Alike

LEMMA HandleRequestStep ==
    ASSUME IInv, NEW r \in Replica, HandleRequest(r)
    PROVE  IInv'
<1>1. PICK q \in net :
        /\ q.to = r
        /\ \/ CanAdmit(rep[r], q) /\ rep' = [rep EXCEPT ![r] = Admit(rep[r], q)]
           \/ UNCHANGED rep
        /\ net' = net \ {q}
  BY DEF HandleRequest
<1>2. UNCHANGED <<op, stable, pod, hit>> /\ net' \subseteq net /\ TypeInv
  BY <1>1 DEF HandleRequest, IInv
<1>3. /\ IsRecord(rep, Replica)'
      /\ \A s \in Replica : s # r \/ UNCHANGED rep => rep'[s] = rep[s]
      /\ CanAdmit(rep[r], q) /\ ~UNCHANGED rep => rep'[r] = Admit(rep[r], q)
  BY <1>1, <1>2 DEF TypeInv, IsRecord
<1>4. \A s \in Replica : /\ ProcessInv(rep'[s]) /\ Later(rep[s], rep'[s])
                         /\ Alike(rep[s], rep'[s]) /\ Due(s)' \subseteq Due(s)
  <2> TAKE s \in Replica
  <2>1. CASE s # r \/ UNCHANGED rep
    <3>1. rep'[s] = rep[s]
      BY <1>3, <2>1
    <3> QED
      BY <1>2, <3>1, ProcessesKept, DueSame DEF TypeInv
  <2>2. CASE s = r /\ ~UNCHANGED rep
    <3>1. CanAdmit(rep[r], q) /\ rep'[r] = Admit(rep[r], q)
      BY <1>1, <1>3, <2>2
    <3> QED
      BY <1>1, <1>2, <2>2, <3>1, AdmitFacts
  <2> QED
    BY <2>1, <2>2
<1>5. TypeInv'
  BY <1>2, <1>3, <1>4, TypesKept DEF TypeInv
<1>6. \A s \in Replica \ hit : ReplicaInv(s)'
  BY <1>2, <1>4, ReplicaKept DEF IInv
<1> QED
  BY <1>2, <1>5, <1>6 DEF IInv

\* A process that has received a copy.
LEMMA CopiedIs ==
    ASSUME NEW p, NEW p2, IsRecord(p, ProcessFields), p2 = [p EXCEPT !.data = TRUE]
    PROVE  /\ Alike(p, p2) /\ IsRecord(p2, ProcessFields)
           /\ p2.active = p.active /\ p2.gen = p.gen /\ p2.ver = p.ver
  BY DEF IsRecord, ProcessFields, Alike

\* An action ends at r; a build has given its peer a copy.
LEMMA EndStep ==
    ASSUME IInv, NEW r \in Replica, pod[r].exists, UNCHANGED <<op, stable, pod, net, hit>>,
           IsRecord(rep, Replica)', NEW e, NEW state, Ends(rep[r], e, state, rep'[r]),
           \A s \in Replica \ {r} : \/ rep'[s] = rep[s]
                                    \/ rep'[s] = [rep[s] EXCEPT !.data = TRUE]
    PROVE  IInv'
<1>1. TypeInv /\ ProcessInv(rep[r]) /\ net' \subseteq net
  BY DEF IInv, TypeInv
<1>2. ProcessInv(rep'[r]) /\ Later(rep[r], rep'[r])
  BY <1>1, EndFacts
<1>3. \A s \in Replica \ {r} : /\ ProcessInv(rep'[s]) /\ Later(rep[s], rep'[s])
                               /\ Alike(rep[s], rep'[s]) /\ Due(s)' \subseteq Due(s)
  <2> TAKE s \in Replica \ {r}
  <2>1. ProcessInv(rep[s])
    BY <1>1 DEF TypeInv
  <2>2. /\ ProcessInv(rep'[s]) /\ Alike(rep[s], rep'[s]) /\ Later(rep[s], rep'[s])
        /\ rep'[s].active = rep[s].active /\ rep'[s].gen = rep[s].gen /\ rep'[s].ver = rep[s].ver
    <3>1. CASE rep'[s] = rep[s]
      BY <1>1, <2>1, <3>1, ProcessesKept
    <3>2. CASE rep'[s] = [rep[s] EXCEPT !.data = TRUE]
      <4>1. /\ Alike(rep[s], rep'[s]) /\ IsRecord(rep'[s], ProcessFields)
            /\ rep'[s].active = rep[s].active /\ rep'[s].gen = rep[s].gen
            /\ rep'[s].ver = rep[s].ver
        BY <2>1, <3>2, CopiedIs DEF ProcessInv
      <4> QED
        BY <2>1, <4>1 DEF ProcessInv, Alike, Later
    <3> QED
      BY <3>1, <3>2
  <2>3. Due(s)' \subseteq Due(s)
    BY <2>2 DEF Due, Fresh, Alike
  <2> QED
    BY <2>2, <2>3
<1>4. TypeInv'
  BY <1>1, <1>2, <1>3, TypesKept DEF TypeInv
<1>5. \A s \in Replica \ hit : ReplicaInv(s)'
  BY <1>1, <1>3, ReplicaKept, EndKeeps DEF IInv
<1> QED
  BY <1>4, <1>5 DEF IInv

LEMMA CompleteActionStep ==
    ASSUME IInv, NEW r \in Replica, CompleteAction(r)
    PROVE  IInv'
<1> DEFINE act == rep[r].active.act
           e == Effect(rep[r], rep[r].active.act)
<1>1. /\ pod[r].exists /\ rep[r].active # NoAction /\ UNCHANGED <<op, stable, pod, net, hit>>
      /\ rep' = [s \in Replica |->
                   IF s = r THEN Completed(rep[s])
                   ELSE IF act.do = "Build" /\ s = act.peer
                   THEN [rep[s] EXCEPT !.data = TRUE] ELSE rep[s]]
  BY DEF CompleteAction, MayComplete
<1>2. rep'[r] = Recorded(e, rep[r].active.id, "Completed")
  BY <1>1 DEF Completed
<1>3. Ends(rep[r], e, "Completed", rep'[r])
  BY <1>1, <1>2 DEF Ends
<1>4. \A s \in Replica \ {r} : \/ rep'[s] = rep[s]
                               \/ rep'[s] = [rep[s] EXCEPT !.data = TRUE]
  BY <1>1
<1>5. IsRecord(rep, Replica)'
  BY <1>1 DEF IsRecord
<1> QED
  BY <1>1, <1>3, <1>4, <1>5, EndStep

LEMMA FailActionStep ==
    ASSUME IInv, NEW r \in Replica, FailAction(r)
    PROVE  IInv'
<1>1. pod[r].exists /\ rep[r].active # NoAction /\ UNCHANGED <<op, stable, pod, net, hit>>
  BY DEF FailAction
<1>2. PICK e \in Residues(rep[r], rep[r].active.act) :
        rep' = [rep EXCEPT ![r] = Recorded(e, rep[r].active.id, "Failed")]
  BY DEF FailAction, FailedOutcomes
<1>3. /\ IsRecord(rep, Replica)' /\ rep'[r] = Recorded(e, rep[r].active.id, "Failed")
      /\ \A s \in Replica \ {r} : rep'[s] = rep[s]
  BY <1>2 DEF IInv, TypeInv, IsRecord
<1>4. Ends(rep[r], e, "Failed", rep'[r])
  BY <1>1, <1>2, <1>3 DEF Ends
<1> QED
  BY <1>1, <1>3, <1>4, EndStep

-----------------------------------------------------------------------------
(* Faults and pods.                                                        *)

\* The process p2 that takes the place of p has not been opened.
BlankFacts(p, inst, p2) ==
    /\ ProcessInv(p2) /\ Later(p, p2)
    /\ p2.inst = inst /\ p2.gen = p.gen + 1 /\ p2.active = NoAction /\ DOMAIN p2.done = {}
    /\ Unopened(p2) /\ p2.cfg = NoConfig

LEMMA BlankIs ==
    ASSUME NEW p, NEW inst \in Nat, ProcessInv(p)
    PROVE  BlankFacts(p, inst, BlankProcess(inst, p.gen + 1))
<1> DEFINE p2 == BlankProcess(inst, p.gen + 1)
<1>1. /\ IsRecord(p2, ProcessFields)
      /\ p2.inst = inst /\ p2.gen = p.gen + 1 /\ p2.ver = 0 /\ p2.active = NoAction
      /\ DOMAIN p2.done = {} /\ p2.open = FALSE /\ p2.role = "Unknown" /\ p2.epoch = 0
      /\ p2.cfg = NoConfig
  BY DEF BlankProcess, BlankEpoch, IsRecord, ProcessFields
<1> HIDE DEF p2
<1>2. p.gen \in Nat
  BY DEF ProcessInv
<1>3. ProcessInv(p2)
  BY <1>1, <1>2 DEF ProcessInv, Roles, Epoch
<1>4. Later(p, p2)
  BY <1>1, <1>2 DEF Later
<1> QED
  BY <1>1, <1>3, <1>4 DEF BlankFacts, Unopened, Stage, BlankEpoch, p2

\* Nothing is due at a new process.
LEMMA NothingDue ==
    ASSUME TypeInv, NEW r \in Replica, NEW inst \in Nat,
           rep'[r] = BlankProcess(inst, rep[r].gen + 1), net' \subseteq net
    PROVE  Due(r)' = {}
<1>1. ProcessInv(rep[r])
  BY DEF TypeInv
<1>2. /\ ProcessInv(rep'[r]) /\ Later(rep[r], rep'[r])
      /\ rep'[r].gen = rep[r].gen + 1 /\ rep'[r].active = NoAction
  <2>1. BlankFacts(rep[r], inst, rep'[r])
    BY <1>1, BlankIs, Zenon
  <2> QED
    BY <2>1 DEF BlankFacts
<1>3. rep'[r].gen \in Nat /\ rep'[r].ver \in Nat /\ rep'[r].gen # rep[r].gen
  BY <1>1, <1>2 DEF ProcessInv
<1> QED
  BY <1>2, <1>3, DueAfter

\* A pod with another flag or label.
LEMMA PodChanged ==
    ASSUME NEW d, NEW d2, PodInv(d), NEW b \in BOOLEAN, NEW l \in {"bootstrap", "primary", "secondary"},
           \/ d2 = d \/ d2 = [d EXCEPT !.up = b] \/ d2 = [d EXCEPT !.exists = b]
           \/ d2 = [d EXCEPT !.label = l]
    PROVE  PodInv(d2)
  BY DEF PodInv, PodFields, IsRecord

\* What befalls replicas leaves the others as they are.
LEMMA OthersKept ==
    ASSUME IInv, UNCHANGED <<op, stable, net>>, hit \subseteq hit',
           IsRecord(pod, Replica)', \A s \in Replica : PodInv(pod'[s]),
           IsRecord(rep, Replica)',
           \A s \in Replica : ProcessInv(rep'[s]) /\ Later(rep[s], rep'[s]),
           \A s \in Replica \ hit' :
              rep'[s] = rep[s] /\ pod'[s].exists = pod[s].exists /\ pod'[s].up = pod[s].up
    PROVE  IInv'
<1>1. TypeInv'
  BY TypesKept DEF IInv
<1>2. \A s \in Replica \ hit' : ReplicaInv(s)'
  BY ReplicaKept, DueSame, ProcessesKept DEF IInv
<1> QED
  BY <1>1, <1>2 DEF IInv

LEMMA FaultStep ==
    ASSUME IInv, NEW r \in Replica, Faults(r)
    PROVE  IInv'
<1> DEFINE p == rep[r]
<1>1. /\ UNCHANGED <<op, stable, net>> /\ hit' = hit \cup {r}
      /\ \/ rep' = rep
         \/ rep' = [rep EXCEPT ![r] = BlankProcess(p.inst, p.gen + 1)]
         \/ rep' = [rep EXCEPT ![r] = BlankProcess(p.inst + 1, p.gen + 1)]
      /\ \/ pod' = pod \/ pod' = [pod EXCEPT ![r].up = FALSE]
         \/ pod' = [pod EXCEPT ![r].exists = FALSE]
         \/ pod' = [pod EXCEPT ![r].label = "bootstrap"]
  BY DEF Faults, Disconnect, RestartContainer, LosePod, ReplacePod, Fault, Restarted
<1>2. TypeInv /\ ProcessInv(p) /\ PodInv(pod[r]) /\ p.inst \in Nat /\ p.inst + 1 \in Nat
  BY DEF IInv, TypeInv, ProcessInv
<1>3. /\ IsRecord(pod, Replica)' /\ \A s \in Replica : s # r => pod'[s] = pod[s]
      /\ PodInv(pod'[r])
  <2>1. IsRecord(pod, Replica)
    BY <1>2 DEF TypeInv
  <2>2. /\ IsRecord(pod, Replica)' /\ \A s \in Replica : s # r => pod'[s] = pod[s]
        /\ \/ pod'[r] = pod[r] \/ pod'[r] = [pod[r] EXCEPT !.up = FALSE]
           \/ pod'[r] = [pod[r] EXCEPT !.exists = FALSE]
           \/ pod'[r] = [pod[r] EXCEPT !.label = "bootstrap"]
    BY <1>1, <2>1 DEF IsRecord
  <2>3. PodInv(pod'[r])
    BY <1>2, <2>2, PodChanged
  <2> QED
    BY <2>2, <2>3
<1>4. /\ IsRecord(rep, Replica)' /\ \A s \in Replica : s # r => rep'[s] = rep[s]
      /\ \/ rep'[r] = p
         \/ rep'[r] = BlankProcess(p.inst, p.gen + 1)
         \/ rep'[r] = BlankProcess(p.inst + 1, p.gen + 1)
  BY <1>1, <1>2 DEF TypeInv, IsRecord
<1>5. ProcessInv(rep'[r]) /\ Later(rep[r], rep'[r])
  <2>1. rep'[r] = p \/ BlankFacts(p, p.inst, rep'[r]) \/ BlankFacts(p, p.inst + 1, rep'[r])
    BY <1>2, <1>4, BlankIs, Zenon
  <2> QED
    BY <1>2, <2>1, ProcessesKept DEF BlankFacts
<1>6. \A s \in Replica : ProcessInv(rep'[s]) /\ Later(rep[s], rep'[s])
  BY <1>2, <1>4, <1>5, ProcessesKept DEF TypeInv
<1>7. \A s \in Replica : PodInv(pod'[s])
  BY <1>2, <1>3 DEF TypeInv
<1> QED
  BY <1>1, <1>3, <1>4, <1>6, <1>7, OthersKept

LEMMA ReconnectStep ==
    ASSUME IInv, NEW r \in Replica, Reconnect(r)
    PROVE  IInv'
<1>1. /\ ~pod[r].up /\ pod' = [pod EXCEPT ![r].up = TRUE]
      /\ UNCHANGED <<op, stable, rep, net, hit>> /\ TypeInv
  BY DEF Reconnect, IInv
<1>2. /\ IsRecord(pod, Replica)' /\ \A s \in Replica : s # r => pod'[s] = pod[s]
      /\ pod'[r] = [pod[r] EXCEPT !.up = TRUE]
  BY <1>1 DEF TypeInv, IsRecord
<1>3. \A s \in Replica : PodInv(pod'[s])
  BY <1>1, <1>2, PodChanged DEF TypeInv
<1>4. r \in hit
  BY <1>1 DEF IInv, ReplicaInv
<1>5. \A s \in Replica : ProcessInv(rep'[s]) /\ Later(rep[s], rep'[s])
  BY <1>1, ProcessesKept DEF TypeInv
<1>6. IsRecord(rep, Replica)'
  BY <1>1 DEF TypeInv
<1>7. \A s \in Replica \ hit' :
         rep'[s] = rep[s] /\ pod'[s].exists = pod[s].exists /\ pod'[s].up = pod[s].up
  BY <1>1, <1>2, <1>4
<1> QED
  BY <1>1, <1>2, <1>3, <1>5, <1>6, <1>7, OthersKept

LEMMA EnsurePodsStep ==
    ASSUME IInv, EnsurePods
    PROVE  IInv'
<1>1. /\ op.phase \in {"None", "Failed"} /\ UNCHANGED <<op, stable, net, hit>>
      /\ rep' = [r \in Replica |->
                   IF pod[r].exists THEN rep[r] ELSE BlankProcess(rep[r].inst + 1, rep[r].gen + 1)]
      /\ pod' = [r \in Replica |->
                   IF pod[r].exists THEN pod[r]
                   ELSE [exists |-> TRUE, up |-> TRUE, label |-> "bootstrap"]]
  BY DEF EnsurePods
<1>2. TypeInv /\ net' \subseteq net
  BY <1>1 DEF IInv
<1>3. IsRecord(rep, Replica)' /\ IsRecord(pod, Replica)'
  BY <1>1 DEF IsRecord
<1>4. \A s \in Replica : ProcessInv(rep[s]) /\ rep[s].inst + 1 \in Nat
  BY <1>2 DEF TypeInv, ProcessInv
<1>5. \A s \in Replica : ProcessInv(rep'[s]) /\ Later(rep[s], rep'[s])
  <2> TAKE s \in Replica
  <2>1. CASE pod[s].exists
    BY <1>1, <1>2, <1>4, <2>1, ProcessesKept
  <2>2. CASE ~pod[s].exists
    <3>1. rep'[s] = BlankProcess(rep[s].inst + 1, rep[s].gen + 1)
      BY <1>1, <2>2
    <3>2. BlankFacts(rep[s], rep[s].inst + 1, rep'[s])
      BY <1>4, <3>1, BlankIs, Zenon
    <3> QED
      BY <3>2 DEF BlankFacts
  <2> QED
    BY <2>1, <2>2
<1>6. \A s \in Replica : PodInv(pod'[s])
  <2> TAKE s \in Replica
  <2>1. CASE pod[s].exists
    BY <1>1, <1>2, <2>1 DEF TypeInv
  <2>2. CASE ~pod[s].exists
    <3>1. pod'[s] = [exists |-> TRUE, up |-> TRUE, label |-> "bootstrap"]
      BY <1>1, <2>2
    <3> QED
      BY <3>1 DEF PodInv, PodFields, IsRecord
  <2> QED
    BY <2>1, <2>2
<1>7. TypeInv'
  BY <1>1, <1>2, <1>3, <1>5, <1>6, TypesKept
<1>8. \A s \in Replica \ hit : ReplicaInv(s)'
  <2> TAKE s \in Replica \ hit
  <2>0. ReplicaInv(s)
    BY DEF IInv
  <2>1. CASE pod[s].exists
    <3>1. rep'[s] = rep[s] /\ pod'[s] = pod[s]
      BY <1>1, <2>1
    <3> QED
      BY <1>1, <1>2, <2>0, <3>1, ReplicaKept, DueSame, ProcessesKept
  <2>2. CASE ~pod[s].exists
    <3>1. /\ rep'[s] = BlankProcess(rep[s].inst + 1, rep[s].gen + 1) /\ pod'[s].up
          /\ ~(s <= op.committed)
      BY <1>1, <2>0, <2>2 DEF ReplicaInv, Settled
    <3>2. /\ Unopened(rep'[s]) /\ rep'[s].cfg = NoConfig /\ DOMAIN rep'[s].done = {}
      <4>1. BlankFacts(rep[s], rep[s].inst + 1, rep'[s])
        BY <1>4, <3>1, BlankIs, Zenon
      <4> QED
        BY <4>1 DEF BlankFacts
    <3>3. Due(s)' = {}
      BY <1>2, <1>4, <3>1, NothingDue
    <3>4. Clean(s)'
      BY <3>2, <3>3 DEF Clean
    <3> QED
      BY <1>1, <3>1, <3>4 DEF ReplicaInv, Forward, PrimaryPhases, SecondaryPhases, Configuring
  <2> QED
    BY <2>1, <2>2
<1> QED
  BY <1>1, <1>7, <1>8 DEF IInv

\* A candidate's pod is deleted.
LEMMA DeletePodStep ==
    ASSUME IInv, NEW o, op.pending # NoAction, DeletePod(o)
    PROVE  IInv'
<1>1. /\ op.phase = "CreateCompensateDeleteCandidate" /\ UNCHANGED <<op, stable, net, hit>>
      /\ pod' = [pod EXCEPT ![T].exists = FALSE]
      /\ rep' = [rep EXCEPT ![T] = BlankProcess(rep[T].inst, rep[T].gen + 1)]
      /\ TypeInv /\ PendingInv
  BY DEF DeletePod, Restarted, IInv, TypeInv, OperationInv
<1>2. T \in Replica /\ T = op.target /\ T = op.committed + 1
  BY <1>1 DEF PendingInv, T, Labelling, AtPrimary, Configuring, TypeInv, OperationInv, Compensating
<1>3. /\ IsRecord(rep, Replica)' /\ IsRecord(pod, Replica)'
      /\ \A s \in Replica : s # T => rep'[s] = rep[s] /\ pod'[s] = pod[s]
      /\ rep'[T] = BlankProcess(rep[T].inst, rep[T].gen + 1)
      /\ pod'[T] = [pod[T] EXCEPT !.exists = FALSE]
  BY <1>1, <1>2 DEF TypeInv, IsRecord
<1>4. /\ ProcessInv(rep[T]) /\ rep[T].inst \in Nat /\ PodInv(pod[T])
  BY <1>1, <1>2 DEF TypeInv, ProcessInv
<1>5. /\ ProcessInv(rep'[T]) /\ Later(rep[T], rep'[T]) /\ rep'[T].inst = rep[T].inst
  <2>1. BlankFacts(rep[T], rep[T].inst, rep'[T])
    BY <1>3, <1>4, BlankIs, Zenon
  <2> QED
    BY <2>1 DEF BlankFacts
<1>6. PodInv(pod'[T]) /\ pod'[T].up = pod[T].up
  BY <1>3, <1>4 DEF PodInv, PodFields, IsRecord
<1>7. TypeInv'
  BY <1>1, <1>3, <1>5, <1>6, TypesKept, ProcessesKept DEF TypeInv
<1>8. \A s \in Replica \ hit : ReplicaInv(s)'
  <2> TAKE s \in Replica \ hit
  <2>0. ReplicaInv(s)
    BY DEF IInv
  <2>1. CASE s # T
    BY <1>1, <1>3, <2>0, <2>1, ReplicaKept, DueSame, ProcessesKept
  <2>2. CASE s = T
    <3>1. op.committed \in Nat /\ ~(s <= op.committed)
      BY <1>1, <1>2, <2>2 DEF TypeInv, OperationInv
    <3>2. op.phase \notin Forward /\ ~Waiting(s)
      BY <1>1, <1>2, <2>2 DEF Waiting, Compensating, Forward, PrimaryPhases, SecondaryPhases,
         Configuring
    <3> QED
      BY <1>1, <1>2, <1>5, <1>6, <2>0, <2>2, <3>1, <3>2 DEF ReplicaInv, Same, Waiting
  <2> QED
    BY <2>1, <2>2
<1> QED
  BY <1>1, <1>7, <1>8 DEF IInv

-----------------------------------------------------------------------------
(* Steps of the operation.                                                 *)

\* The operation q in another phase.
Moved(q, q2, phase) ==
    /\ IsRecord(q2, OperationFields) /\ q2.phase = phase /\ q2.pending = NoAction
    /\ q2.insts = q.insts /\ q2.committed = q.committed /\ q2.target = q.target
    /\ q2.index = q.index

LEMMA WithPhaseIs ==
    ASSUME IsRecord(op, OperationFields), NEW phase
    PROVE  Moved(op, WithPhase(phase), phase)
<1> DEFINE q2 == [op EXCEPT !.phase = phase, !.pending = NoAction, !.late = FALSE]
<1>1. Moved(op, q2, phase)
  BY DEF Moved, IsRecord, OperationFields
<1> QED
  BY <1>1 DEF WithPhase

\* A step that changes the operation only.
LEMMA OperationStep ==
    ASSUME IInv, UNCHANGED <<rep, pod, net, hit>>, OperationInv',
           \A r \in Replica \ hit : ReplicaInv(r)'
    PROVE  IInv'
<1>1. TypeInv'
  BY DEF IInv, TypeInv, RequestInv
<1> QED
  BY <1>1 DEF IInv

\* What a replica keeps while the operation changes.
LEMMA OperationKeeps ==
    ASSUME NEW r \in Replica, ReplicaInv(r), UNCHANGED <<rep, pod, net>>,
           op'.insts = op.insts, op'.committed = op.committed,
           op'.phase \in {"None", "Failed"} \/ op.phase \notin {"None", "Failed"},
           Waiting(r)' => Waiting(r) \/ Clean(r),
           op'.phase \in Forward /\ r = op'.target => Progress(r)'
    PROVE  ReplicaInv(r)'
<1>1. Due(r)' = Due(r)
  BY DEF Due, Fresh
<1>2. Settled(r)' <=> Settled(r)
  BY <1>1 DEF Settled
<1>3. Clean(r)' <=> Clean(r)
  BY <1>1 DEF Clean
<1> QED
  BY <1>2, <1>3 DEF ReplicaInv, Same

\* The operation leaves its phase for one in which it does not go forward.
LEMMA MoveStep ==
    ASSUME IInv, UNCHANGED <<stable, rep, pod, net, hit>>, ~stable, NEW phase \in Phases \ Forward,
           op' = WithPhase(phase),
           phase \in Compensating => op.phase \in Forward \cup Compensating,
           phase = "CreateCompensateRestoreConfiguration" => op.committed >= 1,
           phase \in Routing => op.phase \in Routing, phase \in Unstarted => op.committed < N,
           op.phase \notin {"None", "Failed"},
           phase \in Unstarted => op.phase \in {"CreateFenceRouting", "CreateCompensateFinalize"},
           phase = "CreateCompensateFinalize" =>
              op.target \in hit \/ Clean(op.target)
    PROVE  IInv'
<1>1. TypeInv /\ OperationInv /\ Moved(op, op', phase)
  BY WithPhaseIs DEF IInv, TypeInv, OperationInv
<1>2. OperationInv'
  <2>1. PendingInv'
    BY <1>1 DEF Moved, PendingInv
  <2>2. phase \notin PrimaryPhases /\ phase \notin SecondaryPhases
    BY DEF Forward
  <2> QED
    BY <1>1, <2>1, <2>2 DEF OperationInv, Moved
<1>3. \A r \in Replica \ hit : ReplicaInv(r)'
  <2> TAKE r \in Replica \ hit
  <2>1. ReplicaInv(r)
    BY DEF IInv
  <2>2. Waiting(r)' => Waiting(r) \/ Clean(r)
    <3> SUFFICES ASSUME Waiting(r)' PROVE Waiting(r) \/ Clean(r)
      OBVIOUS
    <3>1. r > op.committed /\ phase # "Poisoned"
      BY <1>1 DEF Waiting, Moved
    <3>2. CASE r # op.target
      <4>1. op.phase # "Poisoned"
        BY <1>1, <3>1 DEF Phases, Compensating, Routing, Unstarted, Forward, PrimaryPhases,
           SecondaryPhases, Configuring
      <4> QED
        BY <3>1, <3>2, <4>1 DEF Waiting
    <3>3. CASE r = op.target
      <4>1. phase \notin Compensating \ {"CreateCompensateFinalize"}
        BY <1>1, <3>3 DEF Waiting, Moved
      <4>2. CASE phase = "CreateCompensateFinalize"
        BY <3>3, <4>2
      <4>3. CASE phase \in Routing
        BY <1>1, <3>1, <4>3 DEF OperationInv, Replica
      <4>4. CASE phase \in Unstarted
        BY <3>1, <3>3, <4>4 DEF Waiting, Compensating, Forward, PrimaryPhases, SecondaryPhases,
           Configuring
      <4> QED
        BY <3>1, <4>1, <4>2, <4>3, <4>4 DEF Phases
    <3> QED
      BY <3>2, <3>3
  <2> QED
    BY <1>1, <2>1, <2>2, OperationKeeps DEF Moved
<1> QED
  BY <1>2, <1>3, OperationStep

\* The pending action or its lateness changes, the phase does not.
LEMMA PendingStep ==
    ASSUME IInv, UNCHANGED <<stable, rep, pod, net, hit>>,
           IsRecord(op', OperationFields), op'.phase = op.phase, op'.insts = op.insts,
           op'.committed = op.committed, op'.target = op.target, op'.index = op.index,
           PendingInv', op.pending = NoAction \/ (op'.pending # NoAction /\ op'.pending.id = op.pending.id)
    PROVE  IInv'
<1>1. TypeInv /\ OperationInv
  BY DEF IInv, TypeInv
<1>2. OperationInv'
  BY <1>1 DEF OperationInv
<1>3. \A r \in Replica \ hit : ReplicaInv(r)'
  <2> TAKE r \in Replica \ hit
  <2>1. ReplicaInv(r)
    BY DEF IInv
  <2>2. Due(r)' = Due(r)
    BY DEF Due, Fresh
  <2>3. \A a : Own(a)' <=> Own(a)
    BY DEF Own, Secondaries
  <2>5. Founded(rep[r])' <=> Founded(rep[r])
    BY DEF Founded, ConfigOf, Secondaries
  <2>6. Progress(r) => Progress(r)'
    BY <2>2, <2>3, <2>5 DEF Progress, Takes, Unopened, Opened, Numbered, Idle, Serves, Leads
  <2>7. Waiting(r)' => Waiting(r)
    BY DEF Waiting
  <2>8. op'.phase \in Forward /\ r = op'.target => Progress(r)'
    BY <2>1, <2>6 DEF ReplicaInv
  <2>9. op'.phase \in {"None", "Failed"} \/ op.phase \notin {"None", "Failed"}
    OBVIOUS
  <2> QED
    BY <2>1, <2>7, <2>8, <2>9, OperationKeeps
<1> QED
  BY <1>2, <1>3, OperationStep

-----------------------------------------------------------------------------
(* What an observation means.                                              *)

LEMMA EitherIs ==
    ASSUME NEW post, NEW pre
    PROVE  /\ Either(post, pre) = "Postcondition" <=> post
           /\ Either(post, pre) = "Precondition" <=> ~post /\ pre
  BY DEF Either

LEMMA RecordIs ==
    ASSUME NEW p, NEW id, ProcessInv(p)
    PROVE  /\ Record(p, id) \in {"InProgress", "Completed", "Failed", "none"}
           /\ Record(p, id) = "none" =>
                 id \notin DOMAIN p.done /\ (p.active # NoAction => p.active.id # id)
           /\ Record(p, id) = "Completed" => id \in DOMAIN p.done /\ p.done[id] = "Completed"
  BY DEF Record, ProcessInv

\* The target itself is observed, except in the phases that give it up.
LEMMA ObservationIs ==
    ASSUME TypeInv, op.pending # NoAction, op.phase # "CreateCompensateDeleteCandidate"
    PROVE  /\ Observation \in {"Postcondition", "Precondition"} =>
                 /\ Observed(T)
                 /\ ~Same(T) => op.phase \in {"CreateCompensateDemoteCandidate",
                                              "CreateCompensateCloseCandidate"}
           /\ Same(T) /\ Observation = "Postcondition" =>
                 \/ DirectObservation = "Postcondition"
                 \/ Record(P, op.pending.id) = "Completed"
           /\ Observation = "Precondition" => Same(T) /\ DirectObservation = "Precondition"
           /\ Observation = "Precondition" /\ Constructible => Record(P, op.pending.id) = "none"
<1> DEFINE d == DirectObservation
           rec == Record(P, op.pending.id)
           lost == Either(op.phase \in {"CreateCompensateDemoteCandidate",
                                        "CreateCompensateCloseCandidate"}, FALSE)
<1>1. rec \in {"InProgress", "Completed", "Failed", "none"}
  <2>1. T \in Replica
    BY DEF TypeInv, OperationInv, PendingInv, T
  <2>2. ProcessInv(P)
    BY <2>1 DEF TypeInv, P
  <2> QED
    BY <2>2, RecordIs
<1>2. Observation =
         IF ~Observed(T) THEN "Unavailable"
         ELSE IF ~Same(T) THEN lost
         ELSE IF d = "Postcondition" \/ ~Constructible THEN d
         ELSE IF Conflict(P, op.pending.id) THEN "Impossible"
         ELSE CASE rec = "Completed" -> "Postcondition"
                [] rec = "none"      -> d
                [] OTHER             -> rec
  BY Zenon DEF Observation
<1>3. \/ ~Observed(T) /\ Observation = "Unavailable"
      \/ Observed(T) /\ ~Same(T) /\ Observation = lost
      \/ /\ Observed(T) /\ Same(T) /\ (d = "Postcondition" \/ ~Constructible) /\ Observation = d
      \/ /\ Observed(T) /\ Same(T) /\ d # "Postcondition" /\ Constructible
         /\ Observation = "Impossible"
      \/ /\ Observed(T) /\ Same(T) /\ d # "Postcondition" /\ Constructible
         /\ \/ rec = "Completed" /\ Observation = "Postcondition"
            \/ rec = "none" /\ Observation = d
            \/ rec # "none" /\ rec # "Completed" /\ Observation = rec
  BY <1>2, Zenon
<1>4. /\ lost \in {"Postcondition", "Impossible"}
      /\ lost = "Postcondition" => op.phase \in {"CreateCompensateDemoteCandidate",
                                                 "CreateCompensateCloseCandidate"}
  BY DEF Either
<1> HIDE DEF d, rec, lost
<1> QED
  BY <1>1, <1>3, <1>4 DEF d, rec

\* What the state of the target says, phase by phase.
DirectFacts ==
    /\ op.phase \in Opening =>
          DirectObservation = Either(P.open /\ P.role = "Unknown", ~P.open /\ P.role = "Unknown")
    /\ op.phase = "CreatePromotePrimary" =>
          DirectObservation = Either(P.open /\ Is(T, "Primary"), P.open /\ P.role = "Unknown" /\ P.epoch = BlankEpoch)
    /\ op.phase = "CreateUpdateSecondaryEpoch" =>
          DirectObservation = Either(P.open /\ Is(T, "Unknown"), P.open /\ P.role = "Unknown" /\ P.epoch = BlankEpoch)
    /\ op.phase = "CreateAssignSecondaryIdle" =>
          DirectObservation = Either(Is(T, "IdleSecondary"), Is(T, "Unknown"))
    /\ op.phase = "CreateAssignSecondaryActive" =>
          DirectObservation = Either(Is(T, "ActiveSecondary"), Is(T, "IdleSecondary"))
    /\ op.phase \in {"CreateBuildSecondary", "CreateWaitForCatchUpQuorum",
                      "CreateCompensateRemoveCandidate"} =>
          DirectObservation = "Precondition"
    /\ op.phase = "CreatePrimaryCurrentConfiguration" =>
          DirectObservation = Configuration(ConfigOf("Current", Primary), NoConfig)
    /\ op.phase = "CreateCatchUpConfiguration" =>
          DirectObservation = Configuration(ConfigOf("CatchUp", op.target), ConfigOf("Current", op.committed))
    /\ op.phase = "CreateCurrentConfiguration" =>
          DirectObservation = Configuration(ConfigOf("Current", op.target), ConfigOf("CatchUp", op.target))
    /\ op.phase = "CreateCompensateRestoreConfiguration" =>
          DirectObservation = Configuration(ConfigOf("Current", op.committed), ConfigOf("CatchUp", op.target))

LEMMA DirectIs == DirectFacts
<1>1. op.phase \in Opening =>
         DirectObservation = Either(P.open /\ P.role = "Unknown", ~P.open /\ P.role = "Unknown")
  BY Zenon DEF DirectObservation, Opening
<1>2. op.phase = "CreatePromotePrimary" =>
         DirectObservation = Either(P.open /\ Is(T, "Primary"), P.open /\ P.role = "Unknown" /\ P.epoch = BlankEpoch)
  BY Zenon DEF DirectObservation, Opening
<1>3. op.phase = "CreateUpdateSecondaryEpoch" =>
         DirectObservation = Either(P.open /\ Is(T, "Unknown"), P.open /\ P.role = "Unknown" /\ P.epoch = BlankEpoch)
  BY Zenon DEF DirectObservation, Opening
<1>4. op.phase = "CreateAssignSecondaryIdle" =>
         DirectObservation = Either(Is(T, "IdleSecondary"), Is(T, "Unknown"))
  BY Zenon DEF DirectObservation, Opening
<1>5. op.phase = "CreateAssignSecondaryActive" =>
         DirectObservation = Either(Is(T, "ActiveSecondary"), Is(T, "IdleSecondary"))
  BY Zenon DEF DirectObservation, Opening
<1>6. op.phase \in {"CreateBuildSecondary", "CreateWaitForCatchUpQuorum",
                     "CreateCompensateRemoveCandidate"} =>
         DirectObservation = "Precondition"
  BY Zenon DEF DirectObservation, Opening
<1>7. op.phase = "CreatePrimaryCurrentConfiguration" =>
         DirectObservation = Configuration(ConfigOf("Current", Primary), NoConfig)
  BY Zenon DEF DirectObservation, Opening
<1>8. op.phase = "CreateCatchUpConfiguration" =>
         DirectObservation = Configuration(ConfigOf("CatchUp", op.target), ConfigOf("Current", op.committed))
  BY Zenon DEF DirectObservation, Opening
<1>9. op.phase = "CreateCurrentConfiguration" =>
         DirectObservation = Configuration(ConfigOf("Current", op.target), ConfigOf("CatchUp", op.target))
  BY Zenon DEF DirectObservation, Opening
<1>10. op.phase = "CreateCompensateRestoreConfiguration" =>
         DirectObservation = Configuration(ConfigOf("Current", op.committed), ConfigOf("CatchUp", op.target))
  BY Zenon DEF DirectObservation, Opening
<1> QED
  BY <1>1, <1>2, <1>3, <1>4, <1>5, <1>6, <1>7, <1>8, <1>9, <1>10, Zenon DEF DirectFacts

\* The action of a phase.
ActionFacts ==
    /\ op.phase \in Opening =>
          ActionFor = [do |-> "Open"]
    /\ op.phase = "CreatePromotePrimary" =>
          ActionFor = [do |-> "ChangeRole", role |-> "Primary", epoch |-> Epoch]
    /\ op.phase = "CreateUpdateSecondaryEpoch" =>
          ActionFor = [do |-> "UpdateEpoch", epoch |-> Epoch]
    /\ op.phase = "CreateAssignSecondaryIdle" =>
          ActionFor = [do |-> "ChangeRole", role |-> "IdleSecondary", epoch |-> Epoch]
    /\ op.phase = "CreateAssignSecondaryActive" =>
          ActionFor = [do |-> "ChangeRole", role |-> "ActiveSecondary", epoch |-> Epoch]
    /\ op.phase = "CreateCompensateDemoteCandidate" =>
          ActionFor = [do |-> "ChangeRole", role |-> "None", epoch |-> Epoch]
    /\ op.phase = "CreateBuildSecondary" =>
          ActionFor = [do |-> "Build", peer |-> op.target]
    /\ op.phase = "CreateWaitForCatchUpQuorum" =>
          ActionFor = [do |-> "Wait", peer |-> op.target]
    /\ op.phase = "CreateCatchUpConfiguration" =>
          ActionFor = [do |-> "CatchUp", members |-> Secondaries(op.target)]
    /\ op.phase \in {"CreatePrimaryCurrentConfiguration", "CreateCurrentConfiguration"} =>
          ActionFor = [do |-> "Current", members |-> Secondaries(op.target)]
    /\ op.phase = "CreateCompensateRestoreConfiguration" =>
          ActionFor = [do |-> "Current", members |-> Secondaries(op.committed)]
    /\ op.phase = "CreateCompensateRemoveCandidate" =>
          ActionFor = [do |-> "Remove", peer |-> op.target]
    /\ op.phase = "CreateCompensateCloseCandidate" =>
          ActionFor = [do |-> "Close"]

LEMMA ActionIs == ActionFacts
<1>1. op.phase \in Opening =>
         ActionFor = [do |-> "Open"]
  BY Zenon DEF ActionFor, Opening, Restored
<1>2. op.phase = "CreatePromotePrimary" =>
         ActionFor = [do |-> "ChangeRole", role |-> "Primary", epoch |-> Epoch]
  BY Zenon DEF ActionFor, Opening, Restored
<1>3. op.phase = "CreateUpdateSecondaryEpoch" =>
         ActionFor = [do |-> "UpdateEpoch", epoch |-> Epoch]
  BY Zenon DEF ActionFor, Opening, Restored
<1>4. op.phase = "CreateAssignSecondaryIdle" =>
         ActionFor = [do |-> "ChangeRole", role |-> "IdleSecondary", epoch |-> Epoch]
  BY Zenon DEF ActionFor, Opening, Restored
<1>5. op.phase = "CreateAssignSecondaryActive" =>
         ActionFor = [do |-> "ChangeRole", role |-> "ActiveSecondary", epoch |-> Epoch]
  BY Zenon DEF ActionFor, Opening, Restored
<1>6. op.phase = "CreateCompensateDemoteCandidate" =>
         ActionFor = [do |-> "ChangeRole", role |-> "None", epoch |-> Epoch]
  BY Zenon DEF ActionFor, Opening, Restored
<1>7. op.phase = "CreateBuildSecondary" =>
         ActionFor = [do |-> "Build", peer |-> op.target]
  BY Zenon DEF ActionFor, Opening, Restored
<1>8. op.phase = "CreateWaitForCatchUpQuorum" =>
         ActionFor = [do |-> "Wait", peer |-> op.target]
  BY Zenon DEF ActionFor, Opening, Restored
<1>9. op.phase = "CreateCatchUpConfiguration" =>
         ActionFor = [do |-> "CatchUp", members |-> Secondaries(op.target)]
  BY Zenon DEF ActionFor, Opening, Restored
<1>10. op.phase \in {"CreatePrimaryCurrentConfiguration", "CreateCurrentConfiguration"} =>
         ActionFor = [do |-> "Current", members |-> Secondaries(op.target)]
  BY Zenon DEF ActionFor, Opening, Restored
<1>11. op.phase = "CreateCompensateRestoreConfiguration" =>
         ActionFor = [do |-> "Current", members |-> Secondaries(op.committed)]
  BY Zenon DEF ActionFor, Opening, Restored
<1>12. op.phase = "CreateCompensateRemoveCandidate" =>
         ActionFor = [do |-> "Remove", peer |-> op.target]
  BY Zenon DEF ActionFor, Opening, Restored
<1>13. op.phase = "CreateCompensateCloseCandidate" =>
         ActionFor = [do |-> "Close"]
  BY Zenon DEF ActionFor, Opening, Restored
<1> QED
  BY <1>1, <1>2, <1>3, <1>4, <1>5, <1>6, <1>7, <1>8, <1>9, <1>10, <1>11, <1>12, <1>13, Zenon DEF ActionFacts

\* next_phase, phase by phase.
AfterFacts ==
    /\ After["CreateOpenPrimary"] = "CreatePromotePrimary"
    /\ After["CreatePromotePrimary"] = "CreatePrimaryCurrentConfiguration"
    /\ After["CreatePrimaryCurrentConfiguration"] = "CreateCommitPrimary"
    /\ After["CreateOpenSecondary"] = "CreateUpdateSecondaryEpoch"
    /\ After["CreateUpdateSecondaryEpoch"] = "CreateAssignSecondaryIdle"
    /\ After["CreateAssignSecondaryIdle"] = "CreateBuildSecondary"
    /\ After["CreateBuildSecondary"] = "CreateAssignSecondaryActive"
    /\ After["CreateAssignSecondaryActive"] = "CreateCatchUpConfiguration"
    /\ After["CreateCatchUpConfiguration"] = "CreateWaitForCatchUpQuorum"
    /\ After["CreateWaitForCatchUpQuorum"] = "CreateCurrentConfiguration"
    /\ After["CreateCurrentConfiguration"] = "CreateCommitSecondary"
    /\ After["CreateCompensateRestoreConfiguration"] = "CreateCompensateRemoveCandidate"
    /\ After["CreateCompensateRemoveCandidate"] = "CreateCompensateDemoteCandidate"
    /\ After["CreateCompensateDemoteCandidate"] = "CreateCompensateCloseCandidate"
    /\ After["CreateCompensateCloseCandidate"] = "CreateCompensateDeleteCandidate"
    /\ After["CreateCompensateDeleteCandidate"] = "CreateCompensateFinalize"

LEMMA AfterIs ==
    /\ AfterFacts
    /\ DOMAIN After \subseteq Forward \cup (Compensating \ {"CreateCompensateFinalize"})
    /\ DOMAIN After \cap ({"CreateCommitPrimary", "CreateCommitSecondary"} \cup Labelling) = {}
<1>1. AfterFacts
  BY DEF AfterFacts, After
<1>2. DOMAIN After = {"CreateOpenPrimary", "CreatePromotePrimary",
         "CreatePrimaryCurrentConfiguration", "CreateOpenSecondary",
         "CreateUpdateSecondaryEpoch", "CreateAssignSecondaryIdle",
         "CreateBuildSecondary", "CreateAssignSecondaryActive",
         "CreateCatchUpConfiguration", "CreateWaitForCatchUpQuorum",
         "CreateCurrentConfiguration", "CreateCompensateRestoreConfiguration",
         "CreateCompensateRemoveCandidate", "CreateCompensateDemoteCandidate",
         "CreateCompensateCloseCandidate", "CreateCompensateDeleteCandidate"}
  BY DEF After
<1> QED
  BY <1>1, <1>2 DEF Forward, PrimaryPhases, SecondaryPhases, Configuring, Compensating, Labelling

\* Who runs the pending action.
LEMMA TargetIs ==
    ASSUME TypeInv, op.pending # NoAction, op.phase \notin Labelling
    PROVE  /\ T \in Replica /\ T = IF op.phase \in AtPrimary THEN Primary ELSE op.target
           /\ op.phase \in DOMAIN After /\ op.pending.id[2] = op.phase
           /\ op.phase \in Forward \cup (Compensating \ {"CreateCompensateFinalize"})
           /\ op.target = op.committed + 1 /\ op.committed \in Nat
           /\ P = rep[T] /\ ProcessInv(P)
<1>1. OperationInv /\ PendingInv
  BY DEF TypeInv, OperationInv
<1>2. op.phase \in DOMAIN After /\ op.pending.id[2] = op.phase
  BY <1>1 DEF PendingInv, Acting
<1>3. op.phase \in Forward \cup (Compensating \ {"CreateCompensateFinalize"})
  BY <1>2, AfterIs
<1>4. op.target = op.committed + 1 /\ op.committed \in Nat
  BY <1>1, <1>3 DEF OperationInv
<1>5. T \in Replica /\ T = IF op.phase \in AtPrimary THEN Primary ELSE op.target
  BY <1>1 DEF PendingInv, T
<1>6. P = rep[T] /\ ProcessInv(P)
  BY <1>5 DEF P, TypeInv
<1> QED
  BY <1>2, <1>3, <1>4, <1>5, <1>6

\* The phases whose action the candidate runs.
OwnPhases ==
    Opening \cup {"CreatePromotePrimary", "CreatePrimaryCurrentConfiguration",
                  "CreateUpdateSecondaryEpoch", "CreateAssignSecondaryIdle",
                  "CreateAssignSecondaryActive"}

\* The candidate has taken the step of the phase.
Taken(p) ==
    /\ op.phase \in Opening => Opened(p)
    /\ op.phase = "CreatePromotePrimary" => Leads(p)
    /\ op.phase = "CreatePrimaryCurrentConfiguration" => Leads(p) /\ Founded(p)
    /\ op.phase = "CreateUpdateSecondaryEpoch" => Numbered(p)
    /\ op.phase = "CreateAssignSecondaryIdle" => Idle(p)
    /\ op.phase = "CreateAssignSecondaryActive" => Serves(p)

\* The candidate has not: the pending action is all that may be due.
Untaken(r) ==
    /\ op.phase \in Opening => Unopened(rep[r])
    /\ op.phase \in {"CreatePromotePrimary", "CreateUpdateSecondaryEpoch"} => Opened(rep[r])
    /\ op.phase = "CreatePrimaryCurrentConfiguration" => Leads(rep[r]) /\ rep[r].cfg = NoConfig
    /\ op.phase = "CreateAssignSecondaryIdle" => Numbered(rep[r])
    /\ op.phase = "CreateAssignSecondaryActive" => Idle(rep[r])
    /\ \A a \in Due(r) : op.pending # NoAction /\ a.id = op.pending.id /\ Own(a.act)

LEMMA TakenOrNot ==
    ASSUME NEW r, Progress(r), op.phase \in OwnPhases
    PROVE  (Taken(rep[r]) /\ Due(r) = {}) \/ Untaken(r)
  BY DEF Progress, Takes, Taken, Untaken, OwnPhases, Opening

\* Neither the state nor the records say that the step is taken when it is not.
LEMMA CandidateDone ==
    ASSUME IInv, op.pending # NoAction, op.phase \in OwnPhases, op.target \notin hit,
           Observation = "Postcondition"
    PROVE  Taken(rep[op.target]) /\ Due(op.target) = {}
<1> DEFINE r == op.target
<1>1. TypeInv /\ OperationInv /\ r \in Replica
  BY DEF IInv, TypeInv, OperationInv
<1>2. op.phase \notin Labelling /\ op.phase \in Forward /\ op.phase # "CreateCompensateDeleteCandidate"
  BY DEF OwnPhases, Opening, Labelling, Forward, PrimaryPhases, SecondaryPhases
<1>3. Progress(r) /\ RecordInv(rep[r])
  BY <1>1, <1>2 DEF IInv, ReplicaInv, Progress
<1>4. /\ op.pending.id[2] = op.phase /\ ProcessInv(P) /\ P = rep[T]
      /\ T = IF op.phase \in AtPrimary THEN Primary ELSE op.target
  BY <1>1, <1>2, TargetIs
<1>5. T = r /\ P = rep[r]
  <2>1. op.phase = "CreatePrimaryCurrentConfiguration" => r = Primary
    BY <1>1 DEF OperationInv, PrimaryPhases, Forward, Primary
  <2> QED
    BY <1>4, <2>1 DEF OwnPhases, Opening, AtPrimary, Configuring
<1>6. Same(r)
  BY <1>1, <1>2 DEF IInv, ReplicaInv, Forward, PrimaryPhases, SecondaryPhases, Configuring
<1>7. DirectObservation = "Postcondition" \/ Record(P, op.pending.id) = "Completed"
  BY <1>1, <1>2, <1>5, <1>6, ObservationIs
<1>8. ~Untaken(r)
  <2> SUFFICES ASSUME Untaken(r) PROVE FALSE
    OBVIOUS
  <2>1. CASE Record(P, op.pending.id) = "Completed"
    <3>1. op.pending.id \in DOMAIN rep[r].done /\ rep[r].done[op.pending.id] = "Completed"
      BY <1>4, <1>5, <2>1, RecordIs
    <3> QED
      BY <1>3, <1>4, <3>1 DEF RecordInv, Untaken, OwnPhases, Opening, Unopened, Opened, Numbered,
         Idle, Stage, Epoch, BlankEpoch
  <2>2. CASE DirectObservation = "Postcondition"
    <3>1. DirectFacts
      BY DirectIs
    <3>2. CASE op.phase \in Opening
      <4>1. P.open
        BY <2>2, <3>1, <3>2, EitherIs DEF DirectFacts
      <4> QED
        BY <1>5, <3>2, <4>1 DEF Untaken, Unopened, Stage
    <3>3. CASE op.phase = "CreatePromotePrimary"
      <4>1. Is(T, "Primary")
        BY <2>2, <3>1, <3>3, EitherIs DEF DirectFacts
      <4> QED
        BY <1>5, <3>3, <4>1 DEF Untaken, Opened, Stage, Is
    <3>4. CASE op.phase = "CreateUpdateSecondaryEpoch"
      <4>1. Is(T, "Unknown")
        BY <2>2, <3>1, <3>4, EitherIs DEF DirectFacts
      <4> QED
        BY <1>5, <3>4, <4>1 DEF Untaken, Opened, Stage, Is, Epoch, BlankEpoch
    <3>5. CASE op.phase = "CreateAssignSecondaryIdle"
      <4>1. Is(T, "IdleSecondary")
        BY <2>2, <3>1, <3>5, EitherIs DEF DirectFacts
      <4> QED
        BY <1>5, <3>5, <4>1 DEF Untaken, Numbered, Stage, Is
    <3>6. CASE op.phase = "CreateAssignSecondaryActive"
      <4>1. Is(T, "ActiveSecondary")
        BY <2>2, <3>1, <3>6, EitherIs DEF DirectFacts
      <4> QED
        BY <1>5, <3>6, <4>1 DEF Untaken, Idle, Stage, Is
    <3>7. CASE op.phase = "CreatePrimaryCurrentConfiguration"
      <4>1. P.cfg = ConfigOf("Current", Primary)
        BY <2>2, <3>1, <3>7, EitherIs DEF DirectFacts, Configuration
      <4>2. ConfigOf("Current", Primary) # NoConfig
        BY DEF ConfigOf, NoConfig
      <4> QED
        BY <1>5, <3>7, <4>1, <4>2 DEF Untaken
    <3> QED
      BY <3>2, <3>3, <3>4, <3>5, <3>6, <3>7 DEF OwnPhases
  <2> QED
    BY <1>7, <2>1, <2>2
<1> QED
  BY <1>3, <1>8, TakenOrNot

-----------------------------------------------------------------------------
(* The operation goes forward.                                             *)

\* The candidate is where the next phase takes it from.
LEMMA ProgressForward ==
    ASSUME IInv, op.pending # NoAction, Observation = "Postcondition", op.phase \in Forward,
           NEW r \in Replica \ hit, r = op.target, Moved(op, op', After[op.phase]),
           UNCHANGED <<rep, pod, net, hit>>
    PROVE  Progress(r)'
<1>1. TypeInv /\ OperationInv
  BY DEF IInv, TypeInv, OperationInv
<1>2. Progress(r)
  BY <1>1 DEF IInv, ReplicaInv
<1>3. op.phase \in OwnPhases => Taken(rep[r]) /\ Due(r) = {}
  BY CandidateDone
<1>4. Due(r)' = Due(r) /\ RecordInv(rep[r])' /\ pod'[r].exists
  BY <1>2 DEF Due, Fresh, Progress
<1>5. AfterFacts /\ op.phase \in DOMAIN After /\ op.phase \notin Labelling
  <2>1. op.phase \notin Labelling
    BY DEF Forward, PrimaryPhases, SecondaryPhases, Configuring, Labelling
  <2> QED
    BY <1>1, <2>1, AfterIs, TargetIs
<1>6. /\ op'.phase = After[op.phase] /\ op'.pending = NoAction /\ op'.insts = op.insts
      /\ op'.target = op.target /\ rep' = rep
  BY DEF Moved
<1>7. Founded(rep[r])' <=> Founded(rep[r])
  BY <1>6 DEF Founded, ConfigOf, Secondaries
<1>8. CASE op.phase \in Opening \cup {"CreatePromotePrimary", "CreatePrimaryCurrentConfiguration"}
  <2>1. op.phase = "CreateOpenPrimary" => Progress(r)'
    BY <1>2, <1>3, <1>4, <1>5, <1>6
    DEF Progress, Takes, AfterFacts, Taken, OwnPhases, Opening, Opened, Configuring
  <2>2. op.phase = "CreateOpenSecondary" => Progress(r)'
    BY <1>2, <1>3, <1>4, <1>5, <1>6
    DEF Progress, Takes, AfterFacts, Taken, OwnPhases, Opening, Opened, Configuring
  <2>3. op.phase = "CreatePromotePrimary" => Progress(r)'
    BY <1>2, <1>3, <1>4, <1>5, <1>6
    DEF Progress, Takes, AfterFacts, Taken, OwnPhases, Opening, Leads, Configuring
  <2>4. op.phase = "CreatePrimaryCurrentConfiguration" => Progress(r)'
    BY <1>2, <1>3, <1>4, <1>5, <1>6, <1>7
    DEF Progress, AfterFacts, Taken, OwnPhases, Opening, Leads, Configuring
  <2> QED
    BY <1>8, <2>1, <2>2, <2>3, <2>4 DEF Opening
<1>9. CASE op.phase \in {"CreateUpdateSecondaryEpoch", "CreateAssignSecondaryIdle",
                         "CreateAssignSecondaryActive", "CreateBuildSecondary"}
  <2>1. op.phase = "CreateUpdateSecondaryEpoch" => Progress(r)'
    BY <1>2, <1>3, <1>4, <1>5, <1>6
    DEF Progress, Takes, AfterFacts, Taken, OwnPhases, Opening, Numbered, Configuring
  <2>2. op.phase = "CreateAssignSecondaryIdle" => Progress(r)'
    BY <1>2, <1>3, <1>4, <1>5, <1>6
    DEF Progress, AfterFacts, Taken, OwnPhases, Opening, Idle, Configuring
  <2>3. op.phase = "CreateBuildSecondary" => Progress(r)'
    BY <1>2, <1>4, <1>5, <1>6 DEF Progress, Takes, AfterFacts, Opening, Idle, Configuring
  <2>4. op.phase = "CreateAssignSecondaryActive" => Progress(r)'
    BY <1>2, <1>3, <1>4, <1>5, <1>6
    DEF Progress, AfterFacts, Taken, OwnPhases, Opening, Serves, Configuring
  <2> QED
    BY <1>9, <2>1, <2>2, <2>3, <2>4
<1>10. CASE op.phase \in Configuring
  <2>1. Serves(rep[r]) /\ Due(r) = {} /\ rep[r].cfg = NoConfig
    BY <1>2, <1>10 DEF Progress, Configuring
  <2>2. op'.phase \in {"CreateWaitForCatchUpQuorum", "CreateCurrentConfiguration",
                       "CreateCommitSecondary"}
    BY <1>5, <1>6, <1>10 DEF AfterFacts, Configuring
  <2> QED
    BY <1>4, <1>6, <2>1, <2>2 DEF Progress, Opening, Serves, Stage, Configuring
<1>11. op.phase \notin {"CreateCommitPrimary", "CreateCommitSecondary"}
  BY <1>5, AfterIs
<1> QED
  BY <1>8, <1>9, <1>10, <1>11 DEF Forward, PrimaryPhases, SecondaryPhases, Opening, Configuring

LEMMA ForwardStep ==
    ASSUME IInv, op.pending # NoAction, Observation = "Postcondition", op.phase \in Forward,
           op' = WithPhase(After[op.phase]), UNCHANGED <<stable, rep, pod, net, hit>>
    PROVE  IInv'
<1>1. TypeInv /\ OperationInv /\ Moved(op, op', After[op.phase])
  BY WithPhaseIs DEF IInv, TypeInv, OperationInv
<1>2. op.phase \in DOMAIN After /\ AfterFacts
  <2>1. op.phase \notin Labelling
    BY DEF Forward, PrimaryPhases, SecondaryPhases, Configuring, Labelling
  <2> QED
    BY <1>1, <2>1, AfterIs, TargetIs
<1>3. /\ op.phase \in PrimaryPhases => op'.phase \in PrimaryPhases
      /\ op.phase \in SecondaryPhases => op'.phase \in SecondaryPhases
  <2>1. op.phase \notin {"CreateCommitPrimary", "CreateCommitSecondary"}
    BY <1>2, AfterIs
  <2> QED
    BY <1>1, <1>2, <2>1 DEF Moved, AfterFacts, PrimaryPhases, SecondaryPhases, Configuring
<1>4. OperationInv'
  <2>1. PendingInv'
    BY <1>1 DEF Moved, PendingInv
  <2>2. ~stable /\ op'.phase \in Forward
    BY <1>1, <1>3 DEF OperationInv, Forward, PrimaryPhases, SecondaryPhases, Configuring
  <2>3. op.phase \in PrimaryPhases => op'.phase \notin SecondaryPhases
    BY <1>3 DEF PrimaryPhases, SecondaryPhases, Configuring
  <2>4. op.phase \in SecondaryPhases => op'.phase \notin PrimaryPhases
    BY <1>3 DEF PrimaryPhases, SecondaryPhases, Configuring
  <2>5. /\ op'.phase \in Phases /\ op'.phase \notin Routing /\ op'.phase \notin Unstarted
        /\ op'.phase # "CreateCompensateRestoreConfiguration"
    BY <2>2 DEF Phases, Forward, PrimaryPhases, SecondaryPhases, Configuring, Routing, Unstarted
  <2> QED
    BY <1>1, <1>3, <2>1, <2>2, <2>3, <2>4, <2>5 DEF OperationInv, Moved, Forward
<1>5. \A r \in Replica \ hit : ReplicaInv(r)'
  <2> TAKE r \in Replica \ hit
  <2>1. ReplicaInv(r)
    BY DEF IInv
  <2>2. op'.phase \in Forward /\ op.phase \notin {"None", "Failed", "Poisoned"}
    BY <1>3 DEF Forward, PrimaryPhases, SecondaryPhases, Configuring
  <2>3. Waiting(r)' => Waiting(r)
    BY <1>1, <2>2 DEF Waiting, Moved
  <2>4. r = op'.target => Progress(r)'
    BY <1>1, ProgressForward DEF Moved
  <2> QED
    BY <1>1, <2>1, <2>2, <2>3, <2>4, OperationKeeps DEF Moved
<1> QED
  BY <1>4, <1>5, OperationStep

-----------------------------------------------------------------------------
(* The next member.                                                        *)

LEMMA NextMemberIs ==
    ASSUME IsRecord(op, OperationFields), NEW k \in 0..N, NEW q2, q2 = NextMember(k)
    PROVE  /\ IsRecord(q2, OperationFields) /\ q2.pending = NoAction /\ q2.insts = op.insts
           /\ q2.committed = k
           /\ k = N => q2.phase = "CreatePublishRouting" /\ q2.target = Primary /\ q2.index = 0
           /\ k # N => /\ q2.phase = IF k = 0 THEN "CreateOpenPrimary" ELSE "CreateOpenSecondary"
                       /\ q2.target = k + 1 /\ q2.index = IF k = 0 THEN 0 ELSE k - 1
<1>1. CASE k = N
  <2> DEFINE w == WithPhase("CreatePublishRouting")
  <2>1. Moved(op, w, "CreatePublishRouting")
    BY WithPhaseIs
  <2>2. q2 = [w EXCEPT !.committed = k, !.index = 0, !.target = Primary]
    BY <1>1, Zenon DEF NextMember
  <2> HIDE DEF w
  <2> QED
    BY <1>1, <2>1, <2>2 DEF Moved, IsRecord, OperationFields
<1>2. CASE k # N
  <2> DEFINE phase == IF k = 0 THEN "CreateOpenPrimary" ELSE "CreateOpenSecondary"
             index == IF k = 0 THEN 0 ELSE k - 1
             w == WithPhase(phase)
  <2>1. Moved(op, w, phase)
    BY WithPhaseIs
  <2>2. q2 = [w EXCEPT !.committed = k, !.index = index, !.target = k + 1]
    BY <1>2, Zenon DEF NextMember
  <2> HIDE DEF w, index, phase
  <2>3. /\ IsRecord(q2, OperationFields) /\ q2.pending = NoAction /\ q2.insts = op.insts
        /\ q2.committed = k /\ q2.phase = phase /\ q2.target = k + 1 /\ q2.index = index
    BY <2>1, <2>2 DEF Moved, IsRecord, OperationFields
  <2> QED
    BY <1>2, <2>3 DEF phase, index
<1> QED
  BY <1>1, <1>2

\* The first k members are committed and the next one is the candidate.
LEMMA NextMemberStep ==
    ASSUME IInv, NEW k \in 0..N, op.phase \notin {"None", "Failed"}, ~stable,
           UNCHANGED <<stable, rep, pod, net, hit>>, op' = NextMember(k), NextKnown(k),
           \A r \in Replica \ hit : (r <= k => Settled(r)) /\ (r > k => Clean(r))
    PROVE  IInv'
<1>1. TypeInv /\ OperationInv /\ N \in Nat /\ N >= 1
  BY CreateAssumption DEF IInv, TypeInv
<1>2. /\ IsRecord(op', OperationFields) /\ op'.pending = NoAction /\ op'.insts = op.insts
      /\ op'.committed = k
      /\ k = N => op'.phase = "CreatePublishRouting" /\ op'.target = Primary /\ op'.index = 0
      /\ k # N => /\ op'.phase = IF k = 0 THEN "CreateOpenPrimary" ELSE "CreateOpenSecondary"
                  /\ op'.target = k + 1 /\ op'.index = IF k = 0 THEN 0 ELSE k - 1
  BY <1>1, NextMemberIs DEF OperationInv
<1>3. /\ op'.target \in Replica /\ op'.index \in 0..(N - 1) /\ op'.committed \in 0..N
  BY <1>1, <1>2 DEF Replica, Primary
<1>4. OperationInv'
  <2>1. PendingInv'
    BY <1>2 DEF PendingInv
  <2>2. CASE k = N
    BY <1>1, <1>2, <1>3, <2>1, <2>2
    DEF OperationInv, Phases, Forward, PrimaryPhases, SecondaryPhases, Configuring, Compensating,
        Routing, Unstarted
  <2>3. CASE k # N
    BY <1>1, <1>2, <1>3, <2>1, <2>3
    DEF OperationInv, Phases, Forward, PrimaryPhases, SecondaryPhases, Configuring, Compensating,
        Routing, Unstarted
  <2> QED
    BY <2>2, <2>3
<1>5. \A r \in Replica \ hit : ReplicaInv(r)'
  <2> TAKE r \in Replica \ hit
  <2>1. ReplicaInv(r) /\ (r <= k => Settled(r)) /\ (r > k => Clean(r))
    BY DEF IInv
  <2>2. Due(r)' = Due(r) /\ (Settled(r)' <=> Settled(r)) /\ (Clean(r)' <=> Clean(r))
    BY DEF Due, Fresh, Settled, Clean
  <2>3. Same(r)' /\ pod'[r].up
    BY <1>2, <2>1 DEF ReplicaInv, Same
  <2>4. op'.phase \in Forward /\ r = op'.target => Progress(r)'
    <3> SUFFICES ASSUME op'.phase \in Forward, r = op'.target PROVE Progress(r)'
      OBVIOUS
    <3>1. k # N /\ r = k + 1 /\ op'.phase \in Opening
      BY <1>2 DEF Forward, PrimaryPhases, SecondaryPhases, Configuring, Opening
    <3>2. pod[r].exists /\ Clean(r)
      BY <2>1, <3>1 DEF NextKnown, Observed, Replica
    <3>3. /\ Unopened(rep[r])' /\ rep'[r].cfg = NoConfig /\ DOMAIN rep'[r].done = {}
          /\ Due(r)' = {} /\ pod'[r].exists
      BY <2>2, <3>2 DEF Clean
    <3> QED
      BY <3>1, <3>3 DEF Progress, Takes, RecordInv, Opening, Configuring
  <2>5. Waiting(r)' => Clean(r)'
    BY <1>2, <2>1, <2>2 DEF Waiting
  <2>6. r <= op'.committed => Settled(r)'
    BY <1>2, <2>1, <2>2
  <2> QED
    BY <2>3, <2>4, <2>5, <2>6 DEF ReplicaInv
<1> QED
  BY <1>4, <1>5, OperationStep

\* When the operation commits, the candidate is where a member is.
LEMMA CommitIsSound ==
    ASSUME IInv, op.phase \in {"CreateCommitPrimary", "CreateCommitSecondary"}
    PROVE  /\ op.target \in 1..N /\ op.target = op.committed + 1
           /\ \A r \in Replica \ hit : (r <= op.target => Settled(r)) /\ (r > op.target => Clean(r))
<1>1. TypeInv /\ OperationInv /\ op.phase \in Forward
  BY DEF IInv, TypeInv, Forward, PrimaryPhases, SecondaryPhases
<1>2. op.target \in 1..N /\ op.target = op.committed + 1 /\ op.committed \in Nat
  BY <1>1 DEF OperationInv, Replica
<1>3. ASSUME NEW r \in Replica \ hit
      PROVE  (r <= op.target => Settled(r)) /\ (r > op.target => Clean(r))
  <2>1. ReplicaInv(r)
    BY DEF IInv
  <2>2. CASE r <= op.committed
    BY <1>2, <2>1, <2>2 DEF ReplicaInv, Replica
  <2>3. CASE r = op.target
    <3>1. Progress(r) /\ Due(r) = {} /\ pod[r].exists
      BY <1>1, <2>1, <2>3 DEF ReplicaInv, Progress
    <3>4. ~(r > op.target)
      BY <1>2, <2>3
    <3>2. ASSUME op.phase = "CreateCommitPrimary" PROVE Settled(r)
      <4>1. Leads(rep[r]) /\ r = Primary
        BY <1>1, <1>2, <2>3, <3>1, <3>2 DEF Progress, OperationInv, PrimaryPhases, Primary
      <4> QED
        BY <3>1, <4>1 DEF Settled
    <3>3. ASSUME op.phase = "CreateCommitSecondary" PROVE Settled(r)
      <4>1. Serves(rep[r]) /\ r # Primary
        BY <1>1, <1>2, <2>3, <3>1, <3>3 DEF Progress, OperationInv, SecondaryPhases, Primary
      <4> QED
        BY <3>1, <4>1 DEF Settled
    <3> QED
      BY <3>2, <3>3, <3>4
  <2>4. CASE r > op.target
    <3>1. Waiting(r)
      BY <1>2, <2>4 DEF Waiting, Replica
    <3> QED
      BY <1>2, <2>1, <2>4, <3>1 DEF ReplicaInv, Replica
  <2> QED
    BY <1>2, <2>2, <2>3, <2>4 DEF Replica
<1> QED
  BY <1>2, <1>3

LEMMA CommitStep ==
    ASSUME IInv, Commit
    PROVE  IInv'
<1>1. /\ op.phase \in {"CreateCommitPrimary", "CreateCommitSecondary"}
      /\ UNCHANGED <<stable, rep, pod, net, hit>>
      /\ \/ op' = WithPhase("Poisoned")
         \/ NextKnown(op.target) /\ op' = NextMember(op.target)
         \/ op.target < N /\ op' = [WithPhase("Failed") EXCEPT !.committed = op.target]
  BY DEF Commit, Persist
<1>2. OperationInv /\ ~stable /\ op.phase \notin {"None", "Failed"}
  BY <1>1 DEF IInv, TypeInv, OperationInv
<1>3. /\ op.target \in 1..N /\ op.target = op.committed + 1
      /\ \A r \in Replica \ hit : (r <= op.target => Settled(r)) /\ (r > op.target => Clean(r))
  BY <1>1, CommitIsSound
<1>4. CASE op' = WithPhase("Poisoned")
  BY <1>1, <1>2, <1>4, MoveStep
  DEF Phases, Forward, PrimaryPhases, SecondaryPhases, Configuring, Compensating, Routing, Unstarted
<1>5. CASE NextKnown(op.target) /\ op' = NextMember(op.target)
  <2>1. op.target \in 0..N
    BY <1>3
  <2> QED
    BY <1>1, <1>2, <1>3, <1>5, <2>1, NextMemberStep
<1>6. CASE op.target < N /\ op' = [WithPhase("Failed") EXCEPT !.committed = op.target]
  <2> DEFINE w == WithPhase("Failed")
  <2>1. Moved(op, w, "Failed")
    BY <1>2, WithPhaseIs DEF OperationInv
  <2>2. op' = [w EXCEPT !.committed = op.target]
    BY <1>6
  <2> HIDE DEF w
  <2>3. /\ IsRecord(op', OperationFields) /\ op'.phase = "Failed" /\ op'.pending = NoAction
        /\ op'.insts = op.insts /\ op'.committed = op.target /\ op'.target = op.target
        /\ op'.index = op.index
    BY <2>1, <2>2 DEF Moved, IsRecord, OperationFields
  <2>4. OperationInv'
    BY <1>1, <1>2, <1>3, <1>6, <2>3
    DEF OperationInv, PendingInv, Phases, Forward, PrimaryPhases, SecondaryPhases, Configuring,
        Compensating, Routing, Unstarted
  <2>5. \A r \in Replica \ hit : ReplicaInv(r)'
    <3> TAKE r \in Replica \ hit
    <3>1. ReplicaInv(r) /\ (r <= op.target => Settled(r)) /\ (r > op.target => Clean(r))
      BY <1>3 DEF IInv
    <3>2. Due(r)' = Due(r) /\ (Settled(r)' <=> Settled(r)) /\ (Clean(r)' <=> Clean(r))
      BY <1>1 DEF Due, Fresh, Settled, Clean
    <3>3. Same(r)' /\ pod'[r].up
      BY <1>1, <1>2, <2>3, <3>1 DEF ReplicaInv, Same
    <3> QED
      BY <2>3, <3>1, <3>2, <3>3
      DEF ReplicaInv, Waiting, Forward, PrimaryPhases, SecondaryPhases, Configuring
  <2> QED
    BY <1>1, <2>4, <2>5, OperationStep
<1> QED
  BY <1>1, <1>4, <1>5, <1>6

-----------------------------------------------------------------------------
(* Starting, fencing and publishing.                                       *)

LEMMA StartCreateStep ==
    ASSUME IInv, StartCreate
    PROVE  IInv'
<1>1. /\ op.phase \in {"None", "Failed"} /\ UNCHANGED <<stable, rep, pod, net, hit>>
      /\ op' = [phase |-> "CreateFenceRouting", insts |-> [r \in Replica |-> rep[r].inst],
                committed |-> op.committed, target |-> Primary, index |-> 0,
                pending |-> NoAction, late |-> FALSE]
  BY DEF StartCreate
<1>2. OperationInv /\ N \in Nat /\ N >= 1
  BY CreateAssumption DEF IInv, TypeInv
<1>3. /\ IsRecord(op', OperationFields) /\ op'.phase = "CreateFenceRouting"
      /\ op'.committed = op.committed /\ op'.target = Primary /\ op'.index = 0
      /\ op'.pending = NoAction /\ op'.insts = [r \in Replica |-> rep[r].inst]
  BY <1>1 DEF IsRecord, OperationFields
<1>4. OperationInv'
  BY <1>1, <1>2, <1>3
  DEF OperationInv, PendingInv, Phases, Forward, PrimaryPhases, SecondaryPhases, Configuring,
      Compensating, Routing, Unstarted, Replica, Primary
<1>5. \A r \in Replica \ hit : ReplicaInv(r)'
  <2> TAKE r \in Replica \ hit
  <2>1. ReplicaInv(r)
    BY DEF IInv
  <2>2. Due(r)' = Due(r) /\ (Settled(r)' <=> Settled(r)) /\ (Clean(r)' <=> Clean(r))
    BY <1>1 DEF Due, Fresh, Settled, Clean
  <2>3. Same(r)' /\ pod'[r].up
    BY <1>1, <1>3, <2>1 DEF ReplicaInv, Same
  <2>4. Waiting(r)' => Waiting(r)
    BY <1>1, <1>3 DEF Waiting, Compensating, Forward, PrimaryPhases, SecondaryPhases, Configuring
  <2> QED
    BY <1>3, <2>1, <2>2, <2>3, <2>4
    DEF ReplicaInv, Forward, PrimaryPhases, SecondaryPhases, Configuring
<1> QED
  BY <1>1, <1>4, <1>5, OperationStep

\* The next pod is fenced, or labelled.
LEMMA IndexStep ==
    ASSUME IInv, op.phase \in Labelling, op.index + 1 # N, UNCHANGED <<stable, rep, pod, net, hit>>,
           op' = [WithPhase(op.phase) EXCEPT !.index = @ + 1]
    PROVE  IInv'
<1> DEFINE w == WithPhase(op.phase)
<1>1. OperationInv /\ Moved(op, w, op.phase)
  BY WithPhaseIs DEF IInv, TypeInv, OperationInv
<1>2. op' = [w EXCEPT !.index = w.index + 1]
  OBVIOUS
<1> HIDE DEF w
<1>3. /\ IsRecord(op', OperationFields) /\ op'.phase = op.phase /\ op'.pending = NoAction
      /\ op'.insts = op.insts /\ op'.committed = op.committed /\ op'.target = op.target
      /\ op'.index = op.index + 1
  BY <1>1, <1>2 DEF Moved, IsRecord, OperationFields
<1>4. op'.index \in 0..(N - 1)
  BY <1>1, <1>3, CreateAssumption DEF OperationInv
<1>5. OperationInv'
  BY <1>1, <1>3, <1>4 DEF OperationInv, PendingInv
<1>6. \A r \in Replica \ hit : ReplicaInv(r)'
  <2> TAKE r \in Replica \ hit
  <2>1. ReplicaInv(r)
    BY DEF IInv
  <2>2. Waiting(r)' => Waiting(r)
    BY <1>3 DEF Waiting
  <2>3. op'.phase \notin Forward /\ op'.phase \notin {"None", "Failed"}
    BY <1>3 DEF Labelling, Forward, PrimaryPhases, SecondaryPhases, Configuring
  <2> QED
    BY <1>3, <2>1, <2>2, <2>3, OperationKeeps
<1> QED
  BY <1>5, <1>6, OperationStep

\* A pod gets another label.
LEMMA LabelStep ==
    ASSUME IInv, UNCHANGED <<op, stable, rep, net, hit>>, NEW r \in Replica,
           NEW l \in {"bootstrap", "primary", "secondary"}, pod' = [pod EXCEPT ![r].label = l]
    PROVE  IInv'
<1>1. TypeInv
  BY DEF IInv
<1>2. /\ IsRecord(pod, Replica)' /\ \A s \in Replica : s # r => pod'[s] = pod[s]
      /\ pod'[r] = [pod[r] EXCEPT !.label = l]
  BY <1>1 DEF TypeInv, IsRecord
<1>3. \A s \in Replica : PodInv(pod[s])
  BY <1>1 DEF TypeInv
<1>4. \A s \in Replica : PodInv(pod'[s])
  BY <1>2, <1>3, PodChanged
<1>5. pod'[r].exists = pod[r].exists /\ pod'[r].up = pod[r].up
  BY <1>2, <1>3 DEF PodInv, IsRecord, PodFields
<1>6. \A s \in Replica : ProcessInv(rep'[s]) /\ Later(rep[s], rep'[s])
  BY <1>1, ProcessesKept DEF TypeInv
<1>7. IsRecord(rep, Replica)'
  BY <1>1 DEF TypeInv
<1> QED
  BY <1>2, <1>4, <1>5, <1>6, <1>7, OthersKept

LEMMA FencingStep ==
    ASSUME IInv, op.phase = "CreateFenceRouting", Fencing
    PROVE  IInv'
<1>1. OperationInv /\ ~stable /\ op.committed < N /\ op.committed \in 0..N
  BY DEF IInv, TypeInv, OperationInv, Unstarted
<1>2. CASE FenceDone
  <2>1. /\ UNCHANGED <<stable, rep, pod, net, hit>>
        /\ \/ NextKnown(op.committed) /\ op' = NextMember(op.committed)
           \/ F # N /\ op' = [WithPhase(op.phase) EXCEPT !.index = @ + 1]
    BY <1>2 DEF FenceDone, Persist
  <2>2. CASE NextKnown(op.committed) /\ op' = NextMember(op.committed)
    <3>1. \A r \in Replica \ hit :
             (r <= op.committed => Settled(r)) /\ (r > op.committed => Clean(r))
      BY DEF IInv, ReplicaInv, Waiting, Forward, PrimaryPhases, SecondaryPhases, Configuring,
         Compensating
    <3> QED
      BY <1>1, <2>1, <2>2, <3>1, NextMemberStep
  <2>3. CASE F # N /\ op' = [WithPhase(op.phase) EXCEPT !.index = @ + 1]
    BY <2>1, <2>3, IndexStep DEF F, Labelling
  <2> QED
    BY <2>1, <2>2, <2>3
<1>3. CASE FenceGivenUp
  <2>1. /\ UNCHANGED <<stable, rep, pod, net, hit>>
        /\ op' = WithPhase("Poisoned") \/ op' = WithPhase("Failed")
    BY <1>3 DEF FenceGivenUp, Persist, RestartOrPoison
  <2> QED
    BY <1>1, <2>1, MoveStep
    DEF Phases, Forward, PrimaryPhases, SecondaryPhases, Configuring, Compensating, Routing,
        Unstarted
<1>4. CASE FenceLabel
  <2>1. F \in Replica
    BY <1>1, CreateAssumption DEF OperationInv, F, Replica
  <2>2. UNCHANGED <<op, stable, rep, net, hit>> /\ pod' = [pod EXCEPT ![F].label = "bootstrap"]
    BY <1>4 DEF FenceLabel
  <2> QED
    BY <2>1, <2>2, LabelStep
<1> QED
  BY <1>2, <1>3, <1>4 DEF Fencing

LEMMA FinalizeStep ==
    ASSUME IInv, Finalize
    PROVE  IInv'
<1>1. /\ op.phase = "CreateFinalize" /\ op.committed = N /\ op' = WithPhase("Completed")
      /\ stable' = TRUE /\ UNCHANGED <<rep, pod, net, hit>>
  BY DEF Finalize
<1>2. OperationInv /\ Moved(op, op', "Completed")
  BY <1>1, WithPhaseIs DEF IInv, TypeInv, OperationInv
<1>3. OperationInv'
  BY <1>1, <1>2
  DEF Moved, OperationInv, PendingInv, Phases, Forward, PrimaryPhases, SecondaryPhases,
      Configuring, Compensating, Routing, Unstarted
<1>4. \A r \in Replica \ hit : ReplicaInv(r)'
  <2> TAKE r \in Replica \ hit
  <2>1. ReplicaInv(r)
    BY DEF IInv
  <2>2. ~Waiting(r)'
    BY <1>1, <1>2, CreateAssumption DEF Waiting, Moved, Replica
  <2> QED
    BY <1>1, <1>2, <2>1, <2>2, OperationKeeps
    DEF Moved, Forward, PrimaryPhases, SecondaryPhases, Configuring
<1> QED
  BY <1>1, <1>3, <1>4, OperationStep

-----------------------------------------------------------------------------
(* Steps around an action.                                                 *)

LEMMA OnFailureIs ==
    /\ op.phase \in Forward =>
          \/ OnFailure = "Poisoned"
          \/ /\ OnFailure \in Compensating \ {"CreateCompensateFinalize"}
             /\ OnFailure = "CreateCompensateRestoreConfiguration" => op.phase \in Configuring
    /\ op.phase \in Compensating \cup Labelling => OnFailure = "Poisoned"
  BY DEF OnFailure, Forward, PrimaryPhases, SecondaryPhases, Configuring, Compensating, Labelling

\* The operation fails closed, or goes back.
LEMMA FailureStep ==
    ASSUME IInv, Active, UNCHANGED <<stable, rep, pod, net, hit>>,
           \/ op' = WithPhase("Poisoned")
           \/ op.phase \in Forward \cup Compensating \cup Labelling /\ op' = WithPhase(OnFailure)
    PROVE  IInv'
<1>1. OperationInv /\ ~stable /\ op.phase \notin {"None", "Failed"}
  BY DEF IInv, TypeInv, OperationInv, Active, Terminal
<1>2. "Poisoned" \in Phases \ Forward /\ "Poisoned" \notin Compensating \cup Routing \cup Unstarted
  BY DEF Phases, Forward, PrimaryPhases, SecondaryPhases, Configuring, Compensating, Routing,
     Unstarted
<1>3. CASE op' = WithPhase("Poisoned")
  BY <1>1, <1>2, <1>3, MoveStep DEF Compensating
<1>4. CASE op.phase \in Forward /\ op' = WithPhase(OnFailure)
  <2>1. CASE OnFailure = "Poisoned"
    BY <1>3, <1>4, <2>1
  <2>2. CASE OnFailure # "Poisoned"
    <3>1. /\ OnFailure \in Compensating \ {"CreateCompensateFinalize"}
          /\ OnFailure = "CreateCompensateRestoreConfiguration" => op.phase \in Configuring
      BY <1>4, <2>2, OnFailureIs
    <3>2. /\ OnFailure \in Phases \ Forward /\ OnFailure \notin Routing \cup Unstarted
      BY <3>1 DEF Phases, Forward, PrimaryPhases, SecondaryPhases, Configuring, Compensating,
         Routing, Unstarted
    <3>3. op.phase \in Configuring => op.committed >= 1
      BY <1>1 DEF OperationInv, SecondaryPhases
    <3> QED
      BY <1>1, <1>4, <3>1, <3>2, <3>3, MoveStep
  <2> QED
    BY <2>1, <2>2
<1>5. CASE op.phase \in Compensating \cup Labelling /\ op' = WithPhase(OnFailure)
  BY <1>3, <1>5, OnFailureIs
<1> QED
  BY <1>3, <1>4, <1>5

LEMMA CandidateLostStep ==
    ASSUME IInv, Active, CandidateLost
    PROVE  IInv'
<1>1. /\ op.phase \notin Compensating \cup Labelling \cup {"CreateFinalize"}
      /\ op' = WithPhase(OnFailure) /\ UNCHANGED <<stable, rep, pod, net, hit>>
  BY DEF CandidateLost, CandidateChanged, Persist
<1>2. op.phase \in Phases /\ op.phase \notin Terminal
  BY DEF IInv, TypeInv, OperationInv, Active
<1>3. op.phase \in Forward
  BY <1>1, <1>2 DEF Phases, Routing, Unstarted, Terminal, Labelling
<1> QED
  BY <1>1, <1>3, FailureStep

\* The compensation goes on.
LEMMA BackStep ==
    ASSUME IInv, op.phase \in DOMAIN After \cap Compensating,
           UNCHANGED <<stable, rep, pod, net, hit>>,
           op' = WithPhase(After[op.phase]),
           op.phase = "CreateCompensateDeleteCandidate" => op.target \in hit \/ Clean(op.target)
    PROVE  IInv'
<1>1. OperationInv /\ ~stable /\ op.phase \notin {"None", "Failed"}
  BY DEF IInv, TypeInv, OperationInv, Compensating
<1>2. op.phase # "CreateCompensateFinalize" /\ AfterFacts
  BY AfterIs DEF Forward, PrimaryPhases, SecondaryPhases, Configuring
<1>3. /\ After[op.phase] \in Compensating \ {"CreateCompensateRestoreConfiguration"}
      /\ After[op.phase] = "CreateCompensateFinalize" =>
            op.phase = "CreateCompensateDeleteCandidate"
  BY <1>2 DEF AfterFacts, Compensating
<1>4. After[op.phase] \in Phases \ Forward /\ After[op.phase] \notin Routing \cup Unstarted
  BY <1>3 DEF Phases, Forward, PrimaryPhases, SecondaryPhases, Configuring, Compensating, Routing,
     Unstarted
<1> QED
  BY <1>1, <1>3, <1>4, MoveStep

LEMMA ActionDoneStep ==
    ASSUME IInv, op.pending # NoAction, op.phase # "CreateFenceRouting", ActionDone(Observation)
    PROVE  IInv'
<1>1. /\ Observation = "Postcondition" /\ UNCHANGED <<stable, rep, pod, net, hit>>
      /\ \/ op.phase # "CreatePublishRouting" /\ op' = WithPhase(After[op.phase])
         \/ op.phase = "CreatePublishRouting" /\ op' = WithPhase("CreateFinalize")
         \/ /\ op.phase = "CreatePublishRouting" /\ op.index + 1 # N
            /\ op' = [WithPhase(op.phase) EXCEPT !.index = @ + 1]
  BY DEF ActionDone, Persist
<1>2. TypeInv /\ OperationInv
  BY DEF IInv, TypeInv
<1>3. CASE op.phase # "CreatePublishRouting" /\ op' = WithPhase(After[op.phase])
  <2>1. op.phase \notin Labelling
    BY <1>3 DEF Labelling
  <2>2. /\ op.phase \in DOMAIN After /\ T = IF op.phase \in AtPrimary THEN Primary ELSE op.target
        /\ op.phase \in Forward \cup (Compensating \ {"CreateCompensateFinalize"})
    BY <1>2, <2>1, TargetIs
  <2>3. CASE op.phase \in Forward
    BY <1>1, <1>3, <2>3, ForwardStep
  <2>4. CASE op.phase \in Compensating
    <3>1. op.phase = "CreateCompensateDeleteCandidate" => op.target \in hit \/ Clean(op.target)
      <4> SUFFICES ASSUME op.phase = "CreateCompensateDeleteCandidate", op.target \notin hit
                   PROVE  Clean(op.target)
        OBVIOUS
      <4>1. T = op.target /\ op.target \in Replica
        BY <1>2, <2>2 DEF AtPrimary, Configuring, OperationInv
      <4>2. ~Observed(T) \/ ~Same(T)
        BY <1>1, EitherIs DEF Observation
      <4>3. pod[T].up /\ Same(T)
        BY <4>1 DEF IInv, ReplicaInv
      <4> QED
        BY <4>1, <4>2, <4>3 DEF Observed, Clean
    <3> QED
      BY <1>1, <1>3, <2>2, <2>4, <3>1, BackStep
  <2> QED
    BY <2>2, <2>3, <2>4
<1>4. CASE op.phase = "CreatePublishRouting" /\ op' = WithPhase("CreateFinalize")
  <2>1. ~stable /\ op.phase \in Routing
    BY <1>2, <1>4 DEF OperationInv, Routing
  <2> QED
    BY <1>1, <1>2, <1>4, <2>1, MoveStep
    DEF Phases, Forward, PrimaryPhases, SecondaryPhases, Configuring, Compensating, Routing,
        Unstarted
<1>5. CASE /\ op.phase = "CreatePublishRouting" /\ op.index + 1 # N
           /\ op' = [WithPhase(op.phase) EXCEPT !.index = @ + 1]
  BY <1>1, <1>5, IndexStep DEF Labelling
<1> QED
  BY <1>1, <1>3, <1>4, <1>5

LEMMA GivenUpStep ==
    ASSUME IInv, Active, op.pending # NoAction, op.phase # "CreateFenceRouting",
           ActionGivenUp(Observation) \/ ActionPoisons(Observation) \/ SkipUnavailable(Observation)
    PROVE  IInv'
<1>1. TypeInv /\ PendingInv
  BY DEF IInv, TypeInv, OperationInv
<1>2. op.phase \in Forward \cup Compensating \cup Labelling
  BY <1>1, TargetIs DEF Compensating
<1>3. CASE ActionGivenUp(Observation) \/ ActionPoisons(Observation)
  BY <1>2, <1>3, FailureStep DEF ActionGivenUp, ActionPoisons, Persist
<1>4. CASE SkipUnavailable(Observation)
  <2>1. op.phase \in Skippable /\ op' = WithPhase(After[op.phase])
        /\ UNCHANGED <<stable, rep, pod, net, hit>>
    BY <1>4 DEF SkipUnavailable, Persist
  <2>2. op.phase \in DOMAIN After \cap Compensating
    BY <1>1, <2>1, TargetIs DEF Skippable, Compensating, Labelling
  <2> QED
    BY <2>1, <2>2, BackStep DEF Skippable
<1> QED
  BY <1>3, <1>4

LEMMA TargetOfIs ==
    /\ op.phase \in Labelling => TargetOf = op.index + 1
    /\ op.phase \in AtPrimary /\ op.phase \notin Labelling => TargetOf = Primary
    /\ op.phase \notin AtPrimary /\ op.phase \notin Labelling => TargetOf = op.target
<1>1. op.phase \in Labelling => TargetOf = op.index + 1
  BY Zenon DEF TargetOf, Labelling, Configuring
<1>2. op.phase \in AtPrimary /\ op.phase \notin Labelling => TargetOf = Primary
  BY Zenon DEF TargetOf, AtPrimary
<1>3. op.phase \notin AtPrimary /\ op.phase \notin Labelling => TargetOf = op.target
  BY Zenon DEF TargetOf, AtPrimary
<1> QED
  BY <1>1, <1>2, <1>3

LEMMA BeginActionStep ==
    ASSUME IInv, op.pending = NoAction, BeginAction
    PROVE  IInv'
<1> DEFINE pending == [id |-> ActionId, target |-> TargetOf, fences |-> << >>]
<1>1. /\ op.phase \in Acting /\ UNCHANGED <<stable, rep, pod, net, hit>>
      /\ op' = [op EXCEPT !.late = FALSE, !.pending = pending]
  BY DEF BeginAction, Persist
<1>2. OperationInv
  BY DEF IInv, TypeInv
<1>3. /\ IsRecord(pending, PendingFields) /\ pending.target = TargetOf
      /\ pending.id = ActionId
  BY DEF IsRecord, PendingFields
<1>4. ActionId[2] = op.phase
  BY DEF ActionId
<1> HIDE DEF pending
<1>5. /\ IsRecord(op', OperationFields) /\ op'.phase = op.phase /\ op'.insts = op.insts
      /\ op'.committed = op.committed /\ op'.target = op.target /\ op'.index = op.index
      /\ op'.pending = pending
  BY <1>1, <1>2 DEF OperationInv, IsRecord, OperationFields
<1>6. /\ TargetOf \in Replica
      /\ op.phase \notin Labelling =>
            TargetOf = IF op.phase \in AtPrimary THEN Primary ELSE op.target
  <2>1. Primary \in Replica /\ op.index + 1 \in Replica /\ op.target \in Replica
    BY <1>2, CreateAssumption DEF OperationInv, Replica, Primary
  <2> QED
    BY <2>1, TargetOfIs
<1>7. PendingInv'
  BY <1>1, <1>3, <1>4, <1>5, <1>6 DEF PendingInv
<1> QED
  BY <1>1, <1>5, <1>7, PendingStep

\* The fences or the lateness of the pending action change.
LEMMA PendingKept ==
    ASSUME IInv, op.pending # NoAction, UNCHANGED <<stable, rep, pod, net, hit>>, NEW f,
           op' = [op EXCEPT !.late = TRUE] \/ op' = [op EXCEPT !.pending.fences = f]
    PROVE  IInv'
<1> DEFINE pending == [op.pending EXCEPT !.fences = f]
<1>1. OperationInv /\ PendingInv
  BY DEF IInv, TypeInv, OperationInv
<1>2. op' = [op EXCEPT !.late = TRUE] \/ op' = [op EXCEPT !.pending = pending]
  OBVIOUS
<1>3. /\ IsRecord(pending, PendingFields) /\ pending.id = op.pending.id
      /\ pending.target = op.pending.target /\ pending # NoAction
  BY <1>1 DEF PendingInv, IsRecord, PendingFields, NoAction
<1> HIDE DEF pending
<1>4. /\ IsRecord(op', OperationFields) /\ op'.phase = op.phase /\ op'.insts = op.insts
      /\ op'.committed = op.committed /\ op'.target = op.target /\ op'.index = op.index
      /\ op'.pending = op.pending \/ op'.pending = pending
  BY <1>1, <1>2 DEF OperationInv, IsRecord, OperationFields
<1>5. PendingInv' /\ op'.pending # NoAction /\ op'.pending.id = op.pending.id
  BY <1>1, <1>3, <1>4 DEF PendingInv
<1> QED
  BY <1>4, <1>5, PendingStep

-----------------------------------------------------------------------------
(* A dispatch.                                                             *)

\* The action that is dispatched is the candidate's own, or one of those that
\* change no role and go to the primary.
LEMMA ActionForIs ==
    ASSUME op.phase \in DOMAIN After, op.phase # "CreateCompensateDeleteCandidate",
           op.phase \in PrimaryPhases => op.target = Primary
    PROVE  /\ ActInv(ActionFor)
           /\ op.phase \in OwnPhases => Own(ActionFor)
           /\ op.phase \in AtPrimary =>
                 ActionFor.do \in {"CatchUp", "Current", "Build", "Wait", "Remove"}
<1>1. ActionFacts
  BY ActionIs
<1>2. op.phase \in Forward \cup (Compensating \ {"CreateCompensateFinalize"})
  BY AfterIs
<1>3. op.phase \notin {"CreateCommitPrimary", "CreateCommitSecondary"}
  BY AfterIs
<1>4. op.phase = "CreatePrimaryCurrentConfiguration" => op.target = Primary
  BY DEF PrimaryPhases
<1>5. CASE op.phase \in OwnPhases
  <2>1. ActInv(ActionFor) /\ Own(ActionFor)
    BY <1>1, <1>4, <1>5 DEF ActionFacts, ActInv, Own, OwnPhases, Opening, Roles
  <2>2. op.phase \in AtPrimary => ActionFor.do = "Current"
    BY <1>1, <1>5 DEF ActionFacts, AtPrimary, OwnPhases, Opening, Configuring
  <2> QED
    BY <2>1, <2>2
<1>6. CASE op.phase \notin OwnPhases
  <2>1. ActInv(ActionFor)
    BY <1>1, <1>2, <1>3, <1>6
    DEF ActionFacts, ActInv, Roles, OwnPhases, Opening, Forward, PrimaryPhases, SecondaryPhases,
        Configuring, Compensating
  <2>2. op.phase \in AtPrimary => ActionFor.do \in {"CatchUp", "Current", "Build", "Wait", "Remove"}
    BY <1>1, <1>6 DEF ActionFacts, AtPrimary, OwnPhases, Opening, Configuring
  <2> QED
    BY <1>6, <2>1, <2>2
<1> QED
  BY <1>5, <1>6

\* An action that can be dispatched has not taken effect.
LEMMA NotTaken ==
    ASSUME TypeInv, op.pending # NoAction, Observation = "Precondition", op.phase \in OwnPhases,
           T = op.target
    PROVE  ~Taken(rep[op.target])
<1>1. /\ op.phase \notin Labelling /\ op.phase # "CreateCompensateDeleteCandidate"
  BY DEF OwnPhases, Opening, Labelling
<1>2. DirectObservation = "Precondition" /\ DirectFacts
  BY <1>1, ObservationIs, DirectIs
<1>3. P = rep[op.target]
  BY DEF P
<1>4. CASE op.phase \in Opening
  <2>1. ~(P.open /\ P.role = "Unknown")
    BY <1>2, <1>4, EitherIs DEF DirectFacts
  <2> QED
    BY <1>3, <1>4, <2>1 DEF Taken, Opened, Stage
<1>5. CASE op.phase = "CreatePromotePrimary"
  <2>1. ~(P.open /\ Is(T, "Primary"))
    BY <1>2, <1>5, EitherIs DEF DirectFacts
  <2> QED
    BY <1>3, <1>5, <2>1 DEF Taken, Leads, Stage, Is
<1>6. CASE op.phase = "CreateUpdateSecondaryEpoch"
  <2>1. ~(P.open /\ Is(T, "Unknown"))
    BY <1>2, <1>6, EitherIs DEF DirectFacts
  <2> QED
    BY <1>3, <1>6, <2>1 DEF Taken, Numbered, Stage, Is
<1>7. CASE op.phase = "CreateAssignSecondaryIdle"
  <2>1. ~Is(T, "IdleSecondary")
    BY <1>2, <1>7, EitherIs DEF DirectFacts
  <2> QED
    BY <1>3, <1>7, <2>1 DEF Taken, Idle, Stage, Is
<1>8. CASE op.phase = "CreateAssignSecondaryActive"
  <2>1. ~Is(T, "ActiveSecondary")
    BY <1>2, <1>8, EitherIs DEF DirectFacts
  <2> QED
    BY <1>3, <1>8, <2>1 DEF Taken, Serves, Stage, Is
<1>9. CASE op.phase = "CreatePrimaryCurrentConfiguration"
  <2>1. ~(Is(T, "Primary") /\ P.cfg = ConfigOf("Current", Primary))
    BY <1>2, <1>9, EitherIs DEF DirectFacts, Configuration
  <2> QED
    BY <1>3, <1>9, <2>1 DEF Taken, Leads, Stage, Is, Founded
<1> QED
  BY <1>4, <1>5, <1>6, <1>7, <1>8, <1>9 DEF OwnPhases

\* What a dispatch makes due.
LEMMA DispatchFacts ==
    ASSUME TypeInv, op.pending # NoAction, DispatchAction(Observation)
    PROVE  /\ Observation = "Precondition" /\ Constructible /\ op.phase \notin Labelling
           /\ op.phase # "CreateCompensateDeleteCandidate"
           /\ UNCHANGED <<op, stable, rep, pod, hit>>
           /\ \A r \in Replica : r # T => Due(r)' = Due(r)
           /\ Due(T)' \subseteq Due(T) \cup {[id |-> op.pending.id, act |-> ActionFor]}
           /\ Due(T) \subseteq Due(T)'
           /\ TypeInv'
<1> SUFFICES ASSUME NEW q, q = [to |-> T, id |-> op.pending.id, fences |-> op.pending.fences,
                                act |-> ActionFor]
             PROVE  /\ Observation = "Precondition" /\ Constructible /\ op.phase \notin Labelling
                    /\ op.phase # "CreateCompensateDeleteCandidate"
                    /\ UNCHANGED <<op, stable, rep, pod, hit>>
                    /\ \A r \in Replica : r # T => Due(r)' = Due(r)
                    /\ Due(T)' \subseteq Due(T) \cup {[id |-> op.pending.id, act |-> ActionFor]}
                    /\ Due(T) \subseteq Due(T)'
                    /\ TypeInv'
  OBVIOUS
<1>1. /\ Observation = "Precondition" /\ Constructible
      /\ op.phase # "CreateCompensateDeleteCandidate"
      /\ op.pending.fences = Fences(P) /\ net' = net \cup {q}
      /\ UNCHANGED <<op, stable, rep, pod, hit>>
  BY DEF DispatchAction, Dispatchable, Executing
<1>2. op.phase \notin Labelling
  BY <1>1 DEF Constructible
<1>3. /\ T \in Replica /\ op.phase \in DOMAIN After /\ P = rep[T] /\ ProcessInv(P)
      /\ op.target = op.committed + 1
  BY <1>2, TargetIs
<1>4. /\ q.to = T /\ q.id = op.pending.id /\ q.act = ActionFor
      /\ q.fences.gen = P.gen /\ q.fences.ver = P.ver
  BY <1>1 DEF Fences
<1>5. [id |-> q.id, act |-> q.act] = [id |-> op.pending.id, act |-> ActionFor]
  OBVIOUS
<1>6. \A r \in Replica : r # T => Due(r)' = Due(r)
  BY <1>1, <1>4 DEF Due, Fresh
<1>7. /\ Due(T)' \subseteq Due(T) \cup {[id |-> op.pending.id, act |-> ActionFor]}
      /\ Due(T) \subseteq Due(T)'
  BY <1>1, <1>4, <1>5 DEF Due, Fresh, T
<1>8. RequestInv(q)'
  <2>1. op.phase \in PrimaryPhases => op.target = Primary
    BY <1>3 DEF TypeInv, OperationInv, Primary
  <2>2. ActInv(ActionFor)
    BY <1>1, <1>3, <2>1, ActionForIs
  <2>3. Past(rep[T], q)
    BY <1>3, <1>4 DEF Past, ProcessInv
  <2> QED
    BY <1>1, <1>3, <1>4, <2>2, <2>3 DEF RequestInv
<1>9. TypeInv'
  BY <1>1, <1>8 DEF TypeInv, OperationInv, PendingInv, RequestInv
<1> QED
  BY <1>1, <1>2, <1>6, <1>7, <1>9

LEMMA DispatchStep ==
    ASSUME IInv, op.pending # NoAction, DispatchAction(Observation)
    PROVE  IInv'
<1>1. TypeInv /\ OperationInv
  BY DEF IInv, TypeInv
<1>2. /\ Observation = "Precondition" /\ op.phase \notin Labelling
      /\ op.phase # "CreateCompensateDeleteCandidate"
      /\ UNCHANGED <<op, stable, rep, pod, hit>>
      /\ \A r \in Replica : r # T => Due(r)' = Due(r)
      /\ Due(T)' \subseteq Due(T) \cup {[id |-> op.pending.id, act |-> ActionFor]}
      /\ TypeInv'
  BY <1>1, DispatchFacts
<1>3. /\ T \in Replica /\ T = IF op.phase \in AtPrimary THEN Primary ELSE op.target
      /\ op.phase \in DOMAIN After /\ op.target = op.committed + 1 /\ op.committed \in Nat
      /\ op.phase \in Forward \cup (Compensating \ {"CreateCompensateFinalize"})
  BY <1>1, <1>2, TargetIs
<1>4. op.phase \in PrimaryPhases => op.target = Primary
  BY <1>1, <1>3 DEF OperationInv, Primary
<1>5. /\ op.phase \in OwnPhases => Own(ActionFor)
      /\ op.phase \in AtPrimary => ActionFor.do \in {"CatchUp", "Current", "Build", "Wait", "Remove"}
  BY <1>2, <1>3, <1>4, ActionForIs
<1>6. op.phase \notin {"CreateCommitPrimary", "CreateCommitSecondary"}
  BY <1>3, AfterIs
<1>7. \A a \in Due(T)' : a \in Due(T) \/ (a.id = op.pending.id /\ a.act = ActionFor)
  BY <1>2
<1> SUFFICES ASSUME NEW r \in Replica \ hit
             PROVE  ReplicaInv(r)'
  BY <1>2 DEF IInv
<1>8. ReplicaInv(r) /\ pod'[r] = pod[r] /\ rep'[r] = rep[r]
  BY <1>2 DEF IInv
<1>9. CASE r # T
  BY <1>2, <1>8, <1>9, ReplicaKept DEF Alike
<1>10. CASE r = T /\ op.phase \in OwnPhases
  <2>1. r = op.target /\ op.phase \in Forward
    BY <1>3, <1>4, <1>10
    DEF OwnPhases, Opening, AtPrimary, Configuring, Forward, PrimaryPhases, SecondaryPhases
  <2>2. Progress(r)
    BY <1>8, <2>1 DEF ReplicaInv
  <2>3. Untaken(r)
    BY <1>1, <1>2, <1>10, <2>1, <2>2, TakenOrNot, NotTaken
  <2>4. \A a \in Due(r)' : a.id = op.pending.id /\ Own(a.act)
    BY <1>5, <1>7, <1>10, <2>3, <1>2 DEF Untaken, T
  <2>5. \A a : Own(a)' <=> Own(a)
    BY <1>2 DEF Own, Secondaries
  <2>6. Progress(r)'
    BY <1>2, <1>8, <1>10, <2>2, <2>3, <2>4, <2>5
    DEF Progress, Takes, Untaken, OwnPhases, Opening, Configuring, RecordInv
  <2>7. ~(r <= op.committed) /\ ~Waiting(r)'
    BY <1>2, <1>3, <2>1 DEF Waiting
  <2> QED
    BY <1>2, <1>8, <2>6, <2>7 DEF ReplicaInv, Same
<1>11. CASE r = T /\ op.phase \notin OwnPhases /\ op.phase \in AtPrimary
  <2>1. r = Primary
    BY <1>3, <1>11
  <2>2. op.phase \in Forward => op.committed >= 1
    BY <1>1, <1>6, <1>11
    DEF OperationInv, Forward, PrimaryPhases, OwnPhases, Opening
  <2>3. op.phase \in Forward => r # op.target
    BY <1>3, <2>1, <2>2 DEF Primary
  <2>4. \A a \in Due(r)' : a \in Due(r) \/ a.act.do \in {"CatchUp", "Current", "Build", "Wait", "Remove"}
    BY <1>2, <1>5, <1>7, <1>11 DEF T
  <2>5. r <= op.committed => Settled(r)'
    BY <1>8, <2>1, <2>4 DEF ReplicaInv, Settled
  <2>6. ~Waiting(r)'
    BY <1>2, <1>3, <2>1, <2>2 DEF Waiting, Primary
  <2> QED
    BY <1>2, <1>8, <2>3, <2>5, <2>6 DEF ReplicaInv, Same
<1>12. CASE r = T /\ op.phase \notin OwnPhases /\ op.phase \notin AtPrimary
  <2>1. r = op.target /\ op.phase \in Compensating \ {"CreateCompensateFinalize"}
    BY <1>3, <1>6, <1>12
    DEF Forward, PrimaryPhases, SecondaryPhases, OwnPhases, Opening, AtPrimary, Configuring
  <2>2. ~(r <= op.committed) /\ ~Waiting(r)' /\ op.phase \notin Forward
    BY <1>2, <1>3, <2>1
    DEF Waiting, Forward, PrimaryPhases, SecondaryPhases, Configuring, Compensating
  <2> QED
    BY <1>2, <1>8, <2>2 DEF ReplicaInv, Same
<1> QED
  BY <1>9, <1>10, <1>11, <1>12

-----------------------------------------------------------------------------
(* The invariant.                                                          *)

LEMMA InitInv == Init => IInv
<1> SUFFICES ASSUME Init
             PROVE  IInv
  OBVIOUS
<1>1. /\ op.phase = "None" /\ op.committed = 0 /\ op.target = Primary /\ op.index = 0
      /\ op.pending = NoAction /\ IsRecord(op, OperationFields)
  BY DEF Init, IsRecord, OperationFields
<1>2. OperationInv
  <2>1. 0 \in 0..N /\ Primary \in Replica /\ 0 \in 0..(N - 1) /\ 0 < N
    BY CreateAssumption DEF Primary, Replica
  <2>2. stable = FALSE
    BY DEF Init
  <2>3. "None" \in Unstarted /\ "None" \notin Forward \cup Compensating \cup Routing
    BY DEF Forward, PrimaryPhases, SecondaryPhases, Configuring, Compensating, Routing, Unstarted
  <2> QED
    BY <1>1, <2>1, <2>2, <2>3
    DEF OperationInv, PendingInv, Phases, Forward, Compensating
<1>3. /\ IsRecord(rep, Replica) /\ \A r \in Replica : rep[r] = BlankProcess(0, 0)
  BY DEF Init, IsRecord
<1>4. /\ IsRecord(pod, Replica)
      /\ \A r \in Replica : PodInv(pod[r]) /\ pod[r].up
  BY DEF Init, IsRecord, PodInv, PodFields
<1>5. \A r \in Replica : ProcessInv(rep[r]) /\ Unopened(rep[r]) /\ rep[r].cfg = NoConfig
                         /\ rep[r].active = NoAction /\ DOMAIN rep[r].done = {}
  <2> DEFINE p == BlankProcess(0, 0)
  <2>1. /\ IsRecord(p, ProcessFields)
        /\ p.inst = 0 /\ p.gen = 0 /\ p.ver = 0 /\ p.active = NoAction
        /\ DOMAIN p.done = {} /\ p.open = FALSE /\ p.role = "Unknown" /\ p.epoch = BlankEpoch
        /\ p.cfg = NoConfig
    BY DEF BlankProcess, BlankEpoch, IsRecord, ProcessFields
  <2> HIDE DEF p
  <2>2. ProcessInv(p) /\ Unopened(p)
    BY <2>1 DEF ProcessInv, Roles, Epoch, BlankEpoch, Unopened, Stage
  <2> QED
    BY <1>3, <2>1, <2>2 DEF p
<1>6. net = {}
  BY DEF Init
<1>7. \A r \in Replica : ReplicaInv(r)
  <2> TAKE r \in Replica
  <2>1. Due(r) = {}
    BY <1>5, <1>6 DEF Due
  <2>2. Clean(r)
    BY <1>5, <2>1 DEF Clean
  <2>3. ~(r <= 0)
    BY CreateAssumption DEF Replica
  <2> QED
    BY <1>1, <1>4, <2>2, <2>3
    DEF ReplicaInv, Forward, PrimaryPhases, SecondaryPhases, Configuring
<1> QED
  BY <1>2, <1>3, <1>4, <1>5, <1>6, <1>7 DEF IInv, TypeInv

LEMMA DriveStep ==
    ASSUME IInv, Active, op.pending # NoAction, op.phase # "CreateFenceRouting",
           DriveAction(Observation)
    PROVE  IInv'
<1>1. TypeInv
  BY DEF IInv
<1>2. CASE ActionDone(Observation)
  BY <1>2, ActionDoneStep
<1>3. CASE SkipUnavailable(Observation) \/ ActionGivenUp(Observation) \/ ActionPoisons(Observation)
  BY <1>3, GivenUpStep
<1>4. CASE PublishLabel(Observation)
  <2>1. PICK l \in {"bootstrap", "primary", "secondary"} : pod' = [pod EXCEPT ![T].label = l]
    BY <1>4 DEF PublishLabel
  <2>2. T \in Replica
    BY <1>1 DEF TypeInv, OperationInv, PendingInv, T
  <2> QED
    BY <1>4, <2>1, <2>2, LabelStep DEF PublishLabel
<1>5. CASE DeletePod(Observation)
  BY <1>5, DeletePodStep
<1>6. CASE PlanDispatch(Observation)
  BY <1>6, PendingKept DEF PlanDispatch, Persist
<1>7. CASE DispatchAction(Observation)
  BY <1>7, DispatchStep
<1> QED
  BY <1>2, <1>3, <1>4, <1>5, <1>6, <1>7 DEF DriveAction

LEMMA AdvanceStep ==
    ASSUME IInv, Sound, Advance
    PROVE  IInv'
<1>1. OperationInv /\ ~stable /\ Active
  BY DEF IInv, TypeInv, OperationInv, Sound, Active, Terminal
<1>2. CASE op.pending = NoAction /\ Commit
  BY <1>2, CommitStep DEF Sound
<1>3. CASE op.pending = NoAction /\ Finalize
  BY <1>3, FinalizeStep
<1>4. CASE op.pending = NoAction /\ SkipRemove
  <2>1. /\ op.phase = "CreateCompensateRemoveCandidate"
        /\ op' = WithPhase("CreateCompensateDemoteCandidate")
        /\ UNCHANGED <<stable, rep, pod, net, hit>>
    BY <1>4 DEF SkipRemove, Persist
  <2> QED
    BY <1>1, <2>1, MoveStep
    DEF Phases, Forward, PrimaryPhases, SecondaryPhases, Configuring, Compensating, Routing,
        Unstarted
<1>5. CASE op.pending = NoAction /\ RestartCreation
  <2>1. /\ op.phase = "CreateCompensateFinalize" /\ op' = WithPhase("Failed")
        /\ UNCHANGED <<stable, rep, pod, net, hit>>
    BY <1>5 DEF RestartCreation, Persist
  <2>2. op.committed < N
    BY <1>1, <2>1, CreateAssumption DEF OperationInv, Compensating, Replica
  <2> QED
    BY <1>1, <2>1, <2>2, MoveStep
    DEF Phases, Forward, PrimaryPhases, SecondaryPhases, Configuring, Compensating, Routing,
        Unstarted
<1>6. CASE op.pending = NoAction /\ BeginAction
  BY <1>6, BeginActionStep
<1>7. CASE op.pending # NoAction /\ op.phase = "CreateFenceRouting" /\ Fencing
  BY <1>7, FencingStep
<1>8. CASE op.pending # NoAction /\ op.phase # "CreateFenceRouting" /\ DriveAction(Observation)
  BY <1>1, <1>8, DriveStep
<1> QED
  BY <1>2, <1>3, <1>4, <1>5, <1>6, <1>7, <1>8 DEF Advance

LEMMA Inductive ==
    ASSUME IInv, [Next]_vars
    PROVE  IInv'
<1>1. CASE UNCHANGED vars
  <2>1. \A r \in Replica \ hit : ReplicaInv(r)'
    <3> TAKE r \in Replica \ hit
    <3>1. ReplicaInv(r) /\ Due(r)' = Due(r)
      BY <1>1 DEF IInv, vars, Due, Fresh
    <3> QED
      BY <1>1, <3>1, ReplicaKept DEF vars, Alike
  <2>2. TypeInv'
    BY <1>1 DEF IInv, vars, TypeInv, OperationInv, PendingInv, RequestInv
  <2> QED
    BY <1>1, <2>1, <2>2 DEF IInv, vars
<1>2. CASE EnsurePods
  BY <1>2, EnsurePodsStep
<1>3. CASE StartCreate
  BY <1>3, StartCreateStep
<1>4. CASE FailClosed
  BY <1>4, FailureStep DEF FailClosed, Persist
<1>5. CASE Sound /\ CandidateLost
  BY <1>5, CandidateLostStep DEF Sound
<1>6. CASE Sound /\ Advance
  BY <1>6, AdvanceStep
<1>7. CASE DeadlinePasses
  BY <1>7, PendingKept DEF DeadlinePasses
<1>8. ASSUME NEW r \in Replica, Agent(r) \/ FailAction(r) \/ Faults(r) \/ Reconnect(r)
      PROVE  IInv'
  BY <1>8, HandleRequestStep, CompleteActionStep, FailActionStep, FaultStep, ReconnectStep
  DEF Agent, Faults
<1> QED
  BY <1>1, <1>2, <1>3, <1>4, <1>5, <1>6, <1>7, <1>8 DEF Next, Reconcile

LEMMA Invariance == Spec => []IInv
  BY InitInv, Inductive, PTL DEF Spec

\* A committed member that no fault has befallen keeps its pod, its process and
\* its role, whatever is retried, compensated or restarted around it.
THEOREM TheCommittedStay == Spec => []CommittedUntouched
<1>1. ASSUME IInv
      PROVE  CommittedUntouched
  <2> SUFFICES ASSUME NEW r \in (1..op.committed) \ hit
               PROVE  /\ pod[r].exists /\ Same(r) /\ rep[r].open
                      /\ Is(r, IF r = Primary THEN "Primary" ELSE "ActiveSecondary")
    BY DEF CommittedUntouched
  <2>1. r \in Replica \ hit /\ r <= op.committed
    BY <1>1, CreateAssumption DEF IInv, TypeInv, OperationInv, Replica
  <2>2. ReplicaInv(r)
    BY <1>1, <2>1 DEF IInv
  <2> QED
    BY <2>1, <2>2 DEF ReplicaInv, Settled, Leads, Serves, Stage, Is
<1> QED
  BY <1>1, Invariance, PTL

-----------------------------------------------------------------------------
(* The configurations of the primary.                                      *)

Configs == {a \in Due(Primary) : Configures(a.act)}
Currents == {a \in Due(Primary) : a.act.do = "Current"}

\* The committed members, with at most a candidate.
Fits(m) ==
    \/ m = Secondaries(op.committed)
    \/ \E p \in m : p[1] = op.committed + 1 /\ m = Secondaries(op.committed) \cup {p}

\* The candidate's configuration is installed by the pending action, whose
\* admission leaves nothing else to install.
Installing ==
    /\ \A a \in Currents : op.pending # NoAction /\ a.id = op.pending.id
    /\ rep[Primary].active # NoAction /\ rep[Primary].active.act.do = "Current" =>
          Configs \subseteq {rep[Primary].active}
    /\ rep[Primary].cfg = ConfigOf("Current", op.target) => Configs = {}

\* The committed configuration is restored by the pending action, though the
\* one with the candidate may still be due.
Restoring ==
    /\ \A a \in Currents : \/ a.act.members = Secondaries(op.target)
                           \/ op.pending # NoAction /\ a.id = op.pending.id
    /\ /\ rep[Primary].active # NoAction /\ rep[Primary].active.act.do = "Current"
       /\ rep[Primary].active.act.members = Secondaries(op.committed)
       => Currents \subseteq {rep[Primary].active}
    /\ rep[Primary].cfg = ConfigOf("Current", op.committed) => Currents = {}

\* No compensation goes on without the committed configuration.
Stuck ==
    /\ rep[Primary].cfg # ConfigOf("Current", op.committed)
    /\ \A a \in Currents : a.act.members = Secondaries(op.target)

PrimaryInv ==
    /\ rep[Primary].write = "Granted"
    /\ Fits(rep[Primary].cfg.members)
    /\ \A a \in Configs : Fits(a.act.members)
    /\ op.phase \in {"CreateCurrentConfiguration", "CreateCommitSecondary"} => Installing
    /\ op.phase = "CreateCurrentConfiguration" =>
          \A a \in Currents : a.act.members = Secondaries(op.target)
    /\ op.phase = "CreateCompensateRestoreConfiguration" => Restoring
    /\ op.phase \in Compensating \ {"CreateCompensateRestoreConfiguration"} =>
          Currents = {} \/ Stuck
    /\ op.phase \notin Compensating \cup {"Poisoned", "CreateCurrentConfiguration"} => Currents = {}
    /\ op.phase \in Routing => Configs = {}
    /\ op.phase = "Completed" => rep[Primary].cfg = ConfigOf("Current", N)

ConfigInv == op.committed >= 1 /\ Primary \notin hit => PrimaryInv

\* Labels: while routing is fenced, up to the index, and then until all members
\* are committed, no pod serves; a published partition has its labels.
LabelInv ==
    /\ op.phase = "CreateFenceRouting" =>
          \A r \in 1..op.index : pod[r].exists => pod[r].label = "bootstrap"
    /\ RoutedIsCommitted
    /\ stable => \A r \in Replica \ hit :
                    pod[r].label = IF r = Primary THEN "primary" ELSE "secondary"

-----------------------------------------------------------------------------
(* Labels.                                                                 *)

\* Pods keep their labels, or get the one of a new pod.
LEMMA LabelsKept ==
    ASSUME TypeInv, LabelInv, UNCHANGED stable, hit \subseteq hit',
           op'.phase = op.phase, op'.index = op.index, op'.committed = op.committed,
           \A r \in Replica : pod'[r].exists =>
              \/ pod'[r].label = "bootstrap"
              \/ pod[r].exists /\ pod'[r].label = pod[r].label,
           stable => \A r \in Replica \ hit' : pod'[r].label = pod[r].label
    PROVE  LabelInv'
<1>1. 1..op.index \subseteq Replica
  BY CreateAssumption DEF TypeInv, OperationInv, Replica
<1>2. RoutedIsCommitted'
  BY DEF LabelInv, RoutedIsCommitted, Active
<1> QED
  BY <1>1, <1>2 DEF LabelInv

\* The operation ends, or goes on behind the fence.
LEMMA LabelsMoved ==
    ASSUME LabelInv, UNCHANGED pod, ~stable', op.committed \in Nat,
           \/ op'.phase \in Terminal
           \/ /\ Active /\ op.phase # "CreateFenceRouting" /\ op'.phase # "CreateFenceRouting"
              /\ op'.committed \in Nat /\ op'.committed >= op.committed
    PROVE  LabelInv'
<1>1. op'.phase # "CreateFenceRouting"
  BY DEF Terminal
<1>2. RoutedIsCommitted'
  BY CreateAssumption DEF LabelInv, RoutedIsCommitted, Active
<1> QED
  BY <1>1, <1>2 DEF LabelInv

\* The operation leaves its phase.
LEMMA LabelsLeft ==
    ASSUME TypeInv, LabelInv, Active, UNCHANGED <<pod, stable>>, NEW phase, op' = WithPhase(phase),
           \/ phase \in Terminal
           \/ op.phase # "CreateFenceRouting" /\ phase # "CreateFenceRouting"
    PROVE  LabelInv'
<1>1. Moved(op, op', phase) /\ op.committed \in Nat /\ ~stable
  BY WithPhaseIs DEF TypeInv, OperationInv, Active, Terminal
<1> QED
  BY <1>1, LabelsMoved DEF Moved

LEMMA LabelsFenced ==
    ASSUME TypeInv, LabelInv, op.phase = "CreateFenceRouting", Fencing
    PROVE  LabelInv'
<1>1. OperationInv /\ Active /\ ~stable /\ N \in Nat /\ N >= 1
  BY CreateAssumption DEF TypeInv, OperationInv, Active, Terminal
<1>2. F \in Replica /\ op.index \in Nat /\ F = op.index + 1
  BY <1>1 DEF OperationInv, F, Replica
<1>3. CASE FenceDone
  <2>1. /\ pod[F].label = "bootstrap" /\ UNCHANGED <<stable, pod, hit>>
        /\ \/ F = N /\ op' = NextMember(op.committed)
           \/ F # N /\ op' = [WithPhase(op.phase) EXCEPT !.index = @ + 1]
    BY <1>3 DEF FenceDone, Persist
  <2>2. \A r \in 1..F : pod[r].exists => pod[r].label = "bootstrap"
    BY <1>1, <1>2, <2>1 DEF LabelInv
  <2>3. CASE F = N /\ op' = NextMember(op.committed)
    <3>1. op'.phase # "CreateFenceRouting"
      BY <1>1, <2>3, NextMemberIs DEF OperationInv
    <3>2. RoutedIsCommitted'
      BY <2>1, <2>2, <2>3 DEF RoutedIsCommitted, Replica
    <3> QED
      BY <1>1, <2>1, <3>1, <3>2 DEF LabelInv
  <2>4. CASE F # N /\ op' = [WithPhase(op.phase) EXCEPT !.index = @ + 1]
    <3> DEFINE w == WithPhase(op.phase)
    <3>1. Moved(op, w, op.phase)
      BY <1>1, WithPhaseIs DEF OperationInv
    <3>2. op' = [w EXCEPT !.index = w.index + 1]
      BY <2>4
    <3> HIDE DEF w
    <3>3. op'.phase = op.phase /\ op'.index = F
      BY <1>2, <3>1, <3>2 DEF Moved, IsRecord, OperationFields
    <3> QED
      BY <1>1, <2>1, <2>2, <3>3 DEF LabelInv, RoutedIsCommitted
  <2> QED
    BY <2>1, <2>3, <2>4
<1>4. CASE FenceGivenUp
  <2>1. UNCHANGED <<stable, pod>> /\ (op' = WithPhase("Poisoned") \/ op' = WithPhase("Failed"))
    BY <1>4 DEF FenceGivenUp, Persist, RestartOrPoison
  <2> QED
    BY <1>1, <2>1, LabelsLeft DEF Terminal
<1>5. CASE FenceLabel
  <2>1. UNCHANGED <<op, stable, hit>> /\ pod' = [pod EXCEPT ![F].label = "bootstrap"]
    BY <1>5 DEF FenceLabel
  <2>2. /\ \A s \in Replica : s # F => pod'[s] = pod[s]
        /\ pod'[F].label = "bootstrap"
    BY <1>2, <2>1 DEF TypeInv, IsRecord, PodInv, PodFields
  <2>3. \A s \in Replica : pod'[s].exists => \/ pod'[s].label = "bootstrap"
                                             \/ pod[s].exists /\ pod'[s].label = pod[s].label
    BY <2>2
  <2> QED
    BY <1>1, <2>1, <2>3, LabelsKept
<1> QED
  BY <1>3, <1>4, <1>5 DEF Fencing

LEMMA LabelsDriven ==
    ASSUME TypeInv, LabelInv, Active, op.pending # NoAction, op.phase # "CreateFenceRouting",
           DriveAction(Observation)
    PROVE  LabelInv'
<1>1. OperationInv /\ ~stable /\ T \in Replica /\ op.committed \in Nat /\ op.phase \in Acting
  BY DEF TypeInv, OperationInv, PendingInv, Active, Terminal, T
<1>2. CASE ActionDone(Observation)
  <2>1. /\ UNCHANGED <<stable, pod>>
        /\ \/ op.phase # "CreatePublishRouting" /\ op' = WithPhase(After[op.phase])
           \/ op.phase = "CreatePublishRouting" /\ op' = WithPhase("CreateFinalize")
           \/ op.phase = "CreatePublishRouting" /\ op' = [WithPhase(op.phase) EXCEPT !.index = @ + 1]
    BY <1>2 DEF ActionDone, Persist
  <2>2. CASE op.phase # "CreatePublishRouting" /\ op' = WithPhase(After[op.phase])
    <3>1. op.phase \in DOMAIN After
      BY <1>1, <2>2 DEF Acting, Labelling
    <3>2. After[op.phase] # "CreateFenceRouting"
      BY <3>1, AfterIs
      DEF AfterFacts, Forward, PrimaryPhases, SecondaryPhases, Configuring, Compensating
    <3> QED
      BY <2>1, <2>2, <3>2, LabelsLeft
  <2>3. CASE op' = WithPhase("CreateFinalize")
    BY <2>1, <2>3, LabelsLeft
  <2>4. CASE /\ op.phase = "CreatePublishRouting"
             /\ op' = [WithPhase(op.phase) EXCEPT !.index = @ + 1]
    <3> DEFINE w == WithPhase(op.phase)
    <3>1. Moved(op, w, op.phase)
      BY <1>1, WithPhaseIs DEF OperationInv
    <3>2. op' = [w EXCEPT !.index = w.index + 1]
      BY <2>4
    <3> HIDE DEF w
    <3>3. op'.phase = op.phase /\ op'.committed = op.committed
      BY <3>1, <3>2 DEF Moved, IsRecord, OperationFields
    <3> QED
      BY <1>1, <2>1, <3>3, LabelsMoved
  <2> QED
    BY <2>1, <2>2, <2>3, <2>4
<1>3. CASE SkipUnavailable(Observation)
  <2>1. /\ UNCHANGED <<stable, pod>> /\ op' = WithPhase(After[op.phase])
        /\ op.phase \in {"CreateCompensateDemoteCandidate", "CreateCompensateCloseCandidate"}
    BY <1>3 DEF SkipUnavailable, Persist, Skippable
  <2>2. After[op.phase] # "CreateFenceRouting"
    BY <2>1, AfterIs DEF AfterFacts
  <2> QED
    BY <2>1, <2>2, LabelsLeft
<1>4. CASE ActionGivenUp(Observation) \/ ActionPoisons(Observation)
  BY <1>4, LabelsLeft DEF ActionGivenUp, ActionPoisons, Persist, OnFailure
<1>5. CASE PublishLabel(Observation)
  <2>1. op.phase = "CreatePublishRouting" /\ UNCHANGED <<op, stable, hit>>
    BY <1>5 DEF PublishLabel
  <2>2. op.committed = N
    BY <1>1, <2>1 DEF OperationInv, Routing
  <2> QED
    BY <1>1, <2>1, <2>2, CreateAssumption DEF LabelInv, RoutedIsCommitted
<1>6. CASE DeletePod(Observation)
  <2>1. UNCHANGED <<op, stable, hit>> /\ pod' = [pod EXCEPT ![T].exists = FALSE]
    BY <1>6 DEF DeletePod
  <2>2. /\ \A s \in Replica : s # T => pod'[s] = pod[s]
        /\ ~pod'[T].exists
    BY <1>1, <2>1 DEF TypeInv, IsRecord, PodInv, PodFields
  <2> QED
    BY <1>1, <2>1, <2>2, LabelsKept
<1>7. CASE PlanDispatch(Observation)
  <2>1. UNCHANGED <<stable, pod, hit>>
        /\ op' = [op EXCEPT !.pending = [op.pending EXCEPT !.fences = Fences(P)]]
    BY <1>7 DEF PlanDispatch, Persist
  <2> DEFINE pending == [op.pending EXCEPT !.fences = Fences(P)]
  <2> HIDE DEF pending
  <2>2. op'.phase = op.phase /\ op'.index = op.index /\ op'.committed = op.committed
    BY <1>1, <2>1 DEF OperationInv, IsRecord, OperationFields, pending
  <2> QED
    BY <2>1, <2>2, LabelsKept
<1>8. CASE DispatchAction(Observation)
  BY <1>8, LabelsKept DEF DispatchAction
<1> QED
  BY <1>2, <1>3, <1>4, <1>5, <1>6, <1>7, <1>8 DEF DriveAction

LEMMA LabelsAdvanced ==
    ASSUME TypeInv, LabelInv, Active, Advance
    PROVE  LabelInv'
<1>1. OperationInv /\ ~stable /\ op.committed \in Nat
  BY DEF TypeInv, OperationInv, Active, Terminal
<1>2. CASE Commit
  <2>1. /\ op.phase \in {"CreateCommitPrimary", "CreateCommitSecondary"}
        /\ UNCHANGED <<stable, pod>>
        /\ \/ op' = WithPhase("Poisoned")
           \/ op' = NextMember(op.target)
           \/ op' = [WithPhase("Failed") EXCEPT !.committed = op.target]
    BY <1>2 DEF Commit, Persist
  <2>2. op.target \in 0..N /\ op.target = op.committed + 1
    BY <1>1, <2>1 DEF OperationInv, Forward, PrimaryPhases, SecondaryPhases, Replica
  <2>3. CASE op' = WithPhase("Poisoned")
    BY <2>1, <2>3, LabelsLeft DEF Terminal
  <2>4. CASE op' = NextMember(op.target)
    <3>1. op'.committed = op.target /\ op'.phase # "CreateFenceRouting"
      BY <1>1, <2>2, <2>4, NextMemberIs DEF OperationInv
    <3> QED
      BY <1>1, <2>1, <2>2, <3>1, LabelsMoved
  <2>5. CASE op' = [WithPhase("Failed") EXCEPT !.committed = op.target]
    <3> DEFINE w == WithPhase("Failed")
    <3>1. Moved(op, w, "Failed") /\ op' = [w EXCEPT !.committed = op.target]
      BY <1>1, <2>5, WithPhaseIs DEF OperationInv
    <3> HIDE DEF w
    <3>2. op'.phase = "Failed"
      BY <3>1 DEF Moved, IsRecord, OperationFields
    <3> QED
      BY <1>1, <2>1, <3>2, LabelsMoved DEF Terminal
  <2> QED
    BY <2>1, <2>3, <2>4, <2>5
<1>3. CASE Finalize
  <2>1. /\ UNCHANGED <<pod, hit>> /\ op' = WithPhase("Completed")
        /\ \A r \in Replica : pod[r].label = IF r = Primary THEN "primary" ELSE "secondary"
    BY <1>3 DEF Finalize
  <2>2. op'.phase = "Completed"
    BY <1>1, <2>1, WithPhaseIs DEF OperationInv, Moved
  <2> QED
    BY <2>1, <2>2 DEF LabelInv, RoutedIsCommitted, Active, Terminal
<1>4. CASE SkipRemove \/ RestartCreation
  BY <1>4, LabelsLeft DEF SkipRemove, RestartCreation, Persist, Terminal
<1>5. CASE BeginAction
  <2> DEFINE pending == [id |-> ActionId, target |-> TargetOf, fences |-> << >>]
  <2>1. UNCHANGED <<stable, pod, hit>> /\ op' = [op EXCEPT !.late = FALSE, !.pending = pending]
    BY <1>5 DEF BeginAction, Persist
  <2> HIDE DEF pending
  <2>2. op'.phase = op.phase /\ op'.index = op.index /\ op'.committed = op.committed
    BY <1>1, <2>1 DEF OperationInv, IsRecord, OperationFields
  <2> QED
    BY <2>1, <2>2, LabelsKept
<1>6. CASE op.phase = "CreateFenceRouting" /\ Fencing
  BY <1>6, LabelsFenced
<1>7. CASE op.pending # NoAction /\ op.phase # "CreateFenceRouting" /\ DriveAction(Observation)
  BY <1>7, LabelsDriven
<1> QED
  BY <1>2, <1>3, <1>4, <1>5, <1>6, <1>7 DEF Advance

LEMMA LabelsInductive ==
    ASSUME TypeInv, LabelInv, [Next]_vars
    PROVE  LabelInv'
<1>1. OperationInv /\ op.committed \in Nat /\ IsRecord(pod, Replica)
      /\ \A r \in Replica : PodInv(pod[r])
  BY DEF TypeInv, OperationInv
<1>2. CASE UNCHANGED <<op, stable, pod>> /\ hit \subseteq hit'
  BY <1>2, LabelsKept
<1>3. CASE EnsurePods
  <2>1. /\ op.phase \in {"None", "Failed"} /\ UNCHANGED <<op, stable, hit>>
        /\ \A r \in Replica : IF pod[r].exists THEN pod'[r] = pod[r] ELSE pod'[r].label = "bootstrap"
    BY <1>3 DEF EnsurePods
  <2>2. ~stable
    BY <1>1, <2>1 DEF OperationInv
  <2> QED
    BY <2>1, <2>2, LabelsKept
<1>4. CASE StartCreate
  <2>1. /\ op'.phase = "CreateFenceRouting" /\ op'.index = 0 /\ UNCHANGED <<stable, pod>>
        /\ op.phase \in {"None", "Failed"}
    BY <1>4 DEF StartCreate
  <2>2. ~stable
    BY <1>1, <2>1 DEF OperationInv
  <2> QED
    BY <2>1, <2>2 DEF LabelInv, RoutedIsCommitted
<1>5. CASE FailClosed
  BY <1>5, LabelsLeft DEF FailClosed, Persist, Terminal
<1>6. CASE Sound /\ CandidateLost
  <2>1. /\ Active /\ op.phase # "CreateFenceRouting" /\ UNCHANGED <<stable, pod>>
        /\ op' = WithPhase(OnFailure)
    BY <1>6 DEF Sound, CandidateLost, CandidateChanged, Persist, Labelling
  <2> QED
    BY <2>1, LabelsLeft DEF OnFailure
<1>7. CASE Sound /\ Advance
  BY <1>7, LabelsAdvanced DEF Sound
<1>8. CASE DeadlinePasses
  <2>1. UNCHANGED <<stable, pod, hit>> /\ op' = [op EXCEPT !.late = TRUE]
    BY <1>8 DEF DeadlinePasses
  <2>2. op'.phase = op.phase /\ op'.index = op.index /\ op'.committed = op.committed
    BY <1>1, <2>1 DEF OperationInv, IsRecord, OperationFields
  <2> QED
    BY <2>1, <2>2, LabelsKept
<1>9. ASSUME NEW r \in Replica, Agent(r) \/ FailAction(r) \/ Faults(r) \/ Reconnect(r)
      PROVE  LabelInv'
  <2>1. CASE Agent(r) \/ FailAction(r)
    BY <1>2, <2>1 DEF Agent, HandleRequest, CompleteAction, FailAction
  <2>2. CASE RestartContainer(r)
    BY <1>2, <2>2 DEF RestartContainer, Fault
  <2>3. CASE Disconnect(r) \/ LosePod(r) \/ ReplacePod(r) \/ Reconnect(r)
    <3>1. /\ UNCHANGED <<op, stable>> /\ hit \subseteq hit'
          /\ \/ pod' = [pod EXCEPT ![r].up = FALSE]
             \/ pod' = [pod EXCEPT ![r].up = TRUE]
             \/ pod' = [pod EXCEPT ![r].exists = FALSE]
             \/ pod' = [pod EXCEPT ![r].label = "bootstrap"] /\ r \in hit'
      BY <2>3 DEF Disconnect, LosePod, ReplacePod, Reconnect, Fault
    <3>2. \A s \in Replica : s # r => pod'[s] = pod[s]
      BY <1>1, <3>1 DEF IsRecord
    <3>3. /\ pod'[r].exists => \/ pod'[r].label = "bootstrap"
                               \/ pod[r].exists /\ pod'[r].label = pod[r].label
          /\ r \notin hit' => pod'[r].label = pod[r].label
      BY <1>1, <3>1 DEF IsRecord, PodInv, PodFields
    <3> QED
      BY <3>1, <3>2, <3>3, LabelsKept
  <2> QED
    BY <1>9, <2>1, <2>2, <2>3 DEF Faults
<1>10. CASE UNCHANGED vars
  BY <1>2, <1>10 DEF vars
<1> QED
  BY <1>3, <1>4, <1>5, <1>6, <1>7, <1>8, <1>9, <1>10 DEF Next, Reconcile

LEMMA LabelInvariance == Spec => []LabelInv
<1>1. Init => LabelInv
  BY DEF Init, LabelInv, RoutedIsCommitted, Active, Terminal
<1>2. LabelInv /\ IInv /\ [Next]_vars => LabelInv'
  BY LabelsInductive DEF IInv
<1> QED
  BY <1>1, <1>2, Invariance, PTL DEF Spec

-----------------------------------------------------------------------------
(* What becomes of the primary's configuration.                            *)

LEMMA SecondariesGrow ==
    ASSUME op.committed \in Nat, op.committed >= 1, op.target = op.committed + 1
    PROVE  /\ Secondaries(op.target) # Secondaries(op.committed)
           /\ Fits(Secondaries(op.target)) /\ Fits(Secondaries(op.committed))
<1> DEFINE p == <<op.target, op.insts[op.target]>>
<1>1. 2..op.target = 2..op.committed \cup {op.target}
  OBVIOUS
<1>2. Secondaries(op.target) = Secondaries(op.committed) \cup {p}
  BY <1>1 DEF Secondaries
<1>3. p \notin Secondaries(op.committed)
  BY DEF Secondaries
<1>4. p[1] = op.committed + 1
  OBVIOUS
<1> HIDE DEF p
<1> QED
  BY <1>2, <1>3, <1>4 DEF Fits

\* The operation is the same as far as configurations go.
SameOperation ==
    /\ op'.phase = op.phase /\ op'.committed = op.committed /\ op'.insts = op.insts
    /\ op'.target = op.target
    /\ \/ op.pending = NoAction \/ op.phase \in Labelling
       \/ op'.pending # NoAction /\ op'.pending.id = op.pending.id

LEMMA ConfigKept ==
    ASSUME ConfigInv, SameOperation, hit \subseteq hit',
           op.committed >= 1 /\ Primary \notin hit' =>
              /\ rep'[Primary].cfg = rep[Primary].cfg /\ rep'[Primary].write = rep[Primary].write
              /\ Configs' \subseteq Configs
              /\ \/ rep'[Primary].active \in {rep[Primary].active, NoAction}
                 \/ Configs' \subseteq {rep'[Primary].active}
    PROVE  ConfigInv'
<1> SUFFICES ASSUME op.committed >= 1, Primary \notin hit'
             PROVE  PrimaryInv'
  BY DEF ConfigInv, SameOperation
<1>1. PrimaryInv
  BY DEF ConfigInv
<1>2. /\ \A k : Secondaries(k)' = Secondaries(k)
      /\ \A k, mode : ConfigOf(mode, k)' = ConfigOf(mode, k)
      /\ \A m : Fits(m)' <=> Fits(m)
  BY DEF SameOperation, Secondaries, ConfigOf, Fits
<1>3. Configs' \subseteq Configs /\ Currents' \subseteq Currents /\ Currents' \subseteq Configs'
  BY DEF Configs, Currents, Configures
<1>4. Installing /\ op.phase \notin Labelling => Installing'
  BY <1>2, <1>3 DEF Installing, SameOperation
<1>5. Restoring /\ op.phase \notin Labelling => Restoring'
  BY <1>2, <1>3 DEF Restoring, SameOperation
<1>6. Stuck => Stuck'
  BY <1>2, <1>3 DEF Stuck, SameOperation
<1>7. {"CreateCurrentConfiguration", "CreateCommitSecondary",
       "CreateCompensateRestoreConfiguration"} \cap Labelling = {}
  BY DEF Labelling
<1> QED
  BY <1>1, <1>2, <1>3, <1>4, <1>5, <1>6, <1>7 DEF PrimaryInv, SameOperation

\* The primary's action ends.
LEMMA ConfigEnds ==
    ASSUME IInv, ConfigInv, UNCHANGED <<op, net, hit>>, NEW e, NEW state,
           Ends(rep[Primary], e, state, rep'[Primary])
    PROVE  ConfigInv'
<1> SUFFICES ASSUME op.committed >= 1, Primary \notin hit
             PROVE  ConfigInv'
  BY DEF ConfigInv
<1> DEFINE p == rep[Primary]
           p2 == rep'[Primary]
           act == rep[Primary].active.act
<1>1. TypeInv /\ OperationInv /\ Primary \in Replica /\ ProcessInv(p) /\ PrimaryInv
  BY CreateAssumption DEF IInv, TypeInv, Primary, Replica, ConfigInv
<1>2. Settled(Primary) /\ op.committed \in Nat
  BY <1>1 DEF IInv, ReplicaInv, Primary, OperationInv
<1>3. /\ p.active \in Due(Primary) /\ p.active # NoAction
      /\ \A a \in Due(Primary)' : a \in Due(Primary) /\ a.id # p.active.id
  BY <1>1, DueEnds DEF Ends
<1>4. act.do \in {"CatchUp", "Current", "Build", "Wait", "Remove"} /\ p.role = "Primary"
  BY <1>2, <1>3 DEF Settled, Leads, Stage
<1>5. /\ RecordedFacts(e, p.active.id, state, p2) /\ state \in {"Completed", "Failed"}
      /\ state = "Completed" => EffectFacts(p, act, e)
      /\ state = "Failed" => ResidueFacts(p, act, e)
  BY <1>1, EndFacts DEF Ends
<1>6. /\ Configs' \subseteq Configs /\ Currents' \subseteq Currents /\ Currents' \subseteq Configs'
      /\ p.active \notin Configs'
  BY <1>3 DEF Configs, Currents, Configures
<1>7. CASE state = "Failed" \/ act.do \in {"Build", "Wait", "Remove"}
  <2>1. p2.cfg = p.cfg /\ p2.write = p.write /\ p2.active = NoAction
    BY <1>4, <1>5, <1>7 DEF RecordedFacts, EffectFacts, ResidueFacts, Configures
  <2>2. SameOperation
    BY DEF SameOperation
  <2> QED
    BY <1>6, <2>1, <2>2, ConfigKept
<1>8. CASE state = "Completed" /\ act.do \in {"CatchUp", "Current"}
  <2>1. /\ p2.cfg = [mode |-> act.do, members |-> act.members] /\ p2.write = "Granted"
        /\ p2.active = NoAction
    BY <1>4, <1>5, <1>8 DEF RecordedFacts, EffectFacts, Configures
  <2>2. p2.cfg.members = act.members
    BY <2>1
  <2>3. p.active \in Configs /\ (act.do = "Current" => p.active \in Currents)
    BY <1>3, <1>8 DEF Configs, Currents, Configures
  <2>4. Fits(act.members)
    BY <1>1, <2>3 DEF PrimaryInv
  <2>5. /\ \A k : Secondaries(k)' = Secondaries(k)
        /\ \A k, mode : ConfigOf(mode, k)' = ConfigOf(mode, k)
        /\ \A m : Fits(m)' <=> Fits(m)
    BY DEF Secondaries, ConfigOf, Fits
  <2>6. \A k : p2.cfg = ConfigOf("Current", k) => act.do = "Current" /\ act.members = Secondaries(k)
    <3> TAKE k
    <3>1. ConfigOf("Current", k).mode = "Current" /\ ConfigOf("Current", k).members = Secondaries(k)
      BY DEF ConfigOf
    <3>2. p2.cfg.mode = act.do
      BY <2>1
    <3> QED
      BY <2>2, <3>1, <3>2
  <2>7. op.phase \notin Routing
    BY <1>1, <2>3 DEF PrimaryInv
  <2>8. act.do = "Current" => op.phase \in Compensating \cup {"Poisoned", "CreateCurrentConfiguration"}
    BY <1>1, <2>3 DEF PrimaryInv
  <2>9. op.phase \in {"CreateCurrentConfiguration", "CreateCommitSecondary"} => Installing'
    <3> SUFFICES ASSUME op.phase \in {"CreateCurrentConfiguration", "CreateCommitSecondary"}
                 PROVE  Installing'
      OBVIOUS
    <3>1. Installing
      BY <1>1 DEF PrimaryInv
    <3>2. \A a \in Currents' : op.pending # NoAction /\ a.id = op.pending.id
      BY <1>6, <3>1 DEF Installing
    <3>3. act.do = "Current" => Configs' = {}
      BY <1>3, <1>6, <3>1 DEF Installing
    <3>4. p2.cfg = ConfigOf("Current", op.target) => Configs' = {}
      BY <2>6, <3>3
    <3> QED
      BY <2>1, <2>5, <3>2, <3>4 DEF Installing
  <2>10. op.phase = "CreateCompensateRestoreConfiguration" => Restoring'
    <3> SUFFICES ASSUME op.phase = "CreateCompensateRestoreConfiguration"
                 PROVE  Restoring'
      OBVIOUS
    <3>1. Restoring
      BY <1>1 DEF PrimaryInv
    <3>2. \A a \in Currents' : \/ a.act.members = Secondaries(op.target)
                               \/ op.pending # NoAction /\ a.id = op.pending.id
      BY <1>6, <3>1 DEF Restoring
    <3>3. act.do = "Current" /\ act.members = Secondaries(op.committed) => Currents' = {}
      BY <1>3, <1>6, <3>1 DEF Restoring
    <3>4. p2.cfg = ConfigOf("Current", op.committed) => Currents' = {}
      BY <2>6, <3>3
    <3> QED
      BY <2>1, <2>5, <3>2, <3>4 DEF Restoring
  <2>11. op.phase \in Compensating \ {"CreateCompensateRestoreConfiguration"} =>
            Currents' = {} \/ Stuck'
    <3> SUFFICES ASSUME op.phase \in Compensating \ {"CreateCompensateRestoreConfiguration"},
                        Currents' # {}
                 PROVE  Stuck'
      OBVIOUS
    <3>1. Stuck
      BY <1>1, <1>6 DEF PrimaryInv
    <3>2. Secondaries(op.target) # Secondaries(op.committed)
      BY <1>1, <1>2, SecondariesGrow DEF OperationInv
    <3>3. act.do = "Current" => act.members = Secondaries(op.target)
      BY <2>3, <3>1 DEF Stuck
    <3>4. p2.cfg # ConfigOf("Current", op.committed)
      BY <2>6, <3>2, <3>3
    <3> QED
      BY <1>6, <2>5, <3>1, <3>4 DEF Stuck
  <2>12. "Completed" \in Routing
    BY DEF Routing
  <2> QED
    BY <1>1, <1>6, <2>1, <2>2, <2>4, <2>5, <2>7, <2>9, <2>10, <2>11, <2>12
    DEF ConfigInv, PrimaryInv
<1> QED
  BY <1>4, <1>5, <1>7, <1>8

\* The operation moves to a phase that asks for no configuration to be due.
LEMMA ConfigQuiet ==
    ASSUME ConfigInv, UNCHANGED <<rep, net, hit>>, op.committed \in Nat,
           op'.committed = op.committed, \A r \in 2..op.committed : op'.insts[r] = op.insts[r],
           \/ op'.phase = "Poisoned"
           \/ /\ op.committed >= 1 /\ Primary \notin hit => Currents = {}
              /\ op'.phase \notin Routing \cup {"CreateCurrentConfiguration", "CreateCommitSecondary"}
    PROVE  ConfigInv'
<1> SUFFICES ASSUME op.committed >= 1, Primary \notin hit
             PROVE  PrimaryInv'
  BY DEF ConfigInv
<1>1. PrimaryInv
  BY DEF ConfigInv
<1>2. Due(Primary)' = Due(Primary)
  BY DEF Due, Fresh
<1>3. Configs' = Configs /\ Currents' = Currents
  BY <1>2 DEF Configs, Currents
<1>4. Secondaries(op.committed)' = Secondaries(op.committed)
  BY DEF Secondaries
<1>5. \A m : Fits(m)' <=> Fits(m)
  BY <1>4 DEF Fits
<1>6. Currents = {} => Restoring'
  <2> SUFFICES ASSUME Currents = {} PROVE Restoring'
    OBVIOUS
  <2>1. rep[Primary].active # NoAction => rep[Primary].active \in Due(Primary)
    BY DEF Due
  <2> QED
    BY <1>3, <2>1 DEF Restoring, Currents
<1>7. CASE op'.phase = "Poisoned"
  BY <1>1, <1>3, <1>5, <1>7 DEF PrimaryInv, Compensating, Routing
<1>8. CASE /\ Currents = {}
           /\ op'.phase \notin Routing \cup {"CreateCurrentConfiguration", "CreateCommitSecondary"}
  BY <1>1, <1>3, <1>5, <1>6, <1>8 DEF PrimaryInv, Routing
<1> QED
  BY <1>7, <1>8

\* The configurations that validate_committed_observations admits.
ExpectedFacts ==
    /\ op.phase = "CreateWaitForCatchUpQuorum" => Expected = {ConfigOf("CatchUp", op.target)}
    /\ op.phase \in {"CreateCurrentConfiguration", "CreateCommitSecondary"} =>
          Expected = {ConfigOf("CatchUp", op.target), ConfigOf("Current", op.target)}
    /\ op.phase \in {"CreatePublishRouting", "CreateFinalize"} => Expected = {ConfigOf("Current", N)}
    /\ op.phase \in Compensating \ {"CreateCompensateRestoreConfiguration"} =>
          Expected = {ConfigOf("Current", op.committed)}

LEMMA ExpectedIs == ExpectedFacts
<1>1. op.phase = "CreateWaitForCatchUpQuorum" => Expected = {ConfigOf("CatchUp", op.target)}
  BY Zenon DEF Expected
<1>2. op.phase \in {"CreateCurrentConfiguration", "CreateCommitSecondary"} =>
         Expected = {ConfigOf("CatchUp", op.target), ConfigOf("Current", op.target)}
  BY Zenon DEF Expected
<1>3. op.phase \in {"CreatePublishRouting", "CreateFinalize"} => Expected = {ConfigOf("Current", N)}
  BY Zenon DEF Expected
<1>4. op.phase \in Compensating \ {"CreateCompensateRestoreConfiguration"} =>
         Expected = {ConfigOf("Current", op.committed)}
  BY Zenon DEF Expected, Compensating
<1> QED
  BY <1>1, <1>2, <1>3, <1>4, Zenon DEF ExpectedFacts

\* What is due at the primary while its process and the requests are the same.
LEMMA ConfigsSame ==
    ASSUME UNCHANGED <<rep, net>>
    PROVE  /\ Configs' = Configs /\ Currents' = Currents /\ Currents \subseteq Configs
           /\ rep[Primary].active # NoAction => rep[Primary].active \in Due(Primary)
           /\ Currents = {} => rep[Primary].active = NoAction \/ rep[Primary].active.act.do # "Current"
  BY DEF Configs, Currents, Due, Fresh, Configures

LEMMA ConfigDispatch ==
    ASSUME IInv, ConfigInv, op.pending # NoAction, DispatchAction(Observation)
    PROVE  ConfigInv'
<1>1. TypeInv /\ OperationInv /\ Primary \in Replica
  BY CreateAssumption DEF IInv, TypeInv, Primary, Replica
<1>2. /\ Observation = "Precondition" /\ Constructible /\ op.phase \notin Labelling
      /\ op.phase # "CreateCompensateDeleteCandidate"
      /\ UNCHANGED <<op, stable, rep, pod, hit>>
      /\ \A r \in Replica : r # T => Due(r)' = Due(r)
      /\ Due(T)' \subseteq Due(T) \cup {[id |-> op.pending.id, act |-> ActionFor]}
  BY <1>1, DispatchFacts
<1> SUFFICES ASSUME op.committed >= 1, Primary \notin hit
             PROVE  ConfigInv'
  BY <1>2 DEF ConfigInv
<1>3. /\ T = IF op.phase \in AtPrimary THEN Primary ELSE op.target
      /\ op.target = op.committed + 1 /\ op.committed \in Nat /\ op.phase \in DOMAIN After
      /\ P = rep[T] /\ ProcessInv(P)
  BY <1>1, <1>2, TargetIs
<1>4. PrimaryInv /\ Settled(Primary) /\ ActionFacts /\ SameOperation
  BY <1>1, <1>2, <1>3, ActionIs DEF ConfigInv, IInv, ReplicaInv, Primary, SameOperation
<1>5. CASE op.phase \notin AtPrimary
  <2>1. T # Primary
    BY <1>3, <1>5 DEF Primary
  <2>2. Configs' = Configs
    BY <1>1, <1>2, <2>1 DEF Configs
  <2> QED
    BY <1>2, <1>4, <2>2, ConfigKept
<1>6. CASE op.phase \in AtPrimary
  <2>1. T = Primary /\ P = rep[Primary]
    BY <1>3, <1>6
  <2>2. \A a \in Due(Primary)' :
           a \in Due(Primary) \/ (a.id = op.pending.id /\ a.act = ActionFor)
    <3>1. \A r : r = T => Due(r)' \subseteq Due(r) \cup {[id |-> op.pending.id, act |-> ActionFor]}
      BY <1>2 DEF T
    <3>2. Due(Primary)' \subseteq Due(Primary) \cup {[id |-> op.pending.id, act |-> ActionFor]}
      BY <2>1, <3>1 DEF Primary
    <3> QED
      BY <3>2
  <2>3. /\ DirectObservation = "Precondition" /\ DirectFacts
        /\ Record(P, op.pending.id) = "none" /\ (P.active # NoAction => P.active.id # op.pending.id)
    BY <1>1, <1>2, <1>3, ObservationIs, DirectIs, RecordIs
  <2>4. Is(T, "Primary")
    BY <1>4, <2>1 DEF Settled, Leads, Stage, Is
  <2>5. /\ Secondaries(op.target) # Secondaries(op.committed)
        /\ Fits(Secondaries(op.target)) /\ Fits(Secondaries(op.committed))
    BY <1>3, SecondariesGrow
  <2>6. /\ \A k : Secondaries(k)' = Secondaries(k)
        /\ \A k, mode : ConfigOf(mode, k)' = ConfigOf(mode, k)
        /\ \A m : Fits(m)' <=> Fits(m)
    BY <1>2 DEF Secondaries, ConfigOf, Fits
  <2>7. op.phase \notin Routing
    BY <1>6 DEF AtPrimary, Configuring, Routing
  <2>8. P.active # NoAction => P.active \in Due(Primary)
    BY <2>1 DEF Due
  <2>9. CASE op.phase \in {"CreateBuildSecondary", "CreateWaitForCatchUpQuorum",
                           "CreateCompensateRemoveCandidate"}
    <3>1. ActionFor.do \in {"Build", "Wait", "Remove"}
      BY <1>4, <2>9 DEF ActionFacts
    <3>2. Configs' \subseteq Configs
      BY <2>2, <3>1 DEF Configs, Configures
    <3> QED
      BY <1>2, <1>4, <3>2, ConfigKept
  <2>10. CASE op.phase = "CreateCatchUpConfiguration"
    <3>1. ActionFor.do = "CatchUp" /\ ActionFor.members = Secondaries(op.target)
      BY <1>4, <2>10 DEF ActionFacts
    <3>2. Currents' \subseteq Currents
      BY <2>2, <3>1 DEF Currents
    <3>3. \A a \in Configs' : Fits(a.act.members)
      BY <1>4, <2>2, <2>5, <3>1 DEF Configs, PrimaryInv
    <3> QED
      BY <1>2, <1>4, <2>6, <2>7, <2>10, <3>2, <3>3 DEF ConfigInv, PrimaryInv, Routing, Compensating
  <2>11. CASE op.phase \in {"CreatePrimaryCurrentConfiguration", "CreateCurrentConfiguration"}
    <3>1. ActionFor.do = "Current" /\ ActionFor.members = Secondaries(op.target)
      BY <1>4, <2>11 DEF ActionFacts
    <3>2. op.phase = "CreateCurrentConfiguration"
      BY <1>1, <1>3, <2>11 DEF OperationInv, PrimaryPhases
    <3>3. /\ Installing /\ \A a \in Currents : a.act.members = Secondaries(op.target)
      BY <1>4, <3>2 DEF PrimaryInv
    <3>4. \A a \in Configs' : Fits(a.act.members)
      BY <1>4, <2>2, <2>5, <3>1 DEF Configs, PrimaryInv
    <3>5. \A a \in Currents' : a.id = op.pending.id /\ a.act.members = Secondaries(op.target)
      BY <2>2, <3>1, <3>3 DEF Currents, Installing
    <3>6. P.cfg # ConfigOf("Current", op.target)
      BY <2>3, <2>4, <3>2, EitherIs DEF DirectFacts, Configuration
    <3>7. P.active = NoAction \/ P.active.act.do # "Current"
      BY <2>3, <2>8, <3>3 DEF Installing, Currents, P
    <3>8. Installing'
      BY <1>2, <2>1, <2>6, <3>5, <3>6, <3>7 DEF Installing
    <3> QED
      BY <1>2, <1>4, <2>6, <2>7, <3>2, <3>4, <3>5, <3>8
      DEF ConfigInv, PrimaryInv, Routing, Compensating
  <2>12. CASE op.phase = "CreateCompensateRestoreConfiguration"
    <3>1. ActionFor.do = "Current" /\ ActionFor.members = Secondaries(op.committed)
      BY <1>4, <2>12 DEF ActionFacts
    <3>2. Restoring
      BY <1>4, <2>12 DEF PrimaryInv
    <3>3. \A a \in Configs' : Fits(a.act.members)
      BY <1>4, <2>2, <2>5, <3>1 DEF Configs, PrimaryInv
    <3>4. \A a \in Currents' : a.id = op.pending.id \/ a.act.members = Secondaries(op.target)
      BY <2>2, <3>2 DEF Currents, Restoring
    <3>5. P.cfg # ConfigOf("Current", op.committed)
      BY <2>3, <2>4, <2>12, EitherIs DEF DirectFacts, Configuration
    <3>6. P.active # NoAction /\ P.active.act.do = "Current" =>
             P.active.act.members # Secondaries(op.committed)
      BY <2>3, <2>5, <2>8, <3>2 DEF Restoring, Currents, P
    <3>7. Restoring'
      BY <1>2, <2>1, <2>6, <3>4, <3>5, <3>6 DEF Restoring
    <3> QED
      BY <1>2, <1>4, <2>6, <2>7, <2>12, <3>3, <3>7 DEF ConfigInv, PrimaryInv, Routing, Compensating
  <2> QED
    BY <1>6, <2>9, <2>10, <2>11, <2>12 DEF AtPrimary, Configuring
<1> QED
  BY <1>5, <1>6

\* The operation goes forward.
LEMMA ConfigForward ==
    ASSUME IInv, ConfigInv, Sound, op.pending # NoAction, Observation = "Postcondition",
           op.phase \in Forward, UNCHANGED <<rep, net, hit>>, Moved(op, op', After[op.phase])
    PROVE  ConfigInv'
<1>1. TypeInv /\ OperationInv /\ Primary \in Replica
  BY CreateAssumption DEF IInv, TypeInv, Primary, Replica
<1> SUFFICES ASSUME op.committed >= 1, Primary \notin hit
             PROVE  ConfigInv'
  BY DEF ConfigInv, Moved
<1>2. op.phase \in SecondaryPhases
  BY <1>1 DEF Forward, OperationInv
<1>3. /\ op.phase \in DOMAIN After /\ AfterFacts /\ op.target = op.committed + 1
      /\ op.committed \in Nat /\ T = IF op.phase \in AtPrimary THEN Primary ELSE op.target
      /\ P = rep[T] /\ ProcessInv(P)
  <2>1. op.phase \notin Labelling
    BY <1>2 DEF SecondaryPhases, Configuring, Labelling
  <2> QED
    BY <1>1, <2>1, AfterIs, TargetIs
<1>4. /\ op'.phase = After[op.phase] /\ op'.insts = op.insts /\ op'.committed = op.committed
      /\ op'.target = op.target
  BY DEF Moved
<1>5. /\ \A k : Secondaries(k)' = Secondaries(k)
      /\ \A k, mode : ConfigOf(mode, k)' = ConfigOf(mode, k)
      /\ \A m : Fits(m)' <=> Fits(m)
  BY <1>4 DEF Secondaries, ConfigOf, Fits
<1>6. PrimaryInv /\ rep[Primary].cfg \in Expected
  BY <1>1 DEF ConfigInv, Sound, CommittedHolds, OperationInv
<1>7. /\ Configs' = Configs /\ Currents' = Currents /\ Currents \subseteq Configs
      /\ Currents = {} => rep[Primary].active = NoAction \/ rep[Primary].active.act.do # "Current"
  BY ConfigsSame
<1>8. CASE op.phase = "CreateWaitForCatchUpQuorum"
  <2>1. Currents = {} /\ op'.phase = "CreateCurrentConfiguration"
    BY <1>3, <1>4, <1>6, <1>8 DEF PrimaryInv, AfterFacts, Compensating
  <2>2. rep[Primary].cfg = ConfigOf("CatchUp", op.target)
    BY <1>6, <1>8, ExpectedIs DEF ExpectedFacts
  <2>3. ConfigOf("CatchUp", op.target) # ConfigOf("Current", op.target)
    <3>1. ConfigOf("CatchUp", op.target).mode # ConfigOf("Current", op.target).mode
      BY DEF ConfigOf
    <3> QED
      BY <3>1
  <2>4. Installing'
    BY <1>4, <1>5, <1>7, <2>1, <2>2, <2>3 DEF Installing
  <2> QED
    BY <1>4, <1>5, <1>6, <1>7, <2>1, <2>4 DEF ConfigInv, PrimaryInv, Compensating, Routing
<1>9. CASE op.phase = "CreateCurrentConfiguration"
  <2>1. op'.phase = "CreateCommitSecondary" /\ Installing
    BY <1>3, <1>4, <1>6, <1>9 DEF PrimaryInv, AfterFacts
  <2>2. T = Primary /\ P = rep[Primary]
    BY <1>3, <1>9 DEF AtPrimary, Configuring
  <2>3. Same(T)
    BY <1>1, <1>9, <2>2, ObservationIs
  <2>4. CASE DirectObservation = "Postcondition"
    <3>1. P.cfg = ConfigOf("Current", op.target)
      BY <1>9, <2>4, DirectIs, EitherIs DEF DirectFacts, Configuration
    <3>2. Configs = {} /\ Currents = {}
      BY <1>7, <2>1, <2>2, <3>1 DEF Installing
    <3>3. Installing'
      BY <1>5, <1>7, <3>2 DEF Installing
    <3> QED
      BY <1>4, <1>5, <1>6, <1>7, <2>1, <3>2, <3>3 DEF ConfigInv, PrimaryInv, Compensating, Routing
  <2>5. CASE Record(P, op.pending.id) = "Completed"
    <3>1. op.pending.id \in DOMAIN rep[Primary].done
      BY <1>3, <2>2, <2>5, RecordIs
    <3>2. Currents = {}
      <4> SUFFICES ASSUME NEW a \in Currents PROVE FALSE
        OBVIOUS
      <4>1. a \in Due(Primary) /\ a.id = op.pending.id
        BY <2>1 DEF Installing, Currents
      <4>2. a.id \notin DOMAIN rep[Primary].done
        BY <1>1, <4>1, DueIsAction
      <4> QED
        BY <3>1, <4>1, <4>2
    <3>3. Installing'
      BY <1>4, <1>5, <1>7, <2>1, <3>2 DEF Installing
    <3> QED
      BY <1>4, <1>5, <1>6, <1>7, <2>1, <3>2, <3>3 DEF ConfigInv, PrimaryInv, Compensating, Routing
  <2> QED
    BY <1>1, <1>9, <2>3, <2>4, <2>5, ObservationIs
<1>10. CASE op.phase \notin {"CreateWaitForCatchUpQuorum", "CreateCurrentConfiguration"}
  <2>1. Currents = {}
    BY <1>2, <1>6, <1>10 DEF PrimaryInv, Compensating, SecondaryPhases, Configuring
  <2>2. op.phase # "CreateCommitSecondary"
    BY <1>3, AfterIs
  <2>3. op'.phase \notin Routing \cup {"CreateCurrentConfiguration", "CreateCommitSecondary"}
    BY <1>2, <1>3, <1>4, <1>10, <2>2 DEF AfterFacts, SecondaryPhases, Configuring, Routing
  <2> QED
    BY <1>3, <1>4, <2>1, <2>3, ConfigQuiet
<1> QED
  BY <1>8, <1>9, <1>10

\* The operation gives its phase up.
LEMMA ConfigGivenUp ==
    ASSUME IInv, ConfigInv, Sound, op.phase \in Forward \cup Compensating \cup Labelling,
           UNCHANGED <<rep, net, hit>>, Moved(op, op', OnFailure)
    PROVE  ConfigInv'
<1>1. TypeInv /\ OperationInv /\ Primary \in Replica
  BY CreateAssumption DEF IInv, TypeInv, Primary, Replica
<1> SUFFICES ASSUME op.committed >= 1, Primary \notin hit
             PROVE  ConfigInv'
  BY DEF ConfigInv, Moved
<1>2. /\ op'.phase = OnFailure /\ op'.insts = op.insts /\ op'.committed = op.committed
      /\ op'.target = op.target /\ op.committed \in Nat
  BY <1>1 DEF Moved, OperationInv
<1>3. PrimaryInv /\ rep[Primary].cfg \in Expected
  BY <1>1 DEF ConfigInv, Sound, CommittedHolds, OperationInv
<1>4. CASE OnFailure = "Poisoned"
  BY <1>2, <1>4, ConfigQuiet
<1>5. CASE OnFailure # "Poisoned" /\ op.phase # "CreateCurrentConfiguration"
  <2>1. op.phase \in Forward /\ OnFailure \in Compensating
    BY <1>5, OnFailureIs
  <2>2. Currents = {}
    BY <1>3, <1>5, <2>1 DEF PrimaryInv, Compensating, Forward, PrimaryPhases, SecondaryPhases,
       Configuring
  <2>3. OnFailure \notin Routing \cup {"CreateCurrentConfiguration", "CreateCommitSecondary"}
    BY <2>1 DEF Compensating, Routing
  <2> QED
    BY <1>2, <2>2, <2>3, ConfigQuiet
<1>6. CASE op.phase = "CreateCurrentConfiguration"
  <2>1. OnFailure = "CreateCompensateRestoreConfiguration"
    BY <1>6 DEF OnFailure, Configuring, Compensating, Labelling
  <2>2. op.target = op.committed + 1
    BY <1>1, <1>6 DEF OperationInv, Forward, SecondaryPhases, Configuring
  <2>3. Secondaries(op.target) # Secondaries(op.committed)
    BY <1>2, <2>2, SecondariesGrow
  <2>4. /\ \A k : Secondaries(k)' = Secondaries(k)
        /\ \A k, mode : ConfigOf(mode, k)' = ConfigOf(mode, k)
        /\ \A m : Fits(m)' <=> Fits(m)
    BY <1>2 DEF Secondaries, ConfigOf, Fits
  <2>5. /\ Configs' = Configs /\ Currents' = Currents
        /\ rep[Primary].active # NoAction => rep[Primary].active \in Due(Primary)
    BY ConfigsSame
  <2>6. \A a \in Currents : a.act.members = Secondaries(op.target)
    BY <1>3, <1>6 DEF PrimaryInv
  <2>7. rep[Primary].cfg # ConfigOf("Current", op.committed)
    <3>1. rep[Primary].cfg \in {ConfigOf("CatchUp", op.target), ConfigOf("Current", op.target)}
      BY <1>3, <1>6, ExpectedIs DEF ExpectedFacts
    <3>2. /\ ConfigOf("CatchUp", op.target).mode # ConfigOf("Current", op.committed).mode
          /\ ConfigOf("Current", op.target).members # ConfigOf("Current", op.committed).members
      BY <2>3 DEF ConfigOf
    <3> QED
      BY <3>1, <3>2
  <2>8. rep[Primary].active # NoAction /\ rep[Primary].active.act.do = "Current" =>
           rep[Primary].active.act.members = Secondaries(op.target)
    BY <2>5, <2>6 DEF Currents
  <2>9. Restoring'
    BY <1>2, <2>3, <2>4, <2>5, <2>6, <2>7, <2>8 DEF Restoring
  <2> QED
    BY <1>2, <1>3, <2>1, <2>4, <2>5, <2>9 DEF ConfigInv, PrimaryInv, Compensating, Routing
<1> QED
  BY <1>4, <1>5, <1>6

\* The compensation goes on, or ends.
LEMMA ConfigBack ==
    ASSUME IInv, ConfigInv, Sound, op.phase \in Compensating, UNCHANGED <<rep, net, hit>>, NEW phase,
           Moved(op, op', phase),
           phase \notin Routing \cup {"CreateCurrentConfiguration", "CreateCommitSecondary"},
           op.phase = "CreateCompensateRestoreConfiguration" =>
              /\ op.pending # NoAction /\ Observation = "Postcondition"
              /\ phase = "CreateCompensateRemoveCandidate"
    PROVE  ConfigInv'
<1>1. TypeInv /\ OperationInv /\ Primary \in Replica
  BY CreateAssumption DEF IInv, TypeInv, Primary, Replica
<1> SUFFICES ASSUME op.committed >= 1, Primary \notin hit
             PROVE  ConfigInv'
  BY DEF ConfigInv, Moved
<1>2. /\ op'.phase = phase /\ op'.insts = op.insts /\ op'.committed = op.committed
      /\ op'.target = op.target /\ op.committed \in Nat
  BY <1>1 DEF Moved, OperationInv
<1>3. PrimaryInv /\ rep[Primary].cfg \in Expected
  BY <1>1 DEF ConfigInv, Sound, CommittedHolds, OperationInv
<1>4. CASE op.phase # "CreateCompensateRestoreConfiguration"
  <2>1. rep[Primary].cfg = ConfigOf("Current", op.committed)
    BY <1>3, <1>4, ExpectedIs DEF ExpectedFacts
  <2>2. Currents = {}
    BY <1>3, <1>4, <2>1 DEF PrimaryInv, Stuck
  <2> QED
    BY <1>2, <2>2, ConfigQuiet
<1>5. CASE op.phase = "CreateCompensateRestoreConfiguration"
  <2>1. /\ T = Primary /\ P = rep[Primary] /\ ProcessInv(P)
    BY <1>1, <1>5, TargetIs DEF AtPrimary, Labelling
  <2>2. Restoring
    BY <1>3, <1>5 DEF PrimaryInv
  <2>3. CASE rep[Primary].cfg = ConfigOf("Current", op.committed)
    BY <1>2, <2>2, <2>3, ConfigQuiet DEF Restoring
  <2>4. CASE rep[Primary].cfg # ConfigOf("Current", op.committed)
    <3>1. DirectObservation # "Postcondition"
      BY <1>5, <2>1, <2>4, DirectIs, EitherIs DEF DirectFacts, Configuration
    <3>2. op.pending.id \in DOMAIN rep[Primary].done
      BY <1>1, <1>5, <2>1, <3>1, ObservationIs, RecordIs
    <3>3. \A a \in Currents : a.act.members = Secondaries(op.target)
      <4> SUFFICES ASSUME NEW a \in Currents PROVE a.act.members = Secondaries(op.target)
        OBVIOUS
      <4>1. a.id \notin DOMAIN rep[Primary].done
        BY <1>1, DueIsAction DEF Currents
      <4> QED
        BY <2>2, <3>2, <4>1 DEF Restoring
    <3>4. /\ \A k : Secondaries(k)' = Secondaries(k)
          /\ \A k, mode : ConfigOf(mode, k)' = ConfigOf(mode, k)
          /\ \A m : Fits(m)' <=> Fits(m)
      BY <1>2 DEF Secondaries, ConfigOf, Fits
    <3>5. Configs' = Configs /\ Currents' = Currents
      BY ConfigsSame
    <3>6. Stuck'
      BY <1>2, <2>4, <3>3, <3>4, <3>5 DEF Stuck
    <3> QED
      BY <1>2, <1>3, <1>5, <3>4, <3>5, <3>6 DEF ConfigInv, PrimaryInv, Compensating, Routing
  <2> QED
    BY <2>3, <2>4
<1> QED
  BY <1>4, <1>5

\* A commit finds the configuration of the members it commits, and no other due.
LEMMA ConfigCommit ==
    ASSUME IInv, ConfigInv, Commit
    PROVE  ConfigInv'
<1>1. /\ op.phase \in {"CreateCommitPrimary", "CreateCommitSecondary"}
      /\ UNCHANGED <<rep, net, hit>>
      /\ \/ op' = WithPhase("Poisoned")
         \/ /\ rep[Primary].cfg = ConfigOf("Current", op.target)
            /\ \/ op' = NextMember(op.target)
               \/ op' = [WithPhase("Failed") EXCEPT !.committed = op.target]
  BY DEF Commit, Persist
<1>2. TypeInv /\ OperationInv /\ Primary \in Replica /\ op.committed \in Nat
  BY CreateAssumption DEF IInv, TypeInv, Primary, Replica, OperationInv
<1>3. op.target \in 0..N /\ op.target = op.committed + 1
  BY <1>1, CommitIsSound
<1>4. CASE op' = WithPhase("Poisoned")
  <2>1. Moved(op, op', "Poisoned")
    BY <1>2, <1>4, WithPhaseIs DEF OperationInv
  <2> QED
    BY <1>1, <1>2, <2>1, ConfigQuiet DEF Moved
<1>5. CASE /\ rep[Primary].cfg = ConfigOf("Current", op.target)
           /\ \/ op' = NextMember(op.target)
              \/ op' = [WithPhase("Failed") EXCEPT !.committed = op.target]
  <2>1. /\ op'.committed = op.target /\ op'.insts = op.insts
        /\ op'.phase \in {"CreateOpenSecondary", "CreatePublishRouting", "Failed"}
    <3>1. CASE op' = NextMember(op.target)
      <4>1. op.target # 0
        BY <1>2, <1>3
      <4> QED
        BY <1>2, <1>3, <3>1, <4>1, NextMemberIs DEF OperationInv
    <3>2. CASE op' = [WithPhase("Failed") EXCEPT !.committed = op.target]
      <4> DEFINE w == WithPhase("Failed")
      <4>1. Moved(op, w, "Failed") /\ op' = [w EXCEPT !.committed = op.target]
        BY <1>2, <3>2, WithPhaseIs DEF OperationInv
      <4> HIDE DEF w
      <4> QED
        BY <4>1 DEF Moved, IsRecord, OperationFields
    <3> QED
      BY <1>5, <3>1, <3>2
  <2> SUFFICES ASSUME Primary \notin hit
               PROVE  PrimaryInv'
    BY <1>1 DEF ConfigInv
  <2>2. Configs = {} /\ rep[Primary].write = "Granted"
    <3>1. CASE op.phase = "CreateCommitPrimary"
      <4>1. op.target = Primary /\ op.phase \in Forward
        BY <1>2, <1>3, <3>1 DEF OperationInv, PrimaryPhases, Forward, Primary
      <4>2. Progress(Primary)
        BY <1>2, <4>1 DEF IInv, ReplicaInv
      <4> QED
        BY <3>1, <4>2 DEF Progress, Founded, Configs
    <3>2. CASE op.phase = "CreateCommitSecondary"
      <4>1. PrimaryInv
        BY <1>2, <3>2 DEF ConfigInv, OperationInv, SecondaryPhases
      <4> QED
        BY <1>5, <3>2, <4>1 DEF PrimaryInv, Installing
    <3> QED
      BY <1>1, <3>1, <3>2
  <2>3. Configs' = {} /\ Currents' = {}
    BY <1>1, <2>2, ConfigsSame
  <2>4. rep'[Primary].cfg.members = Secondaries(op.target)
    BY <1>1, <1>5 DEF ConfigOf
  <2>5. Secondaries(op.committed)' = Secondaries(op.target)
    BY <2>1 DEF Secondaries
  <2>6. Fits(rep[Primary].cfg.members)'
    BY <2>4, <2>5 DEF Fits
  <2> QED
    BY <1>1, <2>1, <2>2, <2>3, <2>6 DEF PrimaryInv, Compensating, Routing
<1> QED
  BY <1>1, <1>4, <1>5

\* A step of the pending action, or to the next pod.
LEMMA ConfigPending ==
    ASSUME TypeInv, ConfigInv, UNCHANGED <<rep, net, hit>>,
           \/ op' = [op EXCEPT !.late = TRUE]
           \/ BeginAction /\ op.pending = NoAction
           \/ PlanDispatch(Observation) /\ op.pending # NoAction
           \/ op.phase \in Labelling /\ op' = [WithPhase(op.phase) EXCEPT !.index = @ + 1]
    PROVE  ConfigInv'
<1>1. OperationInv
  BY DEF TypeInv
<1>2. SameOperation
  <2>1. CASE op' = [op EXCEPT !.late = TRUE]
    BY <1>1, <2>1 DEF OperationInv, IsRecord, OperationFields, SameOperation
  <2>2. CASE BeginAction /\ op.pending = NoAction
    <3> DEFINE pending == [id |-> ActionId, target |-> TargetOf, fences |-> << >>]
    <3>1. op' = [op EXCEPT !.late = FALSE, !.pending = pending]
      BY <2>2 DEF BeginAction, Persist
    <3> HIDE DEF pending
    <3> QED
      BY <1>1, <2>2, <3>1 DEF OperationInv, IsRecord, OperationFields, SameOperation
  <2>3. CASE PlanDispatch(Observation) /\ op.pending # NoAction
    <3> DEFINE pending == [op.pending EXCEPT !.fences = Fences(P)]
    <3>1. op' = [op EXCEPT !.pending = pending]
      BY <2>3 DEF PlanDispatch, Persist
    <3>2. pending.id = op.pending.id /\ pending # NoAction
      BY <1>1, <2>3 DEF OperationInv, PendingInv, IsRecord, PendingFields, NoAction
    <3> HIDE DEF pending
    <3> QED
      BY <1>1, <3>1, <3>2 DEF OperationInv, IsRecord, OperationFields, SameOperation
  <2>4. CASE op.phase \in Labelling /\ op' = [WithPhase(op.phase) EXCEPT !.index = @ + 1]
    <3> DEFINE w == WithPhase(op.phase)
    <3>1. Moved(op, w, op.phase) /\ op' = [w EXCEPT !.index = w.index + 1]
      BY <1>1, <2>4, WithPhaseIs DEF OperationInv
    <3> HIDE DEF w
    <3> QED
      BY <2>4, <3>1 DEF Moved, IsRecord, OperationFields, SameOperation
  <2> QED
    BY <2>1, <2>2, <2>3, <2>4
<1>3. Configs' = Configs
  BY ConfigsSame
<1> QED
  BY <1>2, <1>3, ConfigKept

LEMMA ConfigFenced ==
    ASSUME TypeInv, ConfigInv, op.phase = "CreateFenceRouting", Fencing
    PROVE  ConfigInv'
<1>1. OperationInv /\ op.committed \in Nat /\ op.committed \in 0..N /\ op.committed < N
  BY DEF TypeInv, OperationInv, Unstarted
<1>2. UNCHANGED <<rep, net, hit>>
  BY DEF Fencing, FenceDone, FenceGivenUp, FenceLabel, Persist
<1>3. op.committed >= 1 /\ Primary \notin hit => Currents = {}
  BY DEF ConfigInv, PrimaryInv, Compensating
<1>4. CASE op' = NextMember(op.committed)
  <2>1. /\ op'.committed = op.committed /\ op'.insts = op.insts
        /\ op'.phase \in {"CreateOpenPrimary", "CreateOpenSecondary"}
    BY <1>1, <1>4, NextMemberIs DEF OperationInv
  <2> QED
    BY <1>1, <1>2, <1>3, <2>1, ConfigQuiet DEF Routing
<1>5. CASE op' = [WithPhase(op.phase) EXCEPT !.index = @ + 1]
  BY <1>2, <1>5, ConfigPending DEF Labelling
<1>6. CASE op' = WithPhase("Poisoned") \/ op' = WithPhase("Failed")
  <2>1. Moved(op, op', "Poisoned") \/ Moved(op, op', "Failed")
    BY <1>1, <1>6, WithPhaseIs DEF OperationInv
  <2> QED
    BY <1>1, <1>2, <1>3, <2>1, ConfigQuiet DEF Moved, Routing
<1>7. CASE UNCHANGED op
  <2>1. SameOperation /\ Configs' = Configs
    BY <1>2, <1>7, ConfigsSame DEF SameOperation, Labelling
  <2> QED
    BY <1>2, <2>1, ConfigKept
<1> QED
  BY <1>4, <1>5, <1>6, <1>7
  DEF Fencing, FenceDone, FenceGivenUp, FenceLabel, Persist, RestartOrPoison

LEMMA ConfigDriven ==
    ASSUME IInv, ConfigInv, Sound, op.pending # NoAction, op.phase # "CreateFenceRouting",
           DriveAction(Observation)
    PROVE  ConfigInv'
<1>1. TypeInv /\ OperationInv /\ PendingInv /\ op.committed \in Nat
  BY DEF IInv, TypeInv, OperationInv
<1>2. \/ op.phase = "CreatePublishRouting"
      \/ /\ op.phase \in DOMAIN After /\ op.phase \notin Labelling
         /\ op.phase \in Forward \cup (Compensating \ {"CreateCompensateFinalize"})
  BY <1>1, TargetIs DEF Labelling
<1>3. CASE ActionDone(Observation)
  <2>1. /\ Observation = "Postcondition" /\ UNCHANGED <<rep, net, hit>>
        /\ \/ op.phase # "CreatePublishRouting" /\ op' = WithPhase(After[op.phase])
           \/ op.phase = "CreatePublishRouting" /\ op' = WithPhase("CreateFinalize")
           \/ op.phase = "CreatePublishRouting" /\ op' = [WithPhase(op.phase) EXCEPT !.index = @ + 1]
    BY <1>3 DEF ActionDone, Persist
  <2>2. CASE op.phase # "CreatePublishRouting" /\ op' = WithPhase(After[op.phase])
    <3>1. Moved(op, op', After[op.phase])
      BY <1>1, <2>2, WithPhaseIs DEF OperationInv
    <3>2. CASE op.phase \in Forward
      BY <2>1, <3>1, <3>2, ConfigForward
    <3>3. CASE op.phase \in Compensating \ {"CreateCompensateFinalize"}
      <4>1. /\ After[op.phase] \in Compensating
            /\ op.phase = "CreateCompensateRestoreConfiguration" =>
                  After[op.phase] = "CreateCompensateRemoveCandidate"
        BY <3>3, AfterIs DEF AfterFacts, Compensating
      <4>2. After[op.phase] \notin Routing \cup {"CreateCurrentConfiguration", "CreateCommitSecondary"}
        BY <4>1 DEF Compensating, Routing
      <4> QED
        BY <2>1, <3>1, <3>3, <4>1, <4>2, ConfigBack
    <3> QED
      BY <1>2, <2>2, <3>2, <3>3
  <2>3. CASE op.phase = "CreatePublishRouting" /\ op' = WithPhase("CreateFinalize")
    <3>1. Moved(op, op', "CreateFinalize")
      BY <1>1, <2>3, WithPhaseIs DEF OperationInv
    <3>2. SUFFICES ASSUME op.committed >= 1, Primary \notin hit PROVE PrimaryInv'
      BY <2>1, <3>1 DEF ConfigInv, Moved
    <3>3. PrimaryInv /\ Configs = {}
      BY <2>3, <3>2 DEF ConfigInv, PrimaryInv, Routing
    <3>4. Configs' = {} /\ Currents' = {}
      BY <2>1, <3>3, ConfigsSame
    <3>5. \A m : Fits(m)' <=> Fits(m)
      BY <3>1 DEF Moved, Fits, Secondaries
    <3> QED
      BY <2>1, <3>1, <3>3, <3>4, <3>5 DEF PrimaryInv, Moved, Compensating
  <2>4. CASE /\ op.phase = "CreatePublishRouting"
             /\ op' = [WithPhase(op.phase) EXCEPT !.index = @ + 1]
    BY <1>1, <2>1, <2>4, ConfigPending DEF Labelling
  <2> QED
    BY <2>1, <2>2, <2>3, <2>4
<1>4. CASE SkipUnavailable(Observation)
  <2>1. /\ op.phase \in {"CreateCompensateDemoteCandidate", "CreateCompensateCloseCandidate"}
        /\ op' = WithPhase(After[op.phase]) /\ UNCHANGED <<rep, net, hit>>
    BY <1>4 DEF SkipUnavailable, Skippable, Persist
  <2>2. Moved(op, op', After[op.phase])
    BY <1>1, <2>1, WithPhaseIs DEF OperationInv
  <2>3. /\ After[op.phase] \notin Routing \cup {"CreateCurrentConfiguration", "CreateCommitSecondary"}
        /\ op.phase \in Compensating
    BY <2>1, AfterIs DEF AfterFacts, Routing, Compensating
  <2> QED
    BY <2>1, <2>2, <2>3, ConfigBack
<1>5. CASE ActionGivenUp(Observation)
  <2>1. UNCHANGED <<rep, net, hit>> /\ Moved(op, op', OnFailure)
    BY <1>1, <1>5, WithPhaseIs DEF ActionGivenUp, Persist, OperationInv
  <2>2. op.phase \in Forward \cup Compensating \cup Labelling
    BY <1>2 DEF Labelling
  <2> QED
    BY <2>1, <2>2, ConfigGivenUp
<1>6. CASE ActionPoisons(Observation)
  <2>1. UNCHANGED <<rep, net, hit>> /\ Moved(op, op', "Poisoned")
    BY <1>1, <1>6, WithPhaseIs DEF ActionPoisons, Persist, OperationInv
  <2> QED
    BY <1>1, <2>1, ConfigQuiet DEF Moved
<1>7. CASE PublishLabel(Observation)
  <2>1. UNCHANGED <<op, rep, net, hit>> /\ op.phase \in Labelling
    BY <1>7 DEF PublishLabel, Labelling
  <2>2. SameOperation /\ Configs' = Configs
    BY <2>1, ConfigsSame DEF SameOperation
  <2> QED
    BY <2>1, <2>2, ConfigKept
<1>8. CASE DeletePod(Observation)
  <2>1. /\ op.phase = "CreateCompensateDeleteCandidate" /\ UNCHANGED <<op, net, hit>>
        /\ rep' = [rep EXCEPT ![T] = Restarted(@)]
    BY <1>8 DEF DeletePod
  <2>2. T = op.target /\ op.target = op.committed + 1
    BY <1>1, <2>1, TargetIs DEF Labelling, AtPrimary, Configuring
  <2>3. op.committed >= 1 => rep'[Primary] = rep[Primary]
    BY <1>1, <2>1, <2>2, CreateAssumption DEF TypeInv, IsRecord, Primary, Replica
  <2>4. op.committed >= 1 => Configs' \subseteq Configs
    BY <2>1, <2>3, DueSame DEF Configs
  <2>5. SameOperation
    BY <2>1 DEF SameOperation
  <2> QED
    BY <2>1, <2>3, <2>4, <2>5, ConfigKept
<1>9. CASE PlanDispatch(Observation)
  BY <1>1, <1>9, ConfigPending DEF PlanDispatch, Persist
<1>10. CASE DispatchAction(Observation)
  BY <1>10, ConfigDispatch
<1> QED
  BY <1>3, <1>4, <1>5, <1>6, <1>7, <1>8, <1>9, <1>10 DEF DriveAction

LEMMA ConfigAdvanced ==
    ASSUME IInv, ConfigInv, Sound, Advance
    PROVE  ConfigInv'
<1>1. TypeInv /\ OperationInv /\ op.committed \in Nat
  BY DEF IInv, TypeInv, OperationInv
<1>2. CASE Commit
  BY <1>2, ConfigCommit
<1>3. CASE Finalize
  <2>1. /\ op.phase = "CreateFinalize" /\ Moved(op, op', "Completed") /\ UNCHANGED <<rep, net, hit>>
    BY <1>1, <1>3, WithPhaseIs DEF Finalize, OperationInv
  <2>2. SUFFICES ASSUME op.committed >= 1, Primary \notin hit PROVE PrimaryInv'
    BY <2>1 DEF ConfigInv, Moved
  <2>3. PrimaryInv /\ Configs = {} /\ rep[Primary].cfg = ConfigOf("Current", N)
    BY <1>1, <2>1, <2>2, ExpectedIs
    DEF ConfigInv, PrimaryInv, Routing, Sound, CommittedHolds, ExpectedFacts
  <2>4. Configs' = {} /\ Currents' = {}
    BY <2>1, <2>3, ConfigsSame
  <2>5. (\A m : Fits(m)' <=> Fits(m)) /\ ConfigOf("Current", N)' = ConfigOf("Current", N)
    BY <2>1 DEF Moved, Fits, Secondaries, ConfigOf
  <2> QED
    BY <2>1, <2>3, <2>4, <2>5 DEF PrimaryInv, Moved, Compensating
<1>4. CASE SkipRemove \/ RestartCreation
  <2>1. /\ op.phase \in {"CreateCompensateRemoveCandidate", "CreateCompensateFinalize"}
        /\ UNCHANGED <<rep, net, hit>>
        /\ \/ op' = WithPhase("CreateCompensateDemoteCandidate")
           \/ op' = WithPhase("Failed")
    BY <1>4 DEF SkipRemove, RestartCreation, Persist
  <2>2. \/ Moved(op, op', "CreateCompensateDemoteCandidate")
        \/ Moved(op, op', "Failed")
    BY <1>1, <2>1, WithPhaseIs DEF OperationInv
  <2> QED
    BY <2>1, <2>2, ConfigBack DEF Compensating, Routing
<1>5. CASE op.pending = NoAction /\ BeginAction
  BY <1>1, <1>5, ConfigPending DEF BeginAction, Persist
<1>6. CASE op.phase = "CreateFenceRouting" /\ Fencing
  BY <1>1, <1>6, ConfigFenced
<1>7. CASE op.pending # NoAction /\ op.phase # "CreateFenceRouting" /\ DriveAction(Observation)
  BY <1>7, ConfigDriven
<1> QED
  BY <1>2, <1>3, <1>4, <1>5, <1>6, <1>7 DEF Advance

\* Agents and faults.
LEMMA ConfigAgents ==
    ASSUME IInv, ConfigInv, NEW r \in Replica, Agent(r) \/ FailAction(r) \/ Faults(r) \/ Reconnect(r)
    PROVE  ConfigInv'
<1>1. /\ TypeInv /\ IsRecord(rep, Replica) /\ Primary \in Replica
      /\ \A s \in Replica : IsRecord(rep[s], ProcessFields)
  BY CreateAssumption DEF IInv, TypeInv, ProcessInv, Primary, Replica
<1>2. UNCHANGED op /\ net' \subseteq net /\ hit \subseteq hit' /\ SameOperation
  BY DEF Agent, HandleRequest, CompleteAction, FailAction, Faults, Disconnect, RestartContainer,
     LosePod, ReplacePod, Fault, Reconnect, SameOperation
<1>3. CASE Primary \in hit' \/ rep'[Primary] = rep[Primary]
  <2>1. Primary \notin hit' => Configs' \subseteq Configs
    BY <1>2, <1>3, DueSame DEF Configs
  <2> QED
    BY <1>2, <1>3, <2>1, ConfigKept
<1>4. CASE HandleRequest(r) /\ r = Primary
  <2>1. PICK q \in net :
          /\ q.to = Primary
          /\ \/ CanAdmit(rep[Primary], q) /\ rep' = [rep EXCEPT ![Primary] = Admit(rep[Primary], q)]
             \/ UNCHANGED rep
    BY <1>4 DEF HandleRequest
  <2>2. CASE UNCHANGED rep
    BY <1>3, <2>2
  <2>3. CASE CanAdmit(rep[Primary], q) /\ rep' = [rep EXCEPT ![Primary] = Admit(rep[Primary], q)]
    <3>1. rep'[Primary] = Admit(rep[Primary], q)
      BY <1>1, <2>3 DEF IsRecord
    <3>2. /\ Alike(rep[Primary], rep'[Primary])
          /\ rep'[Primary].active \in Due(Primary) /\ Due(Primary)' \subseteq {rep'[Primary].active}
      BY <1>1, <1>2, <2>1, <2>3, <3>1, AdmitFacts
    <3>3. Configs' \subseteq Configs /\ Configs' \subseteq {rep'[Primary].active}
      BY <3>2 DEF Configs
    <3> QED
      BY <1>2, <3>2, <3>3, ConfigKept DEF Alike
  <2> QED
    BY <2>1, <2>2, <2>3
<1>5. CASE CompleteAction(r)
  <2> DEFINE act == rep[r].active.act
             e == Effect(rep[r], rep[r].active.act)
  <2>1. /\ rep[r].active # NoAction /\ UNCHANGED <<op, net, hit>>
        /\ rep' = [s \in Replica |->
                     IF s = r THEN Completed(rep[s])
                     ELSE IF act.do = "Build" /\ s = act.peer
                     THEN [rep[s] EXCEPT !.data = TRUE] ELSE rep[s]]
    BY <1>5 DEF CompleteAction, MayComplete
  <2>2. CASE r = Primary
    <3>1. rep'[Primary] = Recorded(e, rep[Primary].active.id, "Completed")
      BY <1>1, <2>1, <2>2 DEF Completed
    <3>2. Ends(rep[Primary], e, "Completed", rep'[Primary])
      BY <2>1, <2>2, <3>1 DEF Ends
    <3> QED
      BY <2>1, <3>2, ConfigEnds
  <2>3. CASE r # Primary
    <3>1. \/ rep'[Primary] = rep[Primary]
          \/ rep'[Primary] = [rep[Primary] EXCEPT !.data = TRUE]
      BY <1>1, <2>1, <2>3
    <3>2. CASE rep'[Primary] = [rep[Primary] EXCEPT !.data = TRUE]
      <4>1. /\ Alike(rep[Primary], rep'[Primary]) /\ rep'[Primary].active = rep[Primary].active
            /\ rep'[Primary].gen = rep[Primary].gen /\ rep'[Primary].ver = rep[Primary].ver
        BY <1>1, <3>2, CopiedIs
      <4>2. Configs' \subseteq Configs
        <5>1. \A q : Fresh(Primary, q)' <=> Fresh(Primary, q)
          BY <4>1 DEF Fresh, Alike
        <5>2. Due(Primary)' \subseteq Due(Primary)
          BY <2>1, <4>1, <5>1 DEF Due
        <5> QED
          BY <5>2 DEF Configs
      <4> QED
        BY <1>2, <4>1, <4>2, ConfigKept DEF Alike
    <3> QED
      BY <1>3, <3>1, <3>2
  <2> QED
    BY <2>2, <2>3
<1>6. CASE FailAction(r) /\ r = Primary
  <2>1. rep[Primary].active # NoAction /\ UNCHANGED <<op, net, hit>>
    BY <1>6 DEF FailAction
  <2>2. PICK e \in Residues(rep[Primary], rep[Primary].active.act) :
          rep' = [rep EXCEPT ![Primary] = Recorded(e, rep[Primary].active.id, "Failed")]
    BY <1>6 DEF FailAction, FailedOutcomes
  <2>3. rep'[Primary] = Recorded(e, rep[Primary].active.id, "Failed")
    BY <1>1, <2>2 DEF IsRecord
  <2>4. Ends(rep[Primary], e, "Failed", rep'[Primary])
    BY <2>1, <2>2, <2>3 DEF Ends
  <2> QED
    BY <2>1, <2>4, ConfigEnds
<1>7. CASE (HandleRequest(r) \/ FailAction(r)) /\ r # Primary
  <2>1. UNCHANGED rep \/ \E p : rep' = [rep EXCEPT ![r] = p]
    BY <1>7 DEF HandleRequest, FailAction
  <2>2. rep'[Primary] = rep[Primary]
    BY <1>1, <1>7, <2>1 DEF IsRecord
  <2> QED
    BY <1>3, <2>2
<1>8. CASE Faults(r) \/ Reconnect(r)
  <2>1. \/ UNCHANGED rep
        \/ r \in hit' /\ \E p : rep' = [rep EXCEPT ![r] = p]
    BY <1>8 DEF Faults, Disconnect, RestartContainer, LosePod, ReplacePod, Fault, Reconnect
  <2>2. Primary \in hit' \/ rep'[Primary] = rep[Primary]
    BY <1>1, <2>1 DEF IsRecord
  <2> QED
    BY <1>3, <2>2
<1> QED
  BY <1>4, <1>5, <1>6, <1>7, <1>8 DEF Agent

LEMMA ConfigInductive ==
    ASSUME IInv, ConfigInv, [Next]_vars
    PROVE  ConfigInv'
<1>1. /\ TypeInv /\ OperationInv /\ op.committed \in Nat /\ IsRecord(rep, Replica)
      /\ Primary \in Replica
  BY CreateAssumption DEF IInv, TypeInv, OperationInv, Primary, Replica
<1>2. CASE UNCHANGED <<op, hit>> /\ rep'[Primary] = rep[Primary] /\ net' = net
  <2>1. SameOperation /\ Configs' \subseteq Configs
    BY <1>2, DueSame DEF SameOperation, Configs
  <2> QED
    BY <1>2, <2>1, ConfigKept
<1>3. CASE EnsurePods
  <2>1. /\ UNCHANGED <<op, net, hit>>
        /\ rep' = [r \in Replica |->
                     IF pod[r].exists THEN rep[r] ELSE BlankProcess(rep[r].inst + 1, rep[r].gen + 1)]
    BY <1>3 DEF EnsurePods
  <2> SUFFICES ASSUME op.committed >= 1, Primary \notin hit PROVE ConfigInv'
    BY <2>1 DEF ConfigInv
  <2>2. pod[Primary].exists
    BY <1>1 DEF IInv, ReplicaInv, Settled, Primary
  <2> QED
    BY <1>1, <1>2, <2>1, <2>2
<1>4. CASE StartCreate
  <2>1. /\ op.phase \in {"None", "Failed"} /\ UNCHANGED <<rep, net, hit>>
        /\ \A r \in 1..op.committed : rep[r].inst = op.insts[r]
        /\ op'.phase = "CreateFenceRouting" /\ op'.committed = op.committed
        /\ op'.insts = [r \in Replica |-> rep[r].inst]
    BY <1>4 DEF StartCreate, Same
  <2>2. \A r \in 2..op.committed : op'.insts[r] = op.insts[r]
    BY <1>1, <2>1, CreateAssumption DEF OperationInv, Replica
  <2>3. op.committed >= 1 /\ Primary \notin hit => Currents = {}
    BY <2>1 DEF ConfigInv, PrimaryInv, Compensating
  <2> QED
    BY <1>1, <2>1, <2>2, <2>3, ConfigQuiet DEF Routing
<1>5. CASE FailClosed
  <2>1. UNCHANGED <<rep, net, hit>> /\ Moved(op, op', "Poisoned")
    BY <1>1, <1>5, WithPhaseIs DEF FailClosed, Persist, OperationInv
  <2> QED
    BY <1>1, <2>1, ConfigQuiet DEF Moved
<1>6. CASE Sound /\ CandidateLost
  <2>1. /\ op.phase \notin Compensating \cup Labelling \cup {"CreateFinalize"}
        /\ UNCHANGED <<rep, net, hit>> /\ Moved(op, op', OnFailure)
    BY <1>1, <1>6, WithPhaseIs DEF CandidateLost, CandidateChanged, Persist, OperationInv
  <2>2. op.phase \in Phases /\ op.phase \notin Terminal
    BY <1>1, <1>6 DEF OperationInv, Sound, Active
  <2>3. op.phase \in Forward
    BY <2>1, <2>2 DEF Phases, Routing, Unstarted, Terminal, Labelling
  <2> QED
    BY <1>6, <2>1, <2>3, ConfigGivenUp
<1>7. CASE Sound /\ Advance
  BY <1>7, ConfigAdvanced
<1>8. CASE DeadlinePasses
  <2>1. UNCHANGED <<rep, net, hit>> /\ op' = [op EXCEPT !.late = TRUE]
    BY <1>8 DEF DeadlinePasses
  <2>2. SameOperation
    BY <1>1, <2>1 DEF OperationInv, IsRecord, OperationFields, SameOperation
  <2>3. Configs' = Configs
    BY <2>1, ConfigsSame
  <2> QED
    BY <2>1, <2>2, <2>3, ConfigKept
<1>9. ASSUME NEW r \in Replica, Agent(r) \/ FailAction(r) \/ Faults(r) \/ Reconnect(r)
      PROVE  ConfigInv'
  BY <1>9, ConfigAgents
<1>10. CASE UNCHANGED vars
  BY <1>2, <1>10 DEF vars
<1> QED
  BY <1>3, <1>4, <1>5, <1>6, <1>7, <1>8, <1>9, <1>10 DEF Next, Reconcile

LEMMA ConfigInvariance == Spec => []ConfigInv
<1>1. Init => ConfigInv
  BY DEF Init, ConfigInv
<1>2. ConfigInv /\ IInv /\ [Next]_vars => ConfigInv'
  BY ConfigInductive
<1> QED
  BY <1>1, <1>2, Invariance, PTL DEF Spec

\* A published partition runs: every replica that no fault has befallen has its
\* role and its label, and the primary takes writes in the full configuration,
\* with no action under way or on its way that would install another.
THEOREM ThePublishedRuns == Spec => []PublishedIsRunning
<1>1. ASSUME IInv, LabelInv, ConfigInv
      PROVE  PublishedIsRunning
  <2> SUFFICES ASSUME stable
               PROVE  /\ \A r \in Replica \ hit :
                            /\ rep[r].open
                            /\ Is(r, IF r = Primary THEN "Primary" ELSE "ActiveSecondary")
                            /\ pod[r].label = IF r = Primary THEN "primary" ELSE "secondary"
                      /\ Primary \notin hit =>
                            /\ rep[Primary].write = "Granted"
                            /\ rep[Primary].cfg = ConfigOf("Current", N)
    BY DEF PublishedIsRunning
  <2>1. op.phase = "Completed" /\ op.committed = N /\ N \in Nat /\ N >= 1
    BY <1>1, CreateAssumption DEF IInv, TypeInv, OperationInv, Routing
  <2>2. ASSUME NEW r \in Replica \ hit
        PROVE  /\ rep[r].open
               /\ Is(r, IF r = Primary THEN "Primary" ELSE "ActiveSecondary")
               /\ pod[r].label = IF r = Primary THEN "primary" ELSE "secondary"
    <3>1. ReplicaInv(r) /\ r <= op.committed
      BY <1>1, <2>1 DEF IInv, Replica
    <3>2. pod[r].label = IF r = Primary THEN "primary" ELSE "secondary"
      BY <1>1 DEF LabelInv
    <3> QED
      BY <3>1, <3>2 DEF ReplicaInv, Settled, Leads, Serves, Stage, Is
  <2>3. Primary \notin hit => PrimaryInv
    BY <1>1, <2>1 DEF ConfigInv
  <2> QED
    BY <2>1, <2>2, <2>3 DEF PrimaryInv
<1> QED
  BY <1>1, Invariance, LabelInvariance, ConfigInvariance, PTL

-----------------------------------------------------------------------------
(* The copies.                                                             *)

BuildOf(r) == [do |-> "Build", peer |-> r]
RemovalOf(r) == [do |-> "Remove", peer |-> r]

\* The id is of the action act for the incarnation of r.
Of(id, r, act) == id[1][r] = rep[r].inst /\ id[4] = act

\* The members are none but incarnations of secondaries, past or present.
MembersInv(m) ==
    \A p \in m : p[1] \in Replica \ {Primary} /\ p[2] \in Nat /\ p[2] <= rep[p[1]].inst

Names(m, r) == <<r, rep[r].inst>> \in m

IdInv(id) == \A r \in Replica : id[1][r] \in Nat /\ id[1][r] <= rep[r].inst

\* No configuration with r is due.
Uncounted(r) == \A a \in Configs : ~Names(a.act.members, r)

CopiedPhases ==
    {"CreateAssignSecondaryActive", "CreateCommitSecondary", "CreateCompensateRestoreConfiguration"}
    \cup Configuring

Removed ==
    {"CreateCompensateDemoteCandidate", "CreateCompensateCloseCandidate",
     "CreateCompensateDeleteCandidate"}

\* The primary has been asked to remove r, or may yet be.
MayRemove(r) ==
    \/ ~pod[r].exists \/ op.phase = "Poisoned"
    \/ r = op.target /\ op.phase \in Removed \cup {"CreateCompensateRemoveCandidate"}

\* What the primary runs, has done or may still be asked to do for r agrees with
\* r having the copy: the record of a build implies it, no configuration names r
\* without it, and the admission of a removal ends the configurations that do.
PeerInv(r) ==
    /\ Names(rep[Primary].cfg.members, r) => rep[r].data
    /\ \A a \in Configs : Names(a.act.members, r) => rep[r].data
    /\ pod[r].exists =>
          \A id \in DOMAIN rep[Primary].done :
             Of(id, r, BuildOf(r)) /\ rep[Primary].done[id] = "Completed" => rep[r].data
    /\ r <= op.committed \/ (r = op.target /\ op.phase \in CopiedPhases) => rep[r].data
    /\ ~MayRemove(r) =>
          /\ \A id \in DOMAIN rep[Primary].done : ~Of(id, r, RemovalOf(r))
          /\ \A a \in Due(Primary) : ~Of(a.id, r, RemovalOf(r))
    /\ \/ \E id \in DOMAIN rep[Primary].done : Of(id, r, RemovalOf(r))
       \/ rep[Primary].active # NoAction /\ Of(rep[Primary].active.id, r, RemovalOf(r))
       => Uncounted(r)
    /\ r = op.target /\ op.phase \in Removed => Uncounted(r)

\* The action of the pending id, as far as builds and removals go.
PendingAct(act) ==
    /\ op.phase = "CreateBuildSecondary" => act = BuildOf(op.target)
    /\ op.phase = "CreateCompensateRemoveCandidate" => act = RemovalOf(op.target)
    /\ op.phase \notin {"CreateBuildSecondary", "CreateCompensateRemoveCandidate",
                        "CreateCompensateDeleteCandidate"} \cup Labelling =>
          act.do \notin {"Build", "Remove"}

PendingIs ==
    op.pending # NoAction => op.pending.id[1] = op.insts /\ PendingAct(op.pending.id[4])

\* The id is of an incarnation that exists or has existed, and of the action.
ActionInv(a) ==
    /\ IdInv(a.id)
    /\ a.act.do \in {"Build", "Remove"} \/ a.id[4].do \in {"Build", "Remove"} => a.id[4] = a.act
    /\ Configures(a.act) => MembersInv(a.act.members)

\* The ids are those of the operation's attempts.
AttemptInv ==
    /\ \A r \in Replica : op.insts[r] \in Nat /\ op.insts[r] <= rep[r].inst
    /\ PendingIs
    /\ MembersInv(rep[Primary].cfg.members)
    /\ \A a \in Due(Primary) : ActionInv(a)
    /\ \A id \in DOMAIN rep[Primary].done : IdInv(id)

CopyInv == AttemptInv /\ \A r \in Replica \ (hit \cup {Primary}) : PeerInv(r)

\* A step of the operation alone.
LEMMA CopyMoves ==
    ASSUME CopyInv, UNCHANGED <<rep, pod, net, hit>>,
           \A r \in Replica : op'.insts[r] \in Nat /\ op'.insts[r] <= rep[r].inst,
           PendingIs',
           \A r \in Replica \ (hit \cup {Primary}) :
              /\ r <= op'.committed \/ (r = op'.target /\ op'.phase \in CopiedPhases) => rep[r].data
              /\ MayRemove(r) => MayRemove(r)'
              /\ r = op'.target /\ op'.phase \in Removed => Uncounted(r)
    PROVE  CopyInv'
<1>1. Due(Primary)' = Due(Primary) /\ Configs' = Configs
  BY DEF Due, Fresh, Configs
<1>2. /\ \A m : MembersInv(m)' <=> MembersInv(m)
      /\ \A id : IdInv(id)' <=> IdInv(id)
      /\ \A a : ActionInv(a)' <=> ActionInv(a)
  BY DEF MembersInv, IdInv, ActionInv
<1>3. /\ \A m, r : Names(m, r)' <=> Names(m, r)
      /\ \A id, r, act : Of(id, r, act)' <=> Of(id, r, act)
  BY DEF Names, Of
<1>4. \A r : Uncounted(r)' <=> Uncounted(r)
  BY <1>1, <1>3 DEF Uncounted
<1>5. AttemptInv'
  <2>1. AttemptInv
    BY DEF CopyInv
  <2>2. MembersInv(rep[Primary].cfg.members)'
    BY <2>1 DEF AttemptInv, MembersInv
  <2> QED
    BY <1>1, <1>2, <2>1, <2>2 DEF AttemptInv
<1>6. ASSUME NEW r \in Replica \ (hit \cup {Primary})
      PROVE  PeerInv(r)'
  <2>1. PeerInv(r)
    BY DEF CopyInv
  <2> QED
    BY <1>1, <1>3, <1>4, <2>1 DEF PeerInv, BuildOf, RemovalOf
<1> QED
  BY <1>5, <1>6 DEF CopyInv

\* Nothing is due at the primary that was not, and it records and installs
\* nothing but the action it ran; an admission leaves the admitted action.
PrimaryKeeps ==
    /\ Due(Primary)' \subseteq Due(Primary)
    /\ rep'[Primary].active # NoAction =>
          rep'[Primary].active = rep[Primary].active \/ Due(Primary)' \subseteq {rep'[Primary].active}
    /\ \/ rep'[Primary].cfg = rep[Primary].cfg \/ rep'[Primary].cfg = NoConfig
       \/ \E a \in Configs : rep'[Primary].cfg.members = a.act.members
    /\ \A id \in DOMAIN rep'[Primary].done :
          \/ id \in DOMAIN rep[Primary].done /\ rep'[Primary].done[id] = rep[Primary].done[id]
          \/ /\ rep[Primary].active # NoAction /\ id = rep[Primary].active.id
             /\ \A r \in Replica \ {Primary} :
                   rep[Primary].active.act = BuildOf(r) /\ rep'[Primary].done[id] = "Completed" =>
                      rep'[r].data

\* The incarnations that are named exist or have existed.
LEMMA AttemptKept ==
    ASSUME AttemptInv, UNCHANGED op, PrimaryKeeps,
           \A r \in Replica : rep[r].inst \in Nat /\ rep'[r].inst \in Nat /\ rep'[r].inst >= rep[r].inst
    PROVE  AttemptInv'
<1>1. /\ \A m : MembersInv(m) => MembersInv(m)'
      /\ \A id : IdInv(id) => IdInv(id)'
  BY DEF MembersInv, IdInv
<1>2. \A a : ActionInv(a) => ActionInv(a)'
  BY <1>1 DEF ActionInv
<1>3. MembersInv(rep[Primary].cfg.members)'
  <2>1. \A a \in Configs : MembersInv(a.act.members)
    BY DEF AttemptInv, Configs, ActionInv
  <2>2. MembersInv(NoConfig.members)
    BY DEF MembersInv, NoConfig
  <2>3. MembersInv(rep'[Primary].cfg.members)
    BY <2>1, <2>2 DEF PrimaryKeeps, AttemptInv
  <2> QED
    BY <2>3 DEF MembersInv
<1>4. \A a \in Due(Primary)' : ActionInv(a)'
  BY <1>2 DEF PrimaryKeeps, AttemptInv
<1>5. \A id \in DOMAIN rep'[Primary].done : IdInv(id)'
  <2>1. rep[Primary].active # NoAction => rep[Primary].active \in Due(Primary)
    BY InDue
  <2> QED
    BY <1>1, <2>1 DEF PrimaryKeeps, AttemptInv, ActionInv
<1>6. \A r \in Replica : op'.insts[r] \in Nat /\ op'.insts[r] <= rep'[r].inst
  BY DEF AttemptInv
<1>7. PendingIs'
  BY DEF AttemptInv, PendingIs, PendingAct, BuildOf, RemovalOf
<1> QED
  BY <1>3, <1>4, <1>5, <1>6, <1>7 DEF AttemptInv

\* What the primary may have come to know was due there.
LEMMA KnownBefore ==
    ASSUME AttemptInv, PrimaryKeeps
    PROVE  /\ Configs' \subseteq Configs
           /\ rep[Primary].active # NoAction => rep[Primary].active \in Due(Primary)
           /\ rep'[Primary].active # NoAction =>
                 rep'[Primary].active \in Due(Primary)' /\ rep'[Primary].active \in Due(Primary)
           /\ \A a \in Due(Primary) : ActionInv(a)
<1>1. Configs' \subseteq Configs
  BY DEF PrimaryKeeps, Configs
<1>2. /\ rep[Primary].active # NoAction => rep[Primary].active \in Due(Primary)
      /\ rep'[Primary].active # NoAction => rep'[Primary].active \in Due(Primary)'
  BY DEF Due
<1> QED
  BY <1>1, <1>2 DEF PrimaryKeeps, AttemptInv

\* A replica that lives on with what it has.
LEMMA PeerKept ==
    ASSUME AttemptInv, UNCHANGED op, PrimaryKeeps, NEW r \in Replica \ {Primary}, PeerInv(r),
           rep'[r].inst = rep[r].inst, rep[r].data => rep'[r].data,
           pod'[r].exists => pod[r].exists
    PROVE  PeerInv(r)'
<1>1. /\ Configs' \subseteq Configs
      /\ rep[Primary].active # NoAction => rep[Primary].active \in Due(Primary)
      /\ rep'[Primary].active # NoAction =>
            rep'[Primary].active \in Due(Primary)' /\ rep'[Primary].active \in Due(Primary)
      /\ \A a \in Due(Primary) : ActionInv(a)
  BY KnownBefore
<1>2. /\ \A m : Names(m, r)' <=> Names(m, r)
      /\ \A id, act : Of(id, r, act)' <=> Of(id, r, act)
  BY DEF Names, Of
<1>3. Uncounted(r) => Uncounted(r)'
  BY <1>1, <1>2 DEF Uncounted
<1>4. ~MayRemove(r)' => ~MayRemove(r)
  BY DEF MayRemove
<1>5. \A id : /\ Of(id, r, BuildOf(r)) => id[4].do = "Build" /\ id[4] = BuildOf(r)
              /\ Of(id, r, RemovalOf(r)) => id[4].do = "Remove" /\ id[4] = RemovalOf(r)
  BY DEF Of, BuildOf, RemovalOf
<1>6. Names(rep'[Primary].cfg.members, r) => rep'[r].data
  <2>1. ~Names(NoConfig.members, r)
    BY DEF Names, NoConfig
  <2> QED
    BY <2>1 DEF PrimaryKeeps, PeerInv
<1>7. \A a \in Configs' : Names(a.act.members, r) => rep'[r].data
  BY <1>1 DEF PeerInv
<1>8. pod'[r].exists => \A id \in DOMAIN rep'[Primary].done :
         Of(id, r, BuildOf(r)) /\ rep'[Primary].done[id] = "Completed" => rep'[r].data
  BY <1>1, <1>5 DEF PrimaryKeeps, PeerInv, ActionInv
<1>9. ~MayRemove(r)' => /\ \A id \in DOMAIN rep'[Primary].done : ~Of(id, r, RemovalOf(r))
                        /\ \A a \in Due(Primary)' : ~Of(a.id, r, RemovalOf(r))
  BY <1>1, <1>4 DEF PrimaryKeeps, PeerInv
<1>10. (\E id \in DOMAIN rep'[Primary].done : Of(id, r, RemovalOf(r))) => Uncounted(r)'
  BY <1>1, <1>3 DEF PrimaryKeeps, PeerInv
<1>11. rep'[Primary].active # NoAction /\ Of(rep'[Primary].active.id, r, RemovalOf(r)) => Uncounted(r)'
  <2> SUFFICES ASSUME rep'[Primary].active # NoAction, Of(rep'[Primary].active.id, r, RemovalOf(r))
               PROVE  Uncounted(r)'
    OBVIOUS
  <2>1. CASE rep'[Primary].active = rep[Primary].active
    BY <1>3, <2>1 DEF PeerInv
  <2>2. CASE Due(Primary)' \subseteq {rep'[Primary].active}
    <3>1. rep'[Primary].active.act = RemovalOf(r)
      BY <1>1, <1>5 DEF ActionInv
    <3>2. Configs' = {}
      BY <2>2, <3>1 DEF Configs, Configures, RemovalOf
    <3> QED
      BY <3>2 DEF Uncounted
  <2> QED
    BY <2>1, <2>2 DEF PrimaryKeeps
<1>12. BuildOf(r)' = BuildOf(r) /\ RemovalOf(r)' = RemovalOf(r)
  BY DEF BuildOf, RemovalOf
<1> QED
  BY <1>2, <1>3, <1>6, <1>7, <1>8, <1>9, <1>10, <1>11, <1>12 DEF PeerInv

\* A new incarnation, which nothing names.
LEMMA PeerNew ==
    ASSUME AttemptInv, UNCHANGED op, PrimaryKeeps, NEW r \in Replica \ {Primary},
           rep[r].inst \in Nat, rep'[r].inst \in Nat, rep'[r].inst > rep[r].inst,
           op.committed < r, op.committed \in Nat, r \in Nat, op.phase \notin CopiedPhases
    PROVE  PeerInv(r)'
<1>1. /\ Configs' \subseteq Configs
      /\ rep[Primary].active # NoAction => rep[Primary].active \in Due(Primary)
      /\ rep'[Primary].active # NoAction =>
            rep'[Primary].active \in Due(Primary)' /\ rep'[Primary].active \in Due(Primary)
      /\ \A a \in Due(Primary) : ActionInv(a)
  BY KnownBefore
<1>2. \A m : MembersInv(m) => ~Names(m, r)'
  BY DEF MembersInv, Names
<1>3. \A id, act : IdInv(id) => ~Of(id, r, act)'
  BY DEF IdInv, Of
<1>4. MembersInv(rep'[Primary].cfg.members)
  <2>1. \A a \in Configs : MembersInv(a.act.members)
    BY DEF AttemptInv, Configs, ActionInv
  <2>2. MembersInv(NoConfig.members)
    BY DEF MembersInv, NoConfig
  <2> QED
    BY <2>1, <2>2 DEF PrimaryKeeps, AttemptInv
<1>5. \A a \in Configs' : ~Names(a.act.members, r)'
  BY <1>1, <1>2 DEF Configs, ActionInv
<1>6. \A id \in DOMAIN rep'[Primary].done : IdInv(id)
  BY <1>1 DEF PrimaryKeeps, AttemptInv, ActionInv
<1>7. \A a \in Due(Primary)' : IdInv(a.id)
  BY <1>1 DEF PrimaryKeeps, ActionInv
<1>8. ~Names(rep[Primary].cfg.members, r)'
  BY <1>2, <1>4 DEF Names
<1>9. Uncounted(r)'
  BY <1>5 DEF Uncounted
<1>10. (\A id \in DOMAIN rep[Primary].done : ~Of(id, r, BuildOf(r)) /\ ~Of(id, r, RemovalOf(r)))'
  BY <1>3, <1>6
<1>11. (\A a \in Due(Primary) : ~Of(a.id, r, RemovalOf(r)))'
  BY <1>3, <1>7
<1> QED
  BY <1>5, <1>8, <1>9, <1>10, <1>11 DEF PeerInv

\* A replica that is deleted, when nothing counts it.
LEMMA PeerGone ==
    ASSUME AttemptInv, UNCHANGED op, PrimaryKeeps, NEW r \in Replica \ {Primary},
           rep'[r].inst = rep[r].inst, ~pod'[r].exists,
           Uncounted(r), ~Names(rep[Primary].cfg.members, r),
           rep'[Primary].cfg = rep[Primary].cfg,
           op.committed < r, op.committed \in Nat, r \in Nat, op.phase \notin CopiedPhases
    PROVE  PeerInv(r)'
<1>1. Configs' \subseteq Configs
  BY KnownBefore
<1>2. Uncounted(r)' /\ ~Names(rep[Primary].cfg.members, r)'
  BY <1>1 DEF Uncounted, Names
<1>3. MayRemove(r)'
  BY DEF MayRemove
<1> QED
  BY <1>2, <1>3 DEF PeerInv, Uncounted

LEMMA CopyKept ==
    ASSUME CopyInv, UNCHANGED op, hit \subseteq hit', PrimaryKeeps,
           \A s \in Replica : rep[s].inst \in Nat /\ rep'[s].inst \in Nat /\ rep'[s].inst >= rep[s].inst,
           \A s \in Replica \ (hit' \cup {Primary}) :
              /\ rep'[s].inst = rep[s].inst /\ (rep[s].data => rep'[s].data)
              /\ pod'[s].exists => pod[s].exists
    PROVE  CopyInv'
<1>1. AttemptInv'
  BY AttemptKept DEF CopyInv
<1>2. ASSUME NEW s \in Replica \ (hit' \cup {Primary})
      PROVE  PeerInv(s)'
  BY PeerKept DEF CopyInv
<1> QED
  BY <1>1, <1>2 DEF CopyInv

\* The ways the primary's process changes.
LEMMA PrimarySame ==
    ASSUME rep'[Primary] = rep[Primary], net' \subseteq net
    PROVE  PrimaryKeeps
  BY DueSame DEF PrimaryKeeps

LEMMA PrimaryBlank ==
    ASSUME TypeInv, Primary \in Replica, NEW inst \in Nat, net' \subseteq net,
           rep'[Primary] = BlankProcess(inst, rep[Primary].gen + 1)
    PROVE  PrimaryKeeps
<1>1. Due(Primary)' = {}
  BY NothingDue, Zenon
<1>2. ProcessInv(rep[Primary])
  BY DEF TypeInv
<1>3. BlankFacts(rep[Primary], inst, rep'[Primary])
  BY <1>2, BlankIs, Zenon
<1> QED
  BY <1>1, <1>3 DEF PrimaryKeeps, BlankFacts

LEMMA PrimaryAdmits ==
    ASSUME TypeInv, Primary \in Replica, NEW q \in net, q.to = Primary, CanAdmit(rep[Primary], q),
           rep'[Primary] = Admit(rep[Primary], q), net' \subseteq net
    PROVE  PrimaryKeeps
<1>1. /\ Alike(rep[Primary], rep'[Primary])
      /\ rep'[Primary].active \in Due(Primary) /\ Due(Primary)' \subseteq {rep'[Primary].active}
  BY AdmitFacts
<1> QED
  BY <1>1 DEF PrimaryKeeps, Alike

LEMMA PrimaryEnds ==
    ASSUME TypeInv, Primary \in Replica, NEW e, NEW state, Ends(rep[Primary], e, state, rep'[Primary]),
           net' \subseteq net,
           state = "Completed" => \A r \in Replica \ {Primary} :
                                     rep[Primary].active.act = BuildOf(r) => rep'[r].data
    PROVE  PrimaryKeeps
<1>1. rep[Primary].active \in Due(Primary) /\ Due(Primary)' \subseteq Due(Primary)
  BY DueEnds
<1>2. ProcessInv(rep[Primary])
  BY DEF TypeInv
<1>3. /\ RecordedFacts(e, rep[Primary].active.id, state, rep'[Primary])
      /\ state = "Completed" => EffectFacts(rep[Primary], rep[Primary].active.act, e)
      /\ state = "Failed" => ResidueFacts(rep[Primary], rep[Primary].active.act, e)
  BY <1>2, EndFacts
<1>4. /\ state \in {"Completed", "Failed"} /\ e.done = rep[Primary].done
      /\ rep[Primary].active # NoAction
  BY <1>3 DEF Ends, EffectFacts, ResidueFacts
<1>5. \/ rep'[Primary].cfg = rep[Primary].cfg \/ rep'[Primary].cfg = NoConfig
      \/ \E a \in Configs : rep'[Primary].cfg.members = a.act.members
  <2>1. rep'[Primary].cfg = e.cfg
    BY <1>3 DEF RecordedFacts
  <2>2. CASE state = "Failed"
    BY <1>3, <2>1, <2>2 DEF ResidueFacts
  <2>3. CASE state = "Completed" /\ Configures(rep[Primary].active.act)
    <3>1. rep[Primary].active \in Configs
      BY <1>1, <2>3 DEF Configs
    <3>2. rep'[Primary].cfg.members = rep[Primary].active.act.members
      BY <1>3, <2>1, <2>3 DEF EffectFacts
    <3> QED
      BY <3>1, <3>2
  <2>4. CASE state = "Completed" /\ ~Configures(rep[Primary].active.act)
    BY <1>3, <2>1, <2>4 DEF EffectFacts
  <2> QED
    BY <1>4, <2>2, <2>3, <2>4
<1>6. \A id \in DOMAIN rep'[Primary].done :
         \/ id \in DOMAIN rep[Primary].done /\ rep'[Primary].done[id] = rep[Primary].done[id]
         \/ id = rep[Primary].active.id /\ rep'[Primary].done[id] = state
  BY <1>3, <1>4 DEF RecordedFacts
<1>7. rep'[Primary].active = NoAction
  BY <1>3 DEF RecordedFacts
<1> QED
  BY <1>1, <1>4, <1>5, <1>6, <1>7 DEF PrimaryKeeps

\* A process keeps its incarnation and its copy when an action begins or ends.
LEMMA EndsKeep ==
    ASSUME TypeInv, NEW r \in Replica, NEW e, NEW state, Ends(rep[r], e, state, rep'[r])
    PROVE  rep'[r].inst = rep[r].inst /\ rep'[r].data = rep[r].data
<1>1. ProcessInv(rep[r])
  BY DEF TypeInv
<1>2. /\ RecordedFacts(e, rep[r].active.id, state, rep'[r])
      /\ state = "Completed" => EffectFacts(rep[r], rep[r].active.act, e)
      /\ state = "Failed" => ResidueFacts(rep[r], rep[r].active.act, e)
  BY <1>1, EndFacts
<1> QED
  BY <1>2 DEF Ends, RecordedFacts, EffectFacts, ResidueFacts

LEMMA PrimaryCopied ==
    ASSUME TypeInv, Primary \in Replica, rep'[Primary] = [rep[Primary] EXCEPT !.data = TRUE],
           net' \subseteq net
    PROVE  PrimaryKeeps
<1>1. IsRecord(rep[Primary], ProcessFields)
  BY DEF TypeInv, ProcessInv
<1>2. /\ Alike(rep[Primary], rep'[Primary]) /\ rep'[Primary].active = rep[Primary].active
      /\ rep'[Primary].gen = rep[Primary].gen /\ rep'[Primary].ver = rep[Primary].ver
  BY <1>1, CopiedIs
<1>3. \A q : Fresh(Primary, q)' <=> Fresh(Primary, q)
  BY <1>2 DEF Fresh, Alike
<1>4. Due(Primary)' \subseteq Due(Primary)
  BY <1>2, <1>3 DEF Due
<1> QED
  BY <1>2, <1>4 DEF PrimaryKeeps, Alike

LEMMA BlankInst == \A inst, gen : BlankProcess(inst, gen).inst = inst
  BY DEF BlankProcess

\* Agents and faults.
LEMMA CopyAgents ==
    ASSUME IInv, CopyInv, NEW r \in Replica, Agent(r) \/ FailAction(r) \/ Faults(r) \/ Reconnect(r)
    PROVE  CopyInv'
<1>1. /\ TypeInv /\ IsRecord(rep, Replica) /\ IsRecord(pod, Replica) /\ Primary \in Replica
      /\ \A s \in Replica : /\ IsRecord(rep[s], ProcessFields) /\ rep[s].inst \in Nat
                            /\ IsRecord(pod[s], PodFields)
  BY CreateAssumption DEF IInv, TypeInv, ProcessInv, PodInv, Primary, Replica
<1>2. UNCHANGED op /\ net' \subseteq net /\ hit \subseteq hit'
  BY DEF Agent, HandleRequest, CompleteAction, FailAction, Faults, Disconnect, RestartContainer,
     LosePod, ReplacePod, Fault, Reconnect
<1>3. ASSUME PrimaryKeeps, UNCHANGED pod,
             \A s \in Replica : rep'[s].inst = rep[s].inst /\ (rep[s].data => rep'[s].data)
      PROVE  CopyInv'
  BY <1>1, <1>2, <1>3, CopyKept
<1>4. CASE HandleRequest(r)
  <2>1. PICK q \in net :
          /\ q.to = r
          /\ \/ CanAdmit(rep[r], q) /\ rep' = [rep EXCEPT ![r] = Admit(rep[r], q)]
             \/ UNCHANGED rep
    BY <1>4 DEF HandleRequest
  <2>2. UNCHANGED pod
    BY <1>4 DEF HandleRequest
  <2>3. CASE UNCHANGED rep
    BY <1>2, <1>3, <2>2, <2>3, PrimarySame
  <2>4. CASE CanAdmit(rep[r], q) /\ rep' = [rep EXCEPT ![r] = Admit(rep[r], q)]
    <3>1. rep'[r] = Admit(rep[r], q) /\ \A s \in Replica \ {r} : rep'[s] = rep[s]
      BY <1>1, <2>4 DEF IsRecord
    <3>2. rep'[r].inst = rep[r].inst /\ rep'[r].data = rep[r].data
      BY <1>1, <1>2, <2>1, <2>4, <3>1, AdmitFacts DEF Alike
    <3>3. PrimaryKeeps
      BY <1>1, <1>2, <2>1, <2>4, <3>1, PrimaryAdmits, PrimarySame
    <3> QED
      BY <1>3, <2>2, <3>1, <3>2, <3>3
  <2> QED
    BY <2>1, <2>3, <2>4
<1>5. CASE CompleteAction(r)
  <2> DEFINE act == rep[r].active.act
             e == Effect(rep[r], rep[r].active.act)
  <2>1. /\ rep[r].active # NoAction /\ UNCHANGED <<op, pod, net, hit>>
        /\ rep' = [s \in Replica |->
                     IF s = r THEN Completed(rep[s])
                     ELSE IF act.do = "Build" /\ s = act.peer
                     THEN [rep[s] EXCEPT !.data = TRUE] ELSE rep[s]]
    BY <1>5 DEF CompleteAction, MayComplete
  <2>2. rep'[r] = Recorded(e, rep[r].active.id, "Completed")
    BY <2>1 DEF Completed
  <2>3. Ends(rep[r], e, "Completed", rep'[r])
    BY <2>1, <2>2 DEF Ends
  <2>4. rep'[r].inst = rep[r].inst /\ rep'[r].data = rep[r].data
    BY <1>1, <2>3, EndsKeep
  <2>5. \A s \in Replica \ {r} : \/ rep'[s] = rep[s] /\ ~(act.do = "Build" /\ s = act.peer)
                                 \/ rep'[s] = [rep[s] EXCEPT !.data = TRUE]
    BY <2>1
  <2>6. \A s \in Replica \ {r} : /\ rep'[s].inst = rep[s].inst /\ (rep[s].data => rep'[s].data)
                                 /\ act.do = "Build" /\ s = act.peer => rep'[s].data
    <3> TAKE s \in Replica \ {r}
    <3>1. IsRecord(rep[s], ProcessFields)
      BY <1>1
    <3>2. ASSUME NEW p, NEW p2, IsRecord(p, ProcessFields), p2 = [p EXCEPT !.data = TRUE]
          PROVE  p2.inst = p.inst /\ p2.data = TRUE
      BY <3>2 DEF IsRecord, ProcessFields
    <3>3. rep'[s] = [rep[s] EXCEPT !.data = TRUE] =>
             rep'[s].inst = rep[s].inst /\ rep'[s].data = TRUE
      BY <3>1, <3>2
    <3> QED
      BY <2>5, <3>3
  <2>7. PrimaryKeeps
    <3>1. CASE r = Primary
      <4>1. \A s \in Replica \ {Primary} : act = BuildOf(s) => rep'[s].data
        BY <2>6, <3>1 DEF BuildOf
      <4> QED
        BY <1>1, <1>2, <2>3, <3>1, <4>1, PrimaryEnds
    <3>2. CASE r # Primary
      BY <1>1, <1>2, <2>5, <3>2, PrimarySame, PrimaryCopied
    <3> QED
      BY <3>1, <3>2
  <2> QED
    BY <1>3, <2>1, <2>4, <2>6, <2>7
<1>6. CASE FailAction(r)
  <2>1. rep[r].active # NoAction /\ UNCHANGED <<op, pod, net, hit>>
    BY <1>6 DEF FailAction
  <2>2. PICK e \in Residues(rep[r], rep[r].active.act) :
          rep' = [rep EXCEPT ![r] = Recorded(e, rep[r].active.id, "Failed")]
    BY <1>6 DEF FailAction, FailedOutcomes
  <2>3. /\ rep'[r] = Recorded(e, rep[r].active.id, "Failed")
        /\ \A s \in Replica \ {r} : rep'[s] = rep[s]
    BY <1>1, <2>2 DEF IsRecord
  <2>4. Ends(rep[r], e, "Failed", rep'[r])
    BY <2>1, <2>2, <2>3 DEF Ends
  <2>5. rep'[r].inst = rep[r].inst /\ rep'[r].data = rep[r].data
    BY <1>1, <2>4, EndsKeep
  <2>6. PrimaryKeeps
    <3>1. CASE r = Primary
      <4>1. "Failed" = "Completed" => \A s \in Replica \ {Primary} :
                                         rep[Primary].active.act = BuildOf(s) => rep'[s].data
        OBVIOUS
      <4> QED
        BY <1>1, <1>2, <2>4, <3>1, <4>1, PrimaryEnds
    <3>2. CASE r # Primary
      BY <1>1, <1>2, <2>3, <3>2, PrimarySame
    <3> QED
      BY <3>1, <3>2
  <2> QED
    BY <1>3, <2>1, <2>3, <2>5, <2>6
<1>7. CASE Faults(r)
  <2>1. /\ r \in hit'
        /\ \/ UNCHANGED rep
           \/ rep' = [rep EXCEPT ![r] = BlankProcess(rep[r].inst, rep[r].gen + 1)]
           \/ rep' = [rep EXCEPT ![r] = BlankProcess(rep[r].inst + 1, rep[r].gen + 1)]
        /\ UNCHANGED pod \/ \E d : pod' = [pod EXCEPT ![r] = d]
    BY <1>7 DEF Faults, Disconnect, RestartContainer, LosePod, ReplacePod, Fault, Restarted
  <2>2. \A s \in Replica \ {r} : rep'[s] = rep[s] /\ pod'[s] = pod[s]
    BY <1>1, <2>1 DEF IsRecord
  <2>3. \/ rep'[r] = rep[r]
        \/ rep'[r] = BlankProcess(rep[r].inst, rep[r].gen + 1)
        \/ rep'[r] = BlankProcess(rep[r].inst + 1, rep[r].gen + 1)
    BY <1>1, <2>1 DEF IsRecord
  <2>4. rep[r].inst + 1 \in Nat
    BY <1>1
  <2>5. rep'[r].inst = rep[r].inst \/ rep'[r].inst = rep[r].inst + 1
    BY <2>3, BlankInst, Zenon
  <2>6. rep'[r].inst \in Nat /\ rep'[r].inst >= rep[r].inst
    BY <1>1, <2>5
  <2>7. PrimaryKeeps
    <3>1. CASE rep'[Primary] = rep[Primary]
      BY <1>2, <3>1, PrimarySame
    <3>2. CASE r = Primary /\ rep'[r] = BlankProcess(rep[r].inst, rep[r].gen + 1)
      BY <1>1, <1>2, <3>2, PrimaryBlank, Zenon
    <3>3. CASE r = Primary /\ rep'[r] = BlankProcess(rep[r].inst + 1, rep[r].gen + 1)
      BY <1>1, <1>2, <2>4, <3>3, PrimaryBlank, Zenon
    <3> QED
      BY <1>1, <2>2, <2>3, <3>1, <3>2, <3>3, Zenon
  <2> QED
    BY <1>1, <1>2, <2>1, <2>2, <2>6, <2>7, CopyKept
<1>8. CASE Reconnect(r)
  <2>1. UNCHANGED rep /\ pod' = [pod EXCEPT ![r].up = TRUE]
    BY <1>8 DEF Reconnect
  <2>2. \A s \in Replica : pod'[s].exists = pod[s].exists
    BY <1>1, <2>1 DEF IsRecord, PodFields
  <2>3. PrimaryKeeps
    BY <1>2, <2>1, PrimarySame
  <2> QED
    BY <1>1, <1>2, <2>1, <2>2, <2>3, CopyKept
<1> QED
  BY <1>4, <1>5, <1>6, <1>7, <1>8 DEF Agent

-----------------------------------------------------------------------------

\* The action of a phase is of the kind its id says.
LEMMA PendingActIs ==
    ASSUME op.phase \in DOMAIN After
    PROVE  PendingAct(ActionFor)
<1>1. ActionFacts
  BY ActionIs
<1>2. /\ op.phase \in Forward \cup (Compensating \ {"CreateCompensateFinalize"})
      /\ op.phase \notin {"CreateCommitPrimary", "CreateCommitSecondary"} \cup Labelling
  BY AfterIs
<1>3. CASE op.phase \in Forward
  <2>1. op.phase \in PrimaryPhases \cup {"CreateOpenSecondary", "CreateUpdateSecondaryEpoch",
                       "CreateAssignSecondaryIdle", "CreateAssignSecondaryActive"} =>
           ActionFor.do \in {"Open", "ChangeRole", "UpdateEpoch", "Current"}
    BY <1>1, <1>2 DEF ActionFacts, Opening, PrimaryPhases
  <2>2. op.phase \in Configuring => ActionFor.do \in {"CatchUp", "Wait", "Current"}
    BY <1>1 DEF ActionFacts, Configuring
  <2>3. op.phase = "CreateBuildSecondary" => ActionFor = BuildOf(op.target)
    BY <1>1 DEF ActionFacts, BuildOf
  <2>4. op.phase # "CreateCompensateRemoveCandidate"
    BY <1>3 DEF Forward, PrimaryPhases, SecondaryPhases, Configuring
  <2> QED
    BY <1>2, <1>3, <2>1, <2>2, <2>3, <2>4 DEF PendingAct, Forward, SecondaryPhases
<1>4. CASE op.phase \in Compensating \ {"CreateCompensateFinalize"}
  <2>1. op.phase = "CreateCompensateRemoveCandidate" => ActionFor = RemovalOf(op.target)
    BY <1>1 DEF ActionFacts, RemovalOf
  <2>2. op.phase \in Compensating \ {"CreateCompensateFinalize", "CreateCompensateRemoveCandidate",
                                     "CreateCompensateDeleteCandidate"} =>
           ActionFor.do \in {"Current", "ChangeRole", "Close"}
    BY <1>1 DEF ActionFacts, Compensating
  <2>3. op.phase # "CreateBuildSecondary"
    BY <1>4 DEF Compensating
  <2> QED
    BY <1>4, <2>1, <2>2, <2>3 DEF PendingAct
<1> QED
  BY <1>2, <1>3, <1>4

\* The configurations that are dispatched.
LEMMA DispatchedMembers ==
    ASSUME TypeInv, op.phase \in DOMAIN After, op.phase # "CreateCompensateDeleteCandidate",
           Configures(ActionFor)
    PROVE  \/ ActionFor.members = Secondaries(op.committed)
           \/ op.phase \in Configuring /\ ActionFor.members = Secondaries(op.target)
           \/ ActionFor.members = {}
<1>1. ActionFacts
  BY ActionIs
<1>2. /\ op.phase \in Forward \cup (Compensating \ {"CreateCompensateFinalize"})
      /\ op.phase \notin {"CreateCommitPrimary", "CreateCommitSecondary"} \cup Labelling
  BY AfterIs
<1>3. OperationInv
  BY DEF TypeInv
<1>4. CASE op.phase = "CreatePrimaryCurrentConfiguration"
  <2>1. op.target = 1
    BY <1>3, <1>4 DEF OperationInv, PrimaryPhases, Forward
  <2>2. Secondaries(1) = {}
    BY DEF Secondaries
  <2> QED
    BY <1>1, <1>4, <2>1, <2>2 DEF ActionFacts
<1>5. CASE op.phase \in Forward \ {"CreatePrimaryCurrentConfiguration"}
  <2>1. op.phase \in Configuring
    <3> SUFFICES ASSUME op.phase \notin Configuring PROVE FALSE
      OBVIOUS
    <3> QED
      BY <1>1, <1>2, <1>5
      DEF ActionFacts, Configures, Forward, PrimaryPhases, SecondaryPhases, Opening
  <2> QED
    BY <1>1, <2>1 DEF ActionFacts, Configures, Configuring
<1>6. CASE op.phase \in Compensating \ {"CreateCompensateFinalize"}
  BY <1>1, <1>6 DEF ActionFacts, Configures, Compensating
<1> QED
  BY <1>2, <1>4, <1>5, <1>6

\* The operator dispatches.
LEMMA CopyDispatch ==
    ASSUME IInv, CopyInv, op.pending # NoAction, DispatchAction(Observation)
    PROVE  CopyInv'
<1> DEFINE new == [id |-> op.pending.id, act |-> ActionFor]
<1>1. /\ TypeInv /\ OperationInv /\ AttemptInv /\ PendingIs /\ Primary \in Replica
      /\ \A r \in Replica : rep[r].inst \in Nat /\ r \in Nat
  BY CreateAssumption DEF IInv, TypeInv, ProcessInv, CopyInv, AttemptInv, Primary, Replica
<1>2. /\ op.phase \notin Labelling /\ op.phase # "CreateCompensateDeleteCandidate"
      /\ UNCHANGED <<op, stable, rep, pod, hit>>
      /\ \A r \in Replica : r # T => Due(r)' = Due(r)
      /\ Due(T)' \subseteq Due(T) \cup {new}
  BY <1>1, DispatchFacts
<1>3. /\ T \in Replica /\ T = IF op.phase \in AtPrimary THEN Primary ELSE op.target
      /\ op.phase \in DOMAIN After /\ op.target = op.committed + 1 /\ op.committed \in Nat
  BY <1>1, <1>2, TargetIs
<1>4. /\ Due(Primary)' \subseteq Due(Primary) \cup {new}
      /\ T # Primary => Due(Primary)' = Due(Primary)
  <2>1. \A r : r = T => Due(r)' \subseteq Due(r) \cup {new}
    BY <1>2 DEF T
  <2> QED
    BY <1>1, <1>2, <2>1
<1>5. PendingAct(ActionFor) /\ PendingAct(op.pending.id[4]) /\ op.pending.id[1] = op.insts
  BY <1>1, <1>3, PendingActIs DEF PendingIs
<1>6. new.id = op.pending.id /\ new.act = ActionFor
  OBVIOUS
<1> HIDE DEF new
<1>7. Configures(ActionFor) =>
         \/ ActionFor.members = Secondaries(op.committed)
         \/ op.phase \in Configuring /\ ActionFor.members = Secondaries(op.target)
         \/ ActionFor.members = {}
  BY <1>1, <1>2, <1>3, DispatchedMembers
<1>8. Configures(ActionFor) => MembersInv(ActionFor.members)
  <2>1. \A k \in 1..N : MembersInv(Secondaries(k))
    BY <1>1, CreateAssumption DEF MembersInv, Secondaries, AttemptInv, Primary, Replica
  <2>2. op.target \in 1..N /\ (op.committed \in 1..N \/ op.committed = 0)
    BY <1>1, CreateAssumption DEF OperationInv, Replica
  <2>3. MembersInv({}) /\ Secondaries(0) = {}
    BY DEF MembersInv, Secondaries
  <2> QED
    BY <1>7, <2>1, <2>2, <2>3
<1>9. ActionInv(new)
  <2>1. IdInv(new.id)
    BY <1>1, <1>5, <1>6 DEF IdInv, AttemptInv
  <2>2. \/ new.act.do \in {"Build", "Remove"}
        \/ new.id[4].do \in {"Build", "Remove"}
        => new.id[4] = new.act
    BY <1>2, <1>5, <1>6 DEF PendingAct
  <2> QED
    BY <1>6, <1>8, <2>1, <2>2 DEF ActionInv
<1>10. /\ \A m : MembersInv(m)' <=> MembersInv(m)
       /\ \A id : IdInv(id)' <=> IdInv(id)
       /\ \A a : ActionInv(a)' <=> ActionInv(a)
       /\ \A m, r : Names(m, r)' <=> Names(m, r)
       /\ \A id, r, act : Of(id, r, act)' <=> Of(id, r, act)
       /\ \A r : MayRemove(r)' <=> MayRemove(r)
  BY <1>2 DEF MembersInv, IdInv, ActionInv, Names, Of, MayRemove
<1>11. AttemptInv'
  <2>1. PendingIs' /\ MembersInv(rep[Primary].cfg.members)'
    BY <1>1, <1>2 DEF AttemptInv, PendingIs, PendingAct, MembersInv, BuildOf, RemovalOf
  <2>2. \A a \in Due(Primary)' : ActionInv(a)'
    BY <1>1, <1>4, <1>9, <1>10 DEF AttemptInv
  <2> QED
    BY <1>1, <1>2, <1>10, <2>1, <2>2 DEF AttemptInv
<1>12. ASSUME NEW r \in Replica \ (hit \cup {Primary})
       PROVE  PeerInv(r)'
  <2>1. PeerInv(r) /\ ReplicaInv(r) /\ r \in Nat
    BY <1>1 DEF CopyInv, IInv
  <2>2. Configures(ActionFor) /\ Names(ActionFor.members, r) =>
           \/ r <= op.committed
           \/ r = op.target /\ op.phase \in Configuring
    <3> SUFFICES ASSUME Configures(ActionFor), <<r, rep[r].inst>> \in ActionFor.members
                 PROVE  r <= op.committed \/ (r = op.target /\ op.phase \in Configuring)
      BY DEF Names
    <3>1. \A k : <<r, rep[r].inst>> \in Secondaries(k) => r \in 2..k
      BY DEF Secondaries
    <3> QED
      BY <1>1, <1>3, <1>7, <2>1, <3>1
  <2>3. Configures(ActionFor) /\ Names(ActionFor.members, r) => rep[r].data /\ ~MayRemove(r)
    <3>1. CASE r <= op.committed
      <4>1. pod[r].exists
        BY <2>1, <3>1 DEF ReplicaInv, Settled
      <4>2. op.phase # "Poisoned" /\ r # op.target
        BY <1>3, <2>1, <3>1, AfterIs DEF Forward, PrimaryPhases, SecondaryPhases, Configuring, Compensating
      <4> QED
        BY <2>1, <3>1, <4>1, <4>2 DEF PeerInv, MayRemove
    <3>2. CASE r = op.target /\ op.phase \in Configuring
      <4>1. pod[r].exists
        BY <2>1, <3>2 DEF ReplicaInv, Progress, Forward, SecondaryPhases
      <4>2. op.phase \notin {"Poisoned", "CreateCompensateRemoveCandidate"} \cup Removed
        BY <3>2 DEF Configuring, Removed
      <4> QED
        BY <2>1, <3>2, <4>1, <4>2 DEF PeerInv, MayRemove, CopiedPhases
    <3> QED
      BY <2>2, <3>1, <3>2
  <2>4. \A a \in Configs' : a \in Configs \/ (a = new /\ Configures(ActionFor))
    BY <1>4, <1>6 DEF Configs
  <2>5. \A a \in Configs' : Names(a.act.members, r) => rep[r].data
    BY <1>6, <2>1, <2>3, <2>4 DEF PeerInv
  <2>6. ~MayRemove(r) => ~Of(new.id, r, RemovalOf(r))
    <3> SUFFICES ASSUME op.pending.id[4] = RemovalOf(r) PROVE MayRemove(r)
      BY <1>6 DEF Of
    <3>1. op.pending.id[4].do = "Remove" /\ op.pending.id[4].peer = r
      BY DEF RemovalOf
    <3>2. op.phase = "CreateCompensateRemoveCandidate" /\ r = op.target
      BY <1>2, <1>5, <3>1 DEF PendingAct, BuildOf, RemovalOf
    <3> QED
      BY <3>2 DEF MayRemove
  <2>7. \/ \E id \in DOMAIN rep[Primary].done : Of(id, r, RemovalOf(r))
        \/ rep[Primary].active # NoAction /\ Of(rep[Primary].active.id, r, RemovalOf(r))
        => Uncounted(r) /\ MayRemove(r)
    <3>1. rep[Primary].active # NoAction => rep[Primary].active \in Due(Primary)
      BY InDue
    <3> QED
      BY <2>1, <3>1 DEF PeerInv
  <2>8. Uncounted(r) /\ MayRemove(r) => Uncounted(r)'
    BY <1>6, <1>10, <2>3, <2>4 DEF Uncounted
  <2>9. r = op.target /\ op.phase \in Removed => Uncounted(r)'
    <3>1. r = op.target /\ op.phase \in Removed => MayRemove(r) /\ Uncounted(r)
      BY <2>1 DEF MayRemove, PeerInv
    <3> QED
      BY <2>8, <3>1
  <2>10. ~MayRemove(r) => \A a \in Due(Primary)' : ~Of(a.id, r, RemovalOf(r))
    BY <1>4, <2>1, <2>6 DEF PeerInv
  <2>11. BuildOf(r)' = BuildOf(r) /\ RemovalOf(r)' = RemovalOf(r)
    BY DEF BuildOf, RemovalOf
  <2>12. Names(rep[Primary].cfg.members, r)' <=> Names(rep[Primary].cfg.members, r)
    BY <1>2 DEF Names
  <2> QED
    BY <1>2, <1>10, <2>1, <2>5, <2>7, <2>8, <2>9, <2>10, <2>11, <2>12 DEF PeerInv
<1> QED
  BY <1>2, <1>11, <1>12 DEF CopyInv

\* Pods are created and deleted.
LEMMA CopyEnsurePods ==
    ASSUME IInv, CopyInv, EnsurePods
    PROVE  CopyInv'
<1>1. /\ TypeInv /\ OperationInv /\ AttemptInv /\ Primary \in Replica /\ op.committed \in Nat
      /\ \A r \in Replica : rep[r].inst \in Nat /\ rep[r].inst + 1 \in Nat /\ r \in Nat
  BY CreateAssumption DEF IInv, TypeInv, OperationInv, ProcessInv, CopyInv, Primary, Replica
<1>2. /\ op.phase \in {"None", "Failed"} /\ UNCHANGED <<op, net, hit>> /\ net' \subseteq net
      /\ \A r \in Replica :
            /\ pod[r].exists => rep'[r] = rep[r] /\ pod'[r] = pod[r]
            /\ ~pod[r].exists => rep'[r] = BlankProcess(rep[r].inst + 1, rep[r].gen + 1)
  BY DEF EnsurePods
<1>3. \A r \in Replica : /\ pod[r].exists => rep'[r].inst = rep[r].inst
                         /\ ~pod[r].exists => rep'[r].inst = rep[r].inst + 1
  <2> TAKE r \in Replica
  <2>1. BlankProcess(rep[r].inst + 1, rep[r].gen + 1).inst = rep[r].inst + 1
    BY BlankInst, Zenon
  <2> QED
    BY <1>2, <2>1
<1>4. \A r \in Replica : rep'[r].inst \in Nat /\ rep'[r].inst >= rep[r].inst
  BY <1>1, <1>3
<1>5. PrimaryKeeps
  <2>1. CASE pod[Primary].exists
    BY <1>1, <1>2, <2>1, PrimarySame
  <2>2. CASE ~pod[Primary].exists
    <3>1. rep'[Primary] = BlankProcess(rep[Primary].inst + 1, rep[Primary].gen + 1)
      BY <1>1, <1>2, <2>2
    <3> QED
      BY <1>1, <1>2, <3>1, PrimaryBlank, Zenon
  <2> QED
    BY <2>1, <2>2
<1>6. AttemptInv'
  BY <1>1, <1>2, <1>4, <1>5, AttemptKept
<1>7. ASSUME NEW r \in Replica \ (hit \cup {Primary})
      PROVE  PeerInv(r)'
  <2>1. PeerInv(r) /\ ReplicaInv(r)
    BY DEF CopyInv, IInv
  <2>2. CASE pod[r].exists
    BY <1>1, <1>2, <1>5, <2>1, <2>2, PeerKept
  <2>3. CASE ~pod[r].exists
    <3>1. op.committed < r
      BY <1>1, <2>1, <2>3 DEF ReplicaInv, Settled
    <3>2. op.phase \notin CopiedPhases
      BY <1>2 DEF CopiedPhases, Configuring
    <3>3. rep'[r].inst > rep[r].inst
      BY <1>1, <1>3, <2>3
    <3> QED
      BY <1>1, <1>2, <1>4, <1>5, <3>1, <3>2, <3>3, PeerNew
  <2> QED
    BY <2>2, <2>3
<1> QED
  BY <1>2, <1>6, <1>7 DEF CopyInv

LEMMA CopyDeletePod ==
    ASSUME IInv, CopyInv, Sound, op.pending # NoAction, DeletePod(Observation)
    PROVE  CopyInv'
<1>1. /\ TypeInv /\ OperationInv /\ AttemptInv /\ Primary \in Replica /\ op.committed \in Nat
      /\ IsRecord(rep, Replica) /\ IsRecord(pod, Replica)
      /\ \A r \in Replica : /\ rep[r].inst \in Nat /\ r \in Nat /\ IsRecord(pod[r], PodFields)
  BY CreateAssumption
  DEF IInv, TypeInv, OperationInv, ProcessInv, PodInv, CopyInv, Primary, Replica
<1>2. /\ op.phase = "CreateCompensateDeleteCandidate" /\ UNCHANGED <<op, net, hit>>
      /\ rep' = [rep EXCEPT ![T] = Restarted(rep[T])]
      /\ pod' = [pod EXCEPT ![T].exists = FALSE]
  BY DEF DeletePod
<1>3. T = op.target /\ op.target = op.committed + 1 /\ T \in Replica
  BY <1>1, <1>2, TargetIs DEF Labelling, AtPrimary, Configuring
<1>4. /\ rep'[op.target] = BlankProcess(rep[op.target].inst, rep[op.target].gen + 1)
      /\ ~pod'[op.target].exists
      /\ \A r \in Replica \ {op.target} : rep'[r] = rep[r] /\ pod'[r] = pod[r]
  <2>1. rep' = [rep EXCEPT ![op.target] = BlankProcess(rep[op.target].inst, rep[op.target].gen + 1)]
    BY <1>2, <1>3 DEF Restarted
  <2>2. /\ rep'[op.target] = BlankProcess(rep[op.target].inst, rep[op.target].gen + 1)
        /\ \A r \in Replica \ {op.target} : rep'[r] = rep[r]
    BY <1>1, <1>3, <2>1 DEF IsRecord
  <2>3. ~pod'[op.target].exists /\ \A r \in Replica \ {op.target} : pod'[r] = pod[r]
    BY <1>1, <1>2, <1>3 DEF IsRecord, PodFields
  <2> QED
    BY <2>2, <2>3
<1>5. rep'[op.target].inst = rep[op.target].inst
  <2>1. BlankProcess(rep[op.target].inst, rep[op.target].gen + 1).inst = rep[op.target].inst
    BY BlankInst, Zenon
  <2> QED
    BY <1>4, <2>1
<1>6. PrimaryKeeps
  <2>1. CASE op.target # Primary
    BY <1>1, <1>2, <1>4, <2>1, PrimarySame
  <2>2. CASE op.target = Primary
    BY <1>1, <1>2, <1>4, <2>2, PrimaryBlank, Zenon
  <2> QED
    BY <2>1, <2>2
<1>7. AttemptInv'
  <2>1. \A r \in Replica : rep'[r].inst = rep[r].inst
    BY <1>1, <1>4, <1>5
  <2> QED
    BY <1>1, <1>2, <1>6, <2>1, AttemptKept
<1>8. ASSUME NEW r \in Replica \ (hit \cup {Primary})
      PROVE  PeerInv(r)'
  <2>1. PeerInv(r)
    BY DEF CopyInv
  <2>2. CASE r # op.target
    BY <1>1, <1>2, <1>4, <1>6, <2>1, <2>2, PeerKept
  <2>3. CASE r = op.target
    <3>1. Uncounted(r)
      BY <1>2, <2>1, <2>3 DEF PeerInv, Removed
    <3>2. rep[Primary].cfg.members = Secondaries(op.committed)
      <4>1. op.committed > 0
        BY <1>1, <1>3, <2>3 DEF Primary
      <4>2. rep[Primary].cfg = ConfigOf("Current", op.committed)
        BY <1>2, <4>1, ExpectedIs DEF Sound, CommittedHolds, ExpectedFacts, Compensating
      <4> QED
        BY <4>2 DEF ConfigOf
    <3>3. ~Names(rep[Primary].cfg.members, r)
      BY <1>1, <1>3, <2>3, <3>2 DEF Names, Secondaries
    <3>4. op.committed < r /\ op.phase \notin CopiedPhases
      BY <1>1, <1>2, <1>3, <2>3 DEF CopiedPhases, Configuring
    <3>5. rep'[Primary].cfg = rep[Primary].cfg
      BY <1>1, <1>4, <2>3
    <3> QED
      BY <1>1, <1>2, <1>4, <1>5, <1>6, <2>3, <3>1, <3>3, <3>4, <3>5, PeerGone
  <2> QED
    BY <2>2, <2>3
<1> QED
  BY <1>2, <1>7, <1>8 DEF CopyInv

\* The operation in another phase.
LEMMA CopyMoved ==
    ASSUME CopyInv, UNCHANGED <<rep, pod, net, hit>>, NEW phase, Moved(op, op', phase),
           \A r \in Replica \ (hit \cup {Primary}) :
              /\ r = op.target /\ phase \in CopiedPhases => rep[r].data
              /\ MayRemove(r) => MayRemove(r)'
              /\ r = op.target /\ phase \in Removed => Uncounted(r)
    PROVE  CopyInv'
<1>1. /\ op'.insts = op.insts /\ op'.pending = NoAction /\ op'.phase = phase
      /\ op'.committed = op.committed /\ op'.target = op.target
  BY DEF Moved
<1>2. PendingIs'
  BY <1>1 DEF PendingIs
<1>3. \A r \in Replica : op'.insts[r] \in Nat /\ op'.insts[r] <= rep[r].inst
  BY <1>1 DEF CopyInv, AttemptInv
<1>4. \A r \in Replica \ (hit \cup {Primary}) : r <= op'.committed => rep[r].data
  BY <1>1 DEF CopyInv, PeerInv
<1> QED
  BY <1>1, <1>2, <1>3, <1>4, CopyMoves

\* The same phase, with another pending action or index.
LEMMA CopySame ==
    ASSUME CopyInv, UNCHANGED <<rep, pod, net, hit>>, PendingIs',
           op'.phase = op.phase, op'.insts = op.insts, op'.committed = op.committed,
           op'.target = op.target
    PROVE  CopyInv'
<1>1. \A r \in Replica : op'.insts[r] \in Nat /\ op'.insts[r] <= rep[r].inst
  BY DEF CopyInv, AttemptInv
<1>2. ASSUME NEW r \in Replica \ (hit \cup {Primary})
      PROVE  /\ r <= op'.committed \/ (r = op'.target /\ op'.phase \in CopiedPhases) => rep[r].data
             /\ MayRemove(r) => MayRemove(r)'
             /\ r = op'.target /\ op'.phase \in Removed => Uncounted(r)
  BY DEF CopyInv, PeerInv, MayRemove
<1> QED
  BY <1>1, <1>2, CopyMoves

LEMMA CopyPoisoned ==
    ASSUME CopyInv, UNCHANGED <<rep, pod, net, hit>>, Moved(op, op', "Poisoned")
    PROVE  CopyInv'
<1>1. \A r : MayRemove(r)'
  BY DEF MayRemove, Moved
<1> QED
  BY <1>1, CopyMoved DEF CopiedPhases, Configuring, Removed

\* The operation gives up.
LEMMA CopyGivenUp ==
    ASSUME IInv, CopyInv, op.phase \in Forward \cup Compensating \cup Labelling,
           UNCHANGED <<rep, pod, net, hit>>, Moved(op, op', OnFailure)
    PROVE  CopyInv'
<1>1. CASE OnFailure = "Poisoned"
  BY <1>1, CopyPoisoned
<1>2. CASE op.phase \in Forward /\ OnFailure # "Poisoned"
  <2>1. /\ OnFailure \in CopiedPhases => op.phase \in CopiedPhases
        /\ OnFailure \in Removed => op.phase = "CreateOpenPrimary"
    BY <1>2 DEF OnFailure, CopiedPhases, Removed, Configuring, Forward, PrimaryPhases, SecondaryPhases
  <2>2. op.phase = "CreateOpenPrimary" => op.target = Primary
    BY DEF IInv, TypeInv, OperationInv, Forward, PrimaryPhases, Primary
  <2>3. \A r : MayRemove(r) => MayRemove(r)'
    BY <1>2 DEF MayRemove, Removed, Forward, PrimaryPhases, SecondaryPhases, Configuring
  <2>4. \A r \in Replica \ (hit \cup {Primary}) :
           r = op.target /\ op.phase \in CopiedPhases => rep[r].data
    BY DEF CopyInv, PeerInv
  <2> QED
    BY <2>1, <2>2, <2>3, <2>4, CopyMoved
<1> QED
  BY <1>1, <1>2, OnFailureIs

\* The record of the pending action: the primary has run it.
LEMMA PendingDone ==
    ASSUME IInv, CopyInv, op.pending # NoAction, Observation = "Postcondition",
           op.phase \in {"CreateBuildSecondary", "CreateCompensateRemoveCandidate"}
    PROVE  /\ op.pending.id \in DOMAIN rep[Primary].done
           /\ rep[Primary].done[op.pending.id] = "Completed"
           /\ op.pending.id[1] = op.insts /\ PendingAct(op.pending.id[4])
<1>1. TypeInv /\ PendingIs
  BY DEF IInv, CopyInv, AttemptInv
<1>2. T = Primary /\ P = rep[Primary] /\ ProcessInv(P)
  BY <1>1, TargetIs DEF Labelling, AtPrimary
<1>3. Same(T)
  BY <1>1, ObservationIs
<1>4. DirectObservation # "Postcondition"
  BY DirectIs DEF DirectFacts
<1>5. Record(P, op.pending.id) = "Completed"
  BY <1>1, <1>3, <1>4, ObservationIs
<1> QED
  BY <1>1, <1>2, <1>5, RecordIs DEF PendingIs

\* The candidate has the copy when the build is done.
LEMMA CopyForward ==
    ASSUME IInv, CopyInv, op.pending # NoAction, Observation = "Postcondition", op.phase \in Forward,
           op.phase \in DOMAIN After,
           UNCHANGED <<rep, pod, net, hit>>, Moved(op, op', After[op.phase])
    PROVE  CopyInv'
<1>1. /\ After[op.phase] \in CopiedPhases =>
            op.phase = "CreateBuildSecondary" \/ op.phase \in CopiedPhases
      /\ After[op.phase] \notin Removed
  <2>1. AfterFacts /\ op.phase \notin {"CreateCommitPrimary", "CreateCommitSecondary"}
    BY AfterIs
  <2>2. CASE op.phase \in PrimaryPhases
    BY <2>1, <2>2 DEF AfterFacts, CopiedPhases, Removed, Configuring, PrimaryPhases
  <2>3. CASE op.phase \in SecondaryPhases
    BY <2>1, <2>3 DEF AfterFacts, CopiedPhases, Removed, Configuring, SecondaryPhases
  <2> QED
    BY <2>2, <2>3 DEF Forward
<1>2. ASSUME NEW r \in Replica \ (hit \cup {Primary}), r = op.target, After[op.phase] \in CopiedPhases
      PROVE  rep[r].data
  <2>1. PeerInv(r) /\ ReplicaInv(r)
    BY DEF CopyInv, IInv
  <2>2. CASE op.phase \in CopiedPhases
    BY <1>2, <2>1, <2>2 DEF PeerInv
  <2>3. CASE op.phase = "CreateBuildSecondary"
    <3>1. /\ op.pending.id \in DOMAIN rep[Primary].done
          /\ rep[Primary].done[op.pending.id] = "Completed"
          /\ op.pending.id[1] = op.insts /\ PendingAct(op.pending.id[4])
      BY <2>3, PendingDone
    <3>2. pod[r].exists /\ Same(r)
      BY <1>2, <2>1, <2>3 DEF ReplicaInv, Progress
    <3>3. Of(op.pending.id, r, BuildOf(r))
      BY <1>2, <2>3, <3>1, <3>2 DEF Of, PendingAct, Same
    <3> QED
      BY <2>1, <3>1, <3>2, <3>3 DEF PeerInv
  <2> QED
    BY <1>1, <1>2, <2>2, <2>3
<1>3. \A r : MayRemove(r) => MayRemove(r)'
  BY DEF MayRemove, Removed, Forward, PrimaryPhases, SecondaryPhases, Configuring
<1> QED
  BY <1>1, <1>2, <1>3, CopyMoved

\* The compensation goes on: nothing counts the candidate once it is removed.
LEMMA CopyBack ==
    ASSUME IInv, CopyInv, op.pending # NoAction, Observation = "Postcondition",
           op.phase \in Compensating \ {"CreateCompensateFinalize"},
           UNCHANGED <<rep, pod, net, hit>>, Moved(op, op', After[op.phase])
    PROVE  CopyInv'
<1>1. /\ op'.phase = After[op.phase] /\ op'.target = op.target /\ AfterFacts
      /\ TypeInv /\ PendingInv
  BY AfterIs DEF Moved, IInv, TypeInv, OperationInv
<1>2. CASE op.phase = "CreateCompensateRestoreConfiguration"
  <2>1. \A r : MayRemove(r) => MayRemove(r)'
    BY <1>2 DEF MayRemove, Removed
  <2> QED
    BY <1>1, <1>2, <2>1, CopyMoved DEF AfterFacts, CopiedPhases, Configuring, Removed
<1>3. CASE op.phase = "CreateCompensateRemoveCandidate"
  <2>1. After[op.phase] = "CreateCompensateDemoteCandidate"
    BY <1>1, <1>3 DEF AfterFacts
  <2>2. \A r : MayRemove(r) => MayRemove(r)'
    BY <1>1, <1>3, <2>1 DEF MayRemove, Removed
  <2>3. ASSUME NEW r \in Replica \ (hit \cup {Primary}), r = op.target
        PROVE  Uncounted(r)
    <3>1. /\ op.pending.id \in DOMAIN rep[Primary].done
          /\ op.pending.id[1] = op.insts /\ PendingAct(op.pending.id[4])
      BY <1>3, PendingDone
    <3>2. PeerInv(r) /\ Same(r)
      BY <1>3 DEF CopyInv, IInv, ReplicaInv
    <3>3. Of(op.pending.id, r, RemovalOf(r))
      BY <1>3, <2>3, <3>1, <3>2 DEF Of, PendingAct, Same
    <3> QED
      BY <3>1, <3>2, <3>3 DEF PeerInv
  <2> QED
    BY <2>1, <2>2, <2>3, CopyMoved DEF CopiedPhases, Configuring
<1>4. CASE op.phase \in {"CreateCompensateDemoteCandidate", "CreateCompensateCloseCandidate"}
  <2>1. After[op.phase] \in Removed /\ op.phase \in Removed /\ After[op.phase] \notin CopiedPhases
    BY <1>1, <1>4 DEF AfterFacts, Removed, CopiedPhases, Configuring
  <2>2. \A r : MayRemove(r) => MayRemove(r)'
    BY <1>1, <1>4, <2>1 DEF MayRemove
  <2>3. \A r \in Replica \ (hit \cup {Primary}) : r = op.target => Uncounted(r)
    BY <2>1 DEF CopyInv, PeerInv
  <2> QED
    BY <2>1, <2>2, <2>3, CopyMoved
<1>5. CASE op.phase = "CreateCompensateDeleteCandidate"
  <2>1. After[op.phase] = "CreateCompensateFinalize"
    BY <1>1, <1>5 DEF AfterFacts
  <2>2. T = op.target
    BY <1>1, <1>5, TargetIs DEF Labelling, AtPrimary, Configuring
  <2>3. ~Observed(T) \/ ~Same(T)
    BY <1>5, EitherIs DEF Observation
  <2>4. ASSUME NEW r \in Replica \ (hit \cup {Primary}), MayRemove(r)
        PROVE  MayRemove(r)'
    <3>1. CASE r = op.target
      <4>1. pod[r].up /\ Same(r)
        BY <1>5 DEF IInv, ReplicaInv
      <4>2. ~pod[r].exists
        BY <2>2, <2>3, <3>1, <4>1 DEF Observed
      <4> QED
        BY <4>2 DEF MayRemove
    <3>2. CASE r # op.target
      BY <1>5, <2>4, <3>2 DEF MayRemove
    <3> QED
      BY <3>1, <3>2
  <2> QED
    BY <2>1, <2>4, CopyMoved DEF CopiedPhases, Configuring, Removed
<1> QED
  BY <1>2, <1>3, <1>4, <1>5 DEF Compensating

\* Steps of the compensation without an answer.
LEMMA CopySkipped ==
    ASSUME IInv, CopyInv, UNCHANGED <<rep, pod, net, hit>>,
           \/ /\ op.phase \in {"CreateCompensateDemoteCandidate", "CreateCompensateCloseCandidate"}
              /\ Moved(op, op', After[op.phase])
           \/ /\ op.phase = "CreateCompensateRemoveCandidate" /\ op.committed = 0
              /\ Moved(op, op', "CreateCompensateDemoteCandidate")
           \/ op.phase = "CreateCompensateFinalize" /\ Moved(op, op', "Failed")
           \/ op.phase = "CreatePublishRouting" /\ Moved(op, op', "CreateFinalize")
           \/ op.phase = "CreateFinalize" /\ Moved(op, op', "Completed")
           \/ op.phase = "CreateFenceRouting" /\ Moved(op, op', "Failed")
    PROVE  CopyInv'
<1>1. CASE /\ op.phase \in {"CreateCompensateDemoteCandidate", "CreateCompensateCloseCandidate"}
           /\ Moved(op, op', After[op.phase])
  <2>1. After[op.phase] \in Removed /\ op.phase \in Removed /\ After[op.phase] \notin CopiedPhases
    BY <1>1, AfterIs DEF AfterFacts, Removed, CopiedPhases, Configuring
  <2>2. \A r : MayRemove(r) => MayRemove(r)'
    BY <1>1, <2>1 DEF MayRemove, Moved
  <2>3. \A r \in Replica \ (hit \cup {Primary}) : r = op.target => Uncounted(r)
    BY <2>1 DEF CopyInv, PeerInv
  <2> QED
    BY <1>1, <2>1, <2>2, <2>3, CopyMoved
<1>2. CASE /\ op.phase = "CreateCompensateRemoveCandidate" /\ op.committed = 0
           /\ Moved(op, op', "CreateCompensateDemoteCandidate")
  <2>1. op.target = Primary
    BY <1>2 DEF IInv, TypeInv, OperationInv, Compensating, Primary
  <2>2. \A r : MayRemove(r) => MayRemove(r)'
    BY <1>2 DEF MayRemove, Moved, Removed
  <2> QED
    BY <1>2, <2>1, <2>2, CopyMoved DEF CopiedPhases, Configuring
<1>3. ASSUME NEW phase, Moved(op, op', phase), phase \in {"Failed", "CreateFinalize", "Completed"},
             op.phase \in {"CreateCompensateFinalize", "CreatePublishRouting", "CreateFinalize",
                           "CreateFenceRouting"}
      PROVE  CopyInv'
  <2>1. \A r : MayRemove(r) => MayRemove(r)'
    BY <1>3 DEF MayRemove, Removed
  <2>2. phase \notin CopiedPhases \cup Removed
    BY <1>3 DEF CopiedPhases, Configuring, Removed
  <2> QED
    BY <1>3, <2>1, <2>2, CopyMoved
<1> QED
  BY <1>1, <1>2, <1>3

\* Another member is committed, or is next.
LEMMA CopyCommitted ==
    ASSUME IInv, CopyInv, UNCHANGED <<rep, pod, net, hit>>,
           op.phase \notin Compensating \cup {"Poisoned"},
           op'.insts = op.insts, op'.pending = NoAction,
           op'.phase \notin CopiedPhases \cup Removed,
           \/ op'.committed = op.committed
           \/ /\ op'.committed = op.target /\ op.target = op.committed + 1
              /\ op.phase \in CopiedPhases \/ op.target = Primary
    PROVE  CopyInv'
<1>1. op.committed \in Nat /\ \A r \in Replica : r \in Nat
  BY CreateAssumption DEF IInv, TypeInv, OperationInv, Replica
<1>2. PendingIs'
  BY DEF PendingIs
<1>3. \A r \in Replica : op'.insts[r] \in Nat /\ op'.insts[r] <= rep[r].inst
  BY DEF CopyInv, AttemptInv
<1>4. \A r : MayRemove(r) => MayRemove(r)'
  BY DEF MayRemove, Removed, Compensating
<1>5. ASSUME NEW r \in Replica \ (hit \cup {Primary}), r <= op'.committed
      PROVE  rep[r].data
  <2>1. PeerInv(r)
    BY DEF CopyInv
  <2>2. r <= op.committed \/ (r = op.target /\ op.phase \in CopiedPhases)
    BY <1>1, <1>5 DEF Primary
  <2> QED
    BY <2>1, <2>2 DEF PeerInv
<1> QED
  BY <1>2, <1>3, <1>4, <1>5, CopyMoves

\* A label changes.
LEMMA CopyLabelled ==
    ASSUME IInv, CopyInv, UNCHANGED <<op, rep, net, hit>>, NEW r \in Replica, NEW l,
           pod' = [pod EXCEPT ![r].label = l]
    PROVE  CopyInv'
<1>1. /\ IsRecord(pod, Replica)
      /\ \A s \in Replica : IsRecord(pod[s], PodFields) /\ rep[s].inst \in Nat
  BY DEF IInv, TypeInv, PodInv, ProcessInv
<1>2. \A s \in Replica : pod'[s].exists = pod[s].exists
  BY <1>1 DEF IsRecord, PodFields
<1>3. PrimaryKeeps
  BY PrimarySame
<1> QED
  BY <1>1, <1>2, <1>3, CopyKept

LEMMA CopyBegun ==
    ASSUME IInv, CopyInv, op.pending = NoAction, BeginAction
    PROVE  CopyInv'
<1> DEFINE pending == [id |-> ActionId, target |-> TargetOf, fences |-> << >>]
<1>1. /\ op.phase \in Acting /\ UNCHANGED <<rep, pod, net, hit>>
      /\ op' = [op EXCEPT !.late = FALSE, !.pending = pending]
  BY DEF BeginAction, Persist
<1>2. pending.id[1] = op.insts /\ pending.id[4] = ActionFor
  BY DEF ActionId
<1>3. IsRecord(op, OperationFields)
  BY DEF IInv, TypeInv, OperationInv
<1> HIDE DEF pending
<1>4. /\ op'.phase = op.phase /\ op'.insts = op.insts /\ op'.committed = op.committed
      /\ op'.target = op.target /\ op'.pending = pending
  BY <1>1, <1>3 DEF IsRecord, OperationFields
<1>5. PendingAct(ActionFor)
  <2>1. CASE op.phase \in DOMAIN After
    BY <2>1, PendingActIs
  <2>2. CASE op.phase \in Labelling
    BY <2>2 DEF PendingAct, Labelling
  <2> QED
    BY <1>1, <2>1, <2>2 DEF Acting
<1>6. \A act : PendingAct(act)' <=> PendingAct(act)
  BY <1>4 DEF PendingAct, BuildOf, RemovalOf
<1>7. PendingIs'
  <2>1. op'.pending.id[4] = ActionFor /\ op'.pending.id[1] = op'.insts
    BY <1>2, <1>4
  <2>2. PendingAct(op.pending.id[4])'
    BY <1>4, <1>5, <2>1 DEF PendingAct, BuildOf, RemovalOf
  <2> QED
    BY <2>1, <2>2 DEF PendingIs
<1> QED
  BY <1>1, <1>4, <1>7, CopySame

\* The fences or the lateness of the pending action change, or the index.
LEMMA CopyPending ==
    ASSUME IInv, CopyInv, UNCHANGED <<rep, pod, net, hit>>, NEW f,
           \/ op' = [op EXCEPT !.late = TRUE]
           \/ op' = [op EXCEPT !.pending.fences = f] /\ op.pending # NoAction
           \/ op' = [WithPhase(op.phase) EXCEPT !.index = @ + 1]
    PROVE  CopyInv'
<1>1. IsRecord(op, OperationFields) /\ PendingInv /\ PendingIs
  BY DEF IInv, TypeInv, OperationInv, CopyInv, AttemptInv
<1>2. /\ op'.phase = op.phase /\ op'.insts = op.insts /\ op'.committed = op.committed
      /\ op'.target = op.target
      /\ \/ op'.pending = NoAction \/ op'.pending = op.pending
         \/ op.pending # NoAction /\ op'.pending.id = op.pending.id
  <2>1. CASE op' = [op EXCEPT !.late = TRUE]
    BY <1>1, <2>1 DEF IsRecord, OperationFields
  <2>2. CASE op' = [op EXCEPT !.pending.fences = f] /\ op.pending # NoAction
    <3> DEFINE pending == [op.pending EXCEPT !.fences = f]
    <3>1. op' = [op EXCEPT !.pending = pending]
      BY <2>2
    <3>2. pending.id = op.pending.id
      BY <1>1, <2>2 DEF PendingInv, IsRecord, PendingFields
    <3> HIDE DEF pending
    <3> QED
      BY <1>1, <2>2, <3>1, <3>2 DEF IsRecord, OperationFields
  <2>3. CASE op' = [WithPhase(op.phase) EXCEPT !.index = @ + 1]
    <3> DEFINE w == WithPhase(op.phase)
    <3>1. Moved(op, w, op.phase) /\ op' = [w EXCEPT !.index = w.index + 1]
      BY <1>1, <2>3, WithPhaseIs
    <3> HIDE DEF w
    <3> QED
      BY <3>1 DEF Moved, IsRecord, OperationFields
  <2> QED
    BY <2>1, <2>2, <2>3
<1>3. PendingIs'
  <2>1. CASE op'.pending = NoAction
    BY <2>1 DEF PendingIs
  <2>2. CASE op'.pending # NoAction /\ op.pending # NoAction /\ op'.pending.id = op.pending.id
    <3>1. op.pending.id[1] = op.insts /\ PendingAct(op.pending.id[4])
      BY <1>1, <2>2 DEF PendingIs
    <3>2. PendingAct(op.pending.id[4])'
      BY <1>2, <2>2, <3>1 DEF PendingAct, BuildOf, RemovalOf
    <3> QED
      BY <1>2, <2>2, <3>1, <3>2 DEF PendingIs
  <2> QED
    BY <1>2, <2>1, <2>2
<1> QED
  BY <1>2, <1>3, CopySame

LEMMA CopyDriven ==
    ASSUME IInv, CopyInv, Sound, op.pending # NoAction, op.phase # "CreateFenceRouting",
           DriveAction(Observation)
    PROVE  CopyInv'
<1>1. TypeInv /\ OperationInv /\ IsRecord(op, OperationFields) /\ T \in Replica
  BY DEF IInv, TypeInv, OperationInv, PendingInv, T
<1>2. \/ op.phase = "CreatePublishRouting"
      \/ /\ op.phase \in DOMAIN After /\ op.phase \notin Labelling
         /\ op.phase \in Forward \cup (Compensating \ {"CreateCompensateFinalize"})
  BY <1>1, TargetIs DEF Labelling
<1>3. CASE ActionDone(Observation)
  <2>1. /\ Observation = "Postcondition" /\ UNCHANGED <<rep, pod, net, hit>>
        /\ \/ op.phase # "CreatePublishRouting" /\ op' = WithPhase(After[op.phase])
           \/ op.phase = "CreatePublishRouting" /\ op' = WithPhase("CreateFinalize")
           \/ op' = [WithPhase(op.phase) EXCEPT !.index = @ + 1]
    BY <1>3 DEF ActionDone, Persist
  <2>2. CASE op.phase # "CreatePublishRouting" /\ op' = WithPhase(After[op.phase])
    <3>1. Moved(op, op', After[op.phase])
      BY <1>1, <2>2, WithPhaseIs
    <3> QED
      BY <1>2, <2>1, <2>2, <3>1, CopyForward, CopyBack
  <2>3. CASE op.phase = "CreatePublishRouting" /\ op' = WithPhase("CreateFinalize")
    <3>1. Moved(op, op', "CreateFinalize")
      BY <1>1, <2>3, WithPhaseIs
    <3> QED
      BY <2>1, <2>3, <3>1, CopySkipped
  <2>4. CASE op' = [WithPhase(op.phase) EXCEPT !.index = @ + 1]
    BY <2>1, <2>4, CopyPending
  <2> QED
    BY <2>1, <2>2, <2>3, <2>4
<1>4. CASE SkipUnavailable(Observation)
  <2>1. /\ op.phase \in {"CreateCompensateDemoteCandidate", "CreateCompensateCloseCandidate"}
        /\ op' = WithPhase(After[op.phase]) /\ UNCHANGED <<rep, pod, net, hit>>
    BY <1>4 DEF SkipUnavailable, Skippable, Persist
  <2>2. Moved(op, op', After[op.phase])
    BY <1>1, <2>1, WithPhaseIs
  <2> QED
    BY <2>1, <2>2, CopySkipped
<1>5. CASE ActionGivenUp(Observation)
  <2>1. UNCHANGED <<rep, pod, net, hit>> /\ Moved(op, op', OnFailure)
    BY <1>1, <1>5, WithPhaseIs DEF ActionGivenUp, Persist
  <2>2. op.phase \in Forward \cup Compensating \cup Labelling
    BY <1>2 DEF Labelling
  <2> QED
    BY <2>1, <2>2, CopyGivenUp
<1>6. CASE ActionPoisons(Observation)
  <2>1. UNCHANGED <<rep, pod, net, hit>> /\ Moved(op, op', "Poisoned")
    BY <1>1, <1>6, WithPhaseIs DEF ActionPoisons, Persist
  <2> QED
    BY <2>1, CopyPoisoned
<1>7. CASE PublishLabel(Observation)
  <2>1. /\ UNCHANGED <<op, rep, net, hit>>
        /\ pod' = [pod EXCEPT ![T].label = IF T = Primary THEN "primary" ELSE "secondary"]
    BY <1>7 DEF PublishLabel
  <2> QED
    BY <1>1, <2>1, CopyLabelled
<1>8. CASE DeletePod(Observation)
  BY <1>8, CopyDeletePod
<1>9. CASE PlanDispatch(Observation)
  <2>1. op' = [op EXCEPT !.pending.fences = Fences(P)] /\ UNCHANGED <<rep, pod, net, hit>>
    BY <1>9 DEF PlanDispatch, Persist
  <2> QED
    BY <2>1, CopyPending
<1>10. CASE DispatchAction(Observation)
  BY <1>10, CopyDispatch
<1> QED
  BY <1>3, <1>4, <1>5, <1>6, <1>7, <1>8, <1>9, <1>10 DEF DriveAction

LEMMA CopyFenced ==
    ASSUME IInv, CopyInv, op.phase = "CreateFenceRouting", Fencing
    PROVE  CopyInv'
<1>1. OperationInv /\ IsRecord(op, OperationFields) /\ op.committed \in 0..N /\ op.committed # N
      /\ F \in Replica
  BY CreateAssumption DEF IInv, TypeInv, OperationInv, Unstarted, F, Replica
<1>2. CASE FenceLabel
  BY <1>1, <1>2, CopyLabelled DEF FenceLabel
<1>3. CASE FenceDone \/ FenceGivenUp
  <2>1. /\ UNCHANGED <<rep, pod, net, hit>>
        /\ \/ op' = NextMember(op.committed)
           \/ op' = [WithPhase(op.phase) EXCEPT !.index = @ + 1]
           \/ op' = WithPhase("Poisoned") \/ op' = WithPhase("Failed")
    BY <1>3 DEF FenceDone, FenceGivenUp, Persist, RestartOrPoison
  <2>2. CASE op' = NextMember(op.committed)
    <3>1. /\ op'.committed = op.committed /\ op'.insts = op.insts /\ op'.pending = NoAction
          /\ op'.phase \in {"CreateOpenPrimary", "CreateOpenSecondary"}
      BY <1>1, <2>2, NextMemberIs
    <3>2. op'.phase \notin CopiedPhases \cup Removed
      BY <3>1 DEF CopiedPhases, Configuring, Removed
    <3> QED
      BY <2>1, <3>1, <3>2, CopyCommitted DEF Compensating
  <2>3. CASE op' = [WithPhase(op.phase) EXCEPT !.index = @ + 1]
    BY <2>1, <2>3, CopyPending
  <2>4. CASE op' = WithPhase("Poisoned") \/ op' = WithPhase("Failed")
    <3>1. Moved(op, op', "Poisoned") \/ Moved(op, op', "Failed")
      BY <1>1, <2>4, WithPhaseIs
    <3> QED
      BY <2>1, <3>1, CopyPoisoned, CopySkipped
  <2> QED
    BY <2>1, <2>2, <2>3, <2>4
<1> QED
  BY <1>2, <1>3 DEF Fencing

LEMMA CopyAdvanced ==
    ASSUME IInv, CopyInv, Sound, Advance
    PROVE  CopyInv'
<1>1. TypeInv /\ OperationInv /\ IsRecord(op, OperationFields)
  BY DEF IInv, TypeInv, OperationInv
<1>2. CASE Commit
  <2>1. /\ op.phase \in {"CreateCommitPrimary", "CreateCommitSecondary"}
        /\ UNCHANGED <<rep, pod, net, hit>>
        /\ \/ op' = WithPhase("Poisoned")
           \/ op' = NextMember(op.target)
           \/ op' = [WithPhase("Failed") EXCEPT !.committed = op.target]
    BY <1>2 DEF Commit, Persist
  <2>2. /\ op.target \in 0..N /\ op.target = op.committed + 1 /\ op.committed \in Nat
        /\ op.phase \in CopiedPhases \/ op.target = Primary
    BY <1>1, <2>1
    DEF OperationInv, Replica, Primary, CopiedPhases, Forward, PrimaryPhases, SecondaryPhases
  <2>3. CASE op' = WithPhase("Poisoned")
    <3>1. Moved(op, op', "Poisoned")
      BY <1>1, <2>3, WithPhaseIs
    <3> QED
      BY <2>1, <3>1, CopyPoisoned
  <2>4. CASE op' = NextMember(op.target) \/ op' = [WithPhase("Failed") EXCEPT !.committed = op.target]
    <3>1. /\ op'.committed = op.target /\ op'.insts = op.insts /\ op'.pending = NoAction
          /\ op'.phase \in {"CreateOpenSecondary", "CreatePublishRouting", "Failed"}
      <4>1. CASE op' = NextMember(op.target)
        <5>1. op.target # 0
          BY <2>2
        <5> QED
          BY <1>1, <2>2, <4>1, <5>1, NextMemberIs
      <4>2. CASE op' = [WithPhase("Failed") EXCEPT !.committed = op.target]
        <5> DEFINE w == WithPhase("Failed")
        <5>1. Moved(op, w, "Failed") /\ op' = [w EXCEPT !.committed = op.target]
          BY <1>1, <4>2, WithPhaseIs
        <5> HIDE DEF w
        <5> QED
          BY <5>1 DEF Moved, IsRecord, OperationFields
      <4> QED
        BY <2>4, <4>1, <4>2
    <3>2. op'.phase \notin CopiedPhases \cup Removed
      BY <3>1 DEF CopiedPhases, Configuring, Removed
    <3> QED
      BY <2>1, <2>2, <3>1, <3>2, CopyCommitted DEF Compensating
  <2> QED
    BY <2>1, <2>3, <2>4
<1>3. CASE Finalize \/ SkipRemove \/ RestartCreation
  <2>1. /\ UNCHANGED <<rep, pod, net, hit>>
        /\ \/ op.phase = "CreateFinalize" /\ op' = WithPhase("Completed")
           \/ /\ op.phase = "CreateCompensateRemoveCandidate" /\ op.committed = 0
              /\ op' = WithPhase("CreateCompensateDemoteCandidate")
           \/ op.phase = "CreateCompensateFinalize" /\ op' = WithPhase("Failed")
    BY <1>3 DEF Finalize, SkipRemove, RestartCreation, Persist
  <2>2. \/ op.phase = "CreateFinalize" /\ Moved(op, op', "Completed")
        \/ /\ op.phase = "CreateCompensateRemoveCandidate" /\ op.committed = 0
           /\ Moved(op, op', "CreateCompensateDemoteCandidate")
        \/ op.phase = "CreateCompensateFinalize" /\ Moved(op, op', "Failed")
    BY <1>1, <2>1, WithPhaseIs
  <2> QED
    BY <2>1, <2>2, CopySkipped
<1>4. CASE op.pending = NoAction /\ BeginAction
  BY <1>4, CopyBegun
<1>5. CASE op.phase = "CreateFenceRouting" /\ Fencing
  BY <1>5, CopyFenced
<1>6. CASE op.pending # NoAction /\ op.phase # "CreateFenceRouting" /\ DriveAction(Observation)
  BY <1>6, CopyDriven
<1> QED
  BY <1>2, <1>3, <1>4, <1>5, <1>6 DEF Advance

LEMMA CopyInductive ==
    ASSUME IInv, CopyInv, [Next]_vars
    PROVE  CopyInv'
<1>1. TypeInv /\ OperationInv /\ IsRecord(op, OperationFields)
  BY DEF IInv, TypeInv, OperationInv
<1>2. CASE EnsurePods
  BY <1>2, CopyEnsurePods
<1>3. CASE StartCreate
  <2>1. /\ op.phase \in {"None", "Failed"} /\ UNCHANGED <<rep, pod, net, hit>>
        /\ op'.phase = "CreateFenceRouting" /\ op'.committed = op.committed
        /\ op'.insts = [r \in Replica |-> rep[r].inst] /\ op'.pending = NoAction
    BY <1>3 DEF StartCreate
  <2>2. \A r \in Replica : op'.insts[r] \in Nat /\ op'.insts[r] <= rep[r].inst
    BY <1>1, <2>1 DEF TypeInv, ProcessInv
  <2>3. PendingIs'
    BY <2>1 DEF PendingIs
  <2>4. \A r : MayRemove(r) => MayRemove(r)'
    BY <2>1 DEF MayRemove, Removed
  <2>5. op'.phase \notin CopiedPhases \cup Removed
    BY <2>1 DEF CopiedPhases, Configuring, Removed
  <2>6. \A r \in Replica \ (hit \cup {Primary}) : r <= op'.committed => rep[r].data
    BY <2>1 DEF CopyInv, PeerInv
  <2> QED
    BY <2>1, <2>2, <2>3, <2>4, <2>5, <2>6, CopyMoves
<1>4. CASE FailClosed
  <2>1. UNCHANGED <<rep, pod, net, hit>> /\ Moved(op, op', "Poisoned")
    BY <1>1, <1>4, WithPhaseIs DEF FailClosed, Persist
  <2> QED
    BY <2>1, CopyPoisoned
<1>5. CASE Sound /\ CandidateLost
  <2>1. /\ op.phase \notin Compensating \cup Labelling \cup {"CreateFinalize"}
        /\ UNCHANGED <<rep, pod, net, hit>> /\ Moved(op, op', OnFailure)
    BY <1>1, <1>5, WithPhaseIs DEF CandidateLost, CandidateChanged, Persist
  <2>2. op.phase \in Phases /\ op.phase \notin Terminal
    BY <1>1, <1>5 DEF OperationInv, Sound, Active
  <2>3. op.phase \in Forward
    BY <2>1, <2>2 DEF Phases, Routing, Unstarted, Terminal, Labelling
  <2> QED
    BY <2>1, <2>3, CopyGivenUp
<1>6. CASE Sound /\ Advance
  BY <1>6, CopyAdvanced
<1>7. CASE DeadlinePasses
  <2>1. UNCHANGED <<rep, pod, net, hit>> /\ op' = [op EXCEPT !.late = TRUE]
    BY <1>7 DEF DeadlinePasses
  <2> QED
    BY <2>1, CopyPending
<1>8. ASSUME NEW r \in Replica, Agent(r) \/ FailAction(r) \/ Faults(r) \/ Reconnect(r)
      PROVE  CopyInv'
  BY <1>8, CopyAgents
<1>9. CASE UNCHANGED vars
  <2>1. \A r \in Replica : rep[r].inst \in Nat
    BY <1>1 DEF TypeInv, ProcessInv
  <2>2. PrimaryKeeps
    BY <1>9, PrimarySame DEF vars
  <2> QED
    BY <1>9, <2>1, <2>2, CopyKept DEF vars
<1> QED
  BY <1>2, <1>3, <1>4, <1>5, <1>6, <1>7, <1>8, <1>9 DEF Next, Reconcile

LEMMA CopyInit == Init => CopyInv
<1> SUFFICES ASSUME Init
             PROVE  CopyInv
  OBVIOUS
<1>1. /\ op.phase = "None" /\ op.committed = 0 /\ op.pending = NoAction
      /\ \A r \in Replica : op.insts[r] = 0
      /\ \A r \in Replica : pod[r].exists
      /\ net = {}
  BY DEF Init
<1>2. \A r \in Replica : /\ rep[r].inst = 0 /\ rep[r].active = NoAction
                         /\ DOMAIN rep[r].done = {} /\ rep[r].cfg.members = {}
  <2> DEFINE p == BlankProcess(0, 0)
  <2>1. p.inst = 0 /\ p.active = NoAction /\ DOMAIN p.done = {} /\ p.cfg.members = {}
    BY DEF BlankProcess, NoConfig
  <2> HIDE DEF p
  <2>2. \A r \in Replica : rep[r] = p
    BY DEF Init, p
  <2> QED
    BY <2>1, <2>2
<1>3. Primary \in Replica
  BY CreateAssumption DEF Primary, Replica
<1>4. Due(Primary) = {} /\ Configs = {}
  BY <1>1, <1>2, <1>3 DEF Due, Configs
<1>5. AttemptInv
  BY <1>1, <1>2, <1>3, <1>4 DEF AttemptInv, PendingIs, MembersInv
<1>6. \A r \in Replica : PeerInv(r)
  <2> TAKE r \in Replica
  <2>1. ~(r <= 0)
    BY CreateAssumption DEF Replica
  <2>2. op.phase \notin CopiedPhases \cup Removed
    BY <1>1 DEF CopiedPhases, Configuring, Removed
  <2> QED
    BY <1>1, <1>2, <1>3, <1>4, <2>1, <2>2 DEF PeerInv, Names, Uncounted
<1> QED
  BY <1>5, <1>6 DEF CopyInv

LEMMA CopyInvariance == Spec => []CopyInv
  BY CopyInit, CopyInductive, Invariance, PTL DEF Spec

-----------------------------------------------------------------------------
(* The configuration, the copies and the routing.                          *)

LEMMA SecondariesCounted ==
    ASSUME NEW k \in Nat, k >= 1
    PROVE  IsFiniteSet(Secondaries(k)) /\ Cardinality(Secondaries(k)) <= k - 1
<1> DEFINE f == [r \in 2..k |-> <<r, op.insts[r]>>]
           S == Secondaries(k)
<1>1. f \in Surjection(2..k, S)
  BY DEF Secondaries, Surjection
<1>2. IsFiniteSet(2..k) /\ Cardinality(2..k) = k - 1
  BY FS_Interval
<1> HIDE DEF f, S
<1>3. IsFiniteSet(S) /\ Cardinality(S) <= Cardinality(2..k)
  BY <1>1, <1>2, FS_Surjection
<1> QED
  BY <1>2, <1>3 DEF S

\* The committed members and at most a candidate are no more than they should be.
LEMMA FitsCounted ==
    ASSUME NEW m, op.committed \in Nat, op.committed >= 1, Fits(m)
    PROVE  Secondaries(op.committed) \subseteq m /\ Cardinality(m) <= op.committed
<1> DEFINE S == Secondaries(op.committed)
<1>1. IsFiniteSet(S) /\ Cardinality(S) \in Nat /\ Cardinality(S) <= op.committed - 1
  BY SecondariesCounted, FS_CardinalityType
<1>2. m = S \/ \E p : m = S \cup {p}
  BY DEF Fits
<1> HIDE DEF S
<1>3. CASE m = S
  BY <1>1, <1>3 DEF S
<1>4. ASSUME NEW p, m = S \cup {p}
      PROVE  S \subseteq m /\ Cardinality(m) <= op.committed
  <2>1. Cardinality(m) = IF p \in S THEN Cardinality(S) ELSE Cardinality(S) + 1
    BY <1>1, <1>4, FS_AddElement
  <2> QED
    BY <1>1, <1>4, <2>1
<1> QED
  BY <1>2, <1>3, <1>4 DEF S

LEMMA WellTyped ==
    ASSUME TypeInv
    PROVE  TypeOK
<1>1. OperationInv /\ PendingInv
  BY DEF TypeInv, OperationInv
<1>2. op.phase \in Terminal \cup Acting \cup
          {"CreateCommitPrimary", "CreateCommitSecondary", "CreateFinalize",
           "CreateCompensateFinalize"}
  <2>1. DOMAIN After = {"CreateOpenPrimary", "CreatePromotePrimary",
           "CreatePrimaryCurrentConfiguration", "CreateOpenSecondary",
           "CreateUpdateSecondaryEpoch", "CreateAssignSecondaryIdle",
           "CreateBuildSecondary", "CreateAssignSecondaryActive",
           "CreateCatchUpConfiguration", "CreateWaitForCatchUpQuorum",
           "CreateCurrentConfiguration", "CreateCompensateRestoreConfiguration",
           "CreateCompensateRemoveCandidate", "CreateCompensateDemoteCandidate",
           "CreateCompensateCloseCandidate", "CreateCompensateDeleteCandidate"}
    BY DEF After
  <2> QED
    BY <1>1, <2>1
    DEF OperationInv, Phases, Forward, PrimaryPhases, SecondaryPhases, Configuring, Compensating,
        Routing, Unstarted, Terminal, Acting, Labelling
<1>3. op.pending # NoAction => op.phase \in Acting /\ op.pending.target \in Replica
  BY <1>1 DEF PendingInv
<1>4. \A r \in Replica :
         /\ rep[r].role \in {"Unknown", "None", "Primary", "IdleSecondary", "ActiveSecondary"}
         /\ rep[r].epoch \in 0..Epoch
         /\ pod[r].label \in {"bootstrap", "primary", "secondary"}
  BY DEF TypeInv, ProcessInv, PodInv, Roles
<1> QED
  BY <1>1, <1>2, <1>3, <1>4 DEF TypeOK, OperationInv

\* Through compensations and restarts the primary's configuration holds the
\* committed members and at most the candidate besides, a replica that counts in
\* it has a copy of the state, and no pod serves before every member is committed.
THEOREM ConfigurationsCopiesAndRouting == Spec => []Consistent
<1>1. ASSUME IInv, LabelInv, ConfigInv, CopyInv
      PROVE  Consistent
  <2>1. TypeInv /\ TypeOK
    BY <1>1, WellTyped DEF IInv
  <2>2. CommittedIsConfigured
    <3> SUFFICES ASSUME op.committed > 0, Primary \notin hit
                 PROVE  /\ Secondaries(op.committed) \subseteq rep[Primary].cfg.members
                        /\ Cardinality(rep[Primary].cfg.members) <= op.committed
      BY DEF CommittedIsConfigured
    <3>1. op.committed \in Nat /\ op.committed >= 1
      BY <2>1 DEF TypeInv, OperationInv
    <3>2. Fits(rep[Primary].cfg.members)
      BY <1>1, <3>1 DEF ConfigInv, PrimaryInv
    <3> QED
      BY <3>1, <3>2, FitsCounted
  <2>3. ConfiguredHasCopy
    <3> SUFFICES ASSUME NEW r \in Replica \ hit, <<r, rep[r].inst>> \in rep[Primary].cfg.members
                 PROVE  rep[r].data
      BY DEF ConfiguredHasCopy
    <3>1. r # Primary
      <4>1. MembersInv(rep[Primary].cfg.members)
        BY <1>1 DEF CopyInv, AttemptInv
      <4> QED
        BY <4>1 DEF MembersInv
    <3>2. PeerInv(r)
      BY <1>1, <3>1 DEF CopyInv
    <3> QED
      BY <3>2 DEF PeerInv, Names
  <2> QED
    BY <1>1, <2>1, <2>2, <2>3 DEF Consistent, LabelInv
<1> QED
  BY <1>1, Invariance, LabelInvariance, ConfigInvariance, CopyInvariance, PTL

=============================================================================
