--------------------------- MODULE SwitchoverProofs ---------------------------
(***************************************************************************)
(* Two replicas never take client writes at once, for every set of         *)
(* replicas and any number of switchovers, faults and missed deadlines.    *)
(* The argument: only an installed configuration grants writes, so that a  *)
(* replica may still come to take writes if it does already, if it runs    *)
(* the installation of a configuration, or if a request for one is on its  *)
(* way that its agent would admit.  No step of an agent adds to those      *)
(* replicas.  The operator does when it dispatches a configuration, to the *)
(* one replica that holds writes in the phase of the operation.            *)
(*                                                                         *)
(* The second part shows that what was granted survives: every replica     *)
(* that is a primary or may still be promoted holds it.                    *)
(***************************************************************************)
EXTENDS Switchover, FiniteSetTheorems, WellFoundedInduction, TLAPS

IsRecord(f, fields) == f = [x \in fields |-> f[x]]

ProcessFields ==
    {"inst", "gen", "ver", "active", "done", "open", "role", "epoch", "wal", "write", "cfg", "data"}

OperationFields ==
    {"phase", "old", "target", "prev", "next", "insts", "index", "frozen", "pending", "late"}

PendingFields == {"id", "kind", "target", "fences"}

-----------------------------------------------------------------------------
(* The phases.                                                             *)

Settled == {"Idle", "Completed", "Failed"}

\* The old primary has not given up its role for good, or is to have it back.
Before ==
    {"Revoke", "CaptureLsn", "PreCatchUp", "DemoteOldPrimary", "RestorePreviousConfiguration",
     "Failing"}

Compensating ==
    {"CompensatePromoteOldPrimary", "CompensateDistributeEpoch", "CompensateCatchUpConfiguration",
     "CompensateCurrentConfiguration", "CompensateLabelOldPrimary",
     "CompensateLabelTargetSecondary", "CompensateFinalize"}

After ==
    {"DistributeEpoch", "UpdateCatchUpConfiguration", "WaitForCatchUpQuorum",
     "UpdateCurrentConfiguration", "LabelTargetPrimary", "LabelOldSecondary", "Finalize"}

Phases == Settled \cup Before \cup Compensating \cup After \cup {"PromoteTarget", "Poisoned"}

\* The largest epoch of a primary: the promotions of an operation are
\* dispatched when its old primary was demoted.
Top == IF op.phase \in Settled \cup Before THEN stable.epoch ELSE op.next

\* The actions that install a configuration on the old primary, or the target.
OldConfigures ==
    {"RestorePreviousConfiguration", "CompensateCatchUpConfiguration",
     "CompensateCurrentConfiguration"}

TargetConfigures == {"UpdateCatchUpConfiguration", "UpdateCurrentConfiguration"}

OperationInv ==
    /\ op.phase \in Phases
    /\ stable.epoch \in Nat
    /\ op.phase # "Idle" => IsRecord(op, OperationFields)
    /\ op.phase \notin Settled =>
          /\ op.old = stable.primary /\ op.prev = stable.epoch /\ op.next = stable.epoch + 1
          /\ op.pending # NoAction =>
                /\ IsRecord(op.pending, PendingFields)
                /\ op.phase \in DOMAIN Kind /\ op.pending.kind = Kind[op.phase]
                /\ op.pending.id[1] = op.prev /\ op.pending.id[3] = op.pending.kind
                /\ op.pending.kind \in OldConfigures \cup {"DemoteOldPrimary"} =>
                      op.pending.target = op.old
                /\ op.pending.kind \in TargetConfigures => op.pending.target = op.target

-----------------------------------------------------------------------------
(* Actions and requests.                                                   *)

Granting(act) == act.do \in {"CatchUp", "Current"}

\* An action that was dispatched to a replica in epoch e while no primary has an
\* epoch above top.
ActionInv(id, act, e, top) ==
    /\ act.do \in {"Revoke", "ChangeRole", "UpdateEpoch", "CatchUp", "Current", "Wait"}
    /\ act.do \in {"ChangeRole", "UpdateEpoch"} => act.epoch \in Nat /\ act.epoch >= e
    /\ act.do = "ChangeRole" /\ act.role # "Primary" => act.epoch > e
    /\ act.do = "UpdateEpoch" \/ (act.do = "ChangeRole" /\ act.role = "Primary") => act.epoch <= top
    /\ id[3] = "DemoteOldPrimary" =>
          /\ act.do = "ChangeRole" /\ act.role = "ActiveSecondary"
          /\ id[1] \in Nat /\ act.epoch = id[1] + 1

\* The fences of q were observed at the process p, or at one before it.
Past(p, q) ==
    /\ q.fences.gen \in Nat /\ q.fences.ver \in Nat /\ q.fences.seen \in Nat
    /\ q.fences.gen <= p.gen
    /\ q.fences.gen = p.gen => q.fences.ver <= p.ver
    /\ q.fences.gen = p.gen /\ q.fences.ver = p.ver => q.fences.seen <= p.epoch

Live(p, q) == q.fences.gen = p.gen /\ q.fences.ver = p.ver /\ q.fences.seen = p.epoch

RequestInv(p, q, top) ==
    /\ Past(p, q)
    /\ ActionInv(q.id, q.act, q.fences.seen, top)
    /\ Live(p, q) /\ Granting(q.act) => p.role = "Primary"

ProcessInv(p, top) ==
    /\ IsRecord(p, ProcessFields)
    /\ p.gen \in Nat /\ p.ver \in Nat /\ p.epoch \in Nat
    /\ p.active # NoAction =>
          /\ ActionInv(p.active.id, p.active.act, p.epoch, top)
          /\ Granting(p.active.act) => p.role = "Primary"
    /\ p.write = "Granted" => p.role = "Primary"
    /\ p.role = "Primary" => p.epoch <= top
    /\ \A id \in DOMAIN p.done :
          /\ p.done[id] \in {"Completed", "Failed"}
          /\ p.done[id] = "Completed" /\ id[3] = "DemoteOldPrimary" =>
                id[1] \in Nat /\ p.epoch > id[1]

-----------------------------------------------------------------------------
(* Who may come to take writes.                                            *)

MayGrant(r) ==
    \/ rep[r].write = "Granted"
    \/ rep[r].active # NoAction /\ Granting(rep[r].active.act)
    \/ \E q \in net : q.to = r /\ Live(rep[r], q) /\ Granting(q.act)

\* r is the replica that holds writes in this phase.
Holds(r) ==
    \/ op.phase \in Settled /\ r = stable.primary
    \/ op.phase \in Before \cup Compensating /\ r = op.old
    \/ op.phase \in After /\ r = op.target

HolderInv ==
    /\ op.phase # "Poisoned" => \A r \in Replica : MayGrant(r) => Holds(r)
    /\ \A r, s \in Replica : MayGrant(r) /\ MayGrant(s) => r = s

IInv ==
    /\ OperationInv
    /\ IsRecord(rep, Replica)
    /\ \A r \in Replica : ProcessInv(rep[r], Top)
    /\ \A q \in net : q.to \in Replica => RequestInv(rep[q.to], q, Top)
    /\ HolderInv

-----------------------------------------------------------------------------
(* A step of a process.                                                    *)

\* p2 comes after p, and is a primary if p was and requests for p are live.
Succeeds(p, p2) ==
    /\ p2.gen >= p.gen
    /\ p2.gen = p.gen => p2.ver >= p.ver
    /\ p2.gen = p.gen /\ p2.ver = p.ver => p2.epoch >= p.epoch
    /\ p2.gen = p.gen /\ p2.ver = p.ver /\ p2.epoch = p.epoch /\ p.role = "Primary"
          => p2.role = "Primary"

\* What is live for the successor was live before.
LEMMA LiveBefore ==
    ASSUME NEW p, NEW p2, NEW q, NEW top, ProcessInv(p, top), ProcessInv(p2, top),
           Succeeds(p, p2), Past(p, q)
    PROVE  /\ Past(p2, q)
           /\ Live(p2, q) => Live(p, q) /\ (p.role = "Primary" => p2.role = "Primary")
  BY DEF ProcessInv, Succeeds, Past, Live

\* A process that is replaced by a successor which may grant writes only if it
\* could keeps the invariant.
LEMMA ProcessStep ==
    ASSUME IInv, NEW r \in Replica, NEW p2, rep' = [rep EXCEPT ![r] = p2],
           net' \subseteq net, UNCHANGED <<op, stable>>,
           ProcessInv(p2, Top), Succeeds(rep[r], p2),
           p2.write = "Granted" => MayGrant(r),
           p2.active # NoAction /\ Granting(p2.active.act) => MayGrant(r)
    PROVE  IInv'
<1>1. Top' = Top /\ OperationInv'
  BY DEF IInv, Top, OperationInv
<1>2. rep' = [x \in Replica |-> IF x = r THEN p2 ELSE rep[x]]
  BY DEF IInv, IsRecord
<1>3. rep'[r] = p2 /\ \A x \in Replica : x # r => rep'[x] = rep[x]
  BY <1>2
<1>4. IsRecord(rep, Replica)'
  BY <1>2 DEF IsRecord
<1>5. \A x \in Replica : ProcessInv(rep[x], Top)'
  BY <1>1, <1>3 DEF IInv
<1>6. \A q \in net : q.to = r => /\ Past(p2, q)
                                 /\ Live(p2, q) => /\ Live(rep[r], q)
                                                   /\ rep[r].role = "Primary" => p2.role = "Primary"
  BY LiveBefore DEF IInv, RequestInv
<1>7. \A q \in net' : q.to \in Replica => RequestInv(rep[q.to], q, Top)'
  BY <1>1, <1>3, <1>6 DEF IInv, RequestInv
<1>8. \A x \in Replica : MayGrant(x)' => MayGrant(x)
  BY <1>3, <1>6 DEF MayGrant
<1>9. \A x \in Replica : Holds(x)' <=> Holds(x)
  BY DEF Holds
<1>10. HolderInv'
  BY <1>8, <1>9 DEF IInv, HolderInv
<1> QED
  BY <1>1, <1>4, <1>5, <1>7, <1>10 DEF IInv
-----------------------------------------------------------------------------
(* The agents.                                                             *)

\* What a completed action does to a process.
LEMMA EffectOf ==
    ASSUME NEW p, NEW act, NEW e, IsRecord(p, ProcessFields), e = Effect(p, act),
           act.do \in {"Revoke", "ChangeRole", "UpdateEpoch", "CatchUp", "Current", "Wait"}
    PROVE  /\ IsRecord(e, ProcessFields)
           /\ e.gen = p.gen /\ e.ver = p.ver /\ e.done = p.done
           /\ IF Granting(act) THEN e.cfg.mode = act.do ELSE e.cfg = p.cfg
           /\ act.do = "ChangeRole" => /\ e.role = act.role /\ e.epoch = act.epoch
                                       /\ e.write # "Granted"
           /\ act.do = "UpdateEpoch" => e.epoch = act.epoch
           /\ act.do \notin {"ChangeRole", "UpdateEpoch"} => e.epoch = p.epoch
           /\ act.do # "ChangeRole" =>
                 /\ e.role = p.role
                 /\ e.write = "Granted" => \/ p.write = "Granted"
                                           \/ Granting(act) /\ p.role = "Primary"
<1>1. CASE act.do = "ChangeRole"
  <2>1. e = [p EXCEPT !.role = act.role, !.wal = act.role, !.epoch = act.epoch,
                      !.write = StatusForRole(act.role)]
    BY <1>1, Zenon DEF Effect
  <2> QED
    BY <1>1, <2>1 DEF IsRecord, ProcessFields, StatusForRole, Granting
<1>2. CASE act.do = "UpdateEpoch"
  <2>1. e = [p EXCEPT !.epoch = act.epoch]
    BY <1>2, Zenon DEF Effect
  <2> QED
    BY <1>2, <2>1 DEF IsRecord, ProcessFields, Granting
<1>3. CASE act.do \in {"CatchUp", "Current"}
  <2> DEFINE cfg == [mode |-> act.do, members |-> act.members]
  <2>1. e = [p EXCEPT !.cfg = cfg, !.write = Configured(p)]
    BY <1>3, Zenon DEF Effect
  <2>2. cfg.mode = act.do
    OBVIOUS
  <2> HIDE DEF cfg
  <2>3. e.cfg = cfg
    BY <2>1 DEF IsRecord, ProcessFields
  <2> QED
    BY <1>3, <2>1, <2>2, <2>3 DEF IsRecord, ProcessFields, Configured, Granting
<1>4. CASE act.do = "Revoke"
  <2>1. e = [p EXCEPT !.write = "Pending"]
    BY <1>4, Zenon DEF Effect
  <2> QED
    BY <1>4, <2>1 DEF IsRecord, ProcessFields, Granting
<1>5. CASE act.do = "Wait"
  <2>1. e = p
    BY <1>5, Zenon DEF Effect
  <2> QED
    BY <1>5, <2>1 DEF Granting
<1> QED
  BY <1>1, <1>2, <1>3, <1>4, <1>5

\* What a failed action may leave of a process.
LEMMA ResidueOf ==
    ASSUME NEW p, NEW act, NEW e, IsRecord(p, ProcessFields), e \in Residues(p, act),
           act.do # "Open"
    PROVE  /\ IsRecord(e, ProcessFields)
           /\ e.gen = p.gen /\ e.ver = p.ver /\ e.done = p.done
           /\ e.role = p.role /\ e.epoch = p.epoch /\ e.cfg = p.cfg
           /\ e.write = "Granted" => p.write = "Granted"
<1>1. \/ e = p \/ e = [p EXCEPT !.wal = act.role]
      \/ e = [p EXCEPT !.wal = act.role, !.write = StatusForRole(act.role)]
      \/ e = [p EXCEPT !.write = StatusForRole(act.role)]
  BY DEF Residues
<1> QED
  BY <1>1 DEF IsRecord, ProcessFields, StatusForRole

\* A process whose action has ended, with the effect or the residue e.
LEMMA ActionEnds ==
    ASSUME IInv, NEW r \in Replica, NEW e, NEW p2, NEW state \in {"Completed", "Failed"},
           rep[r].active # NoAction,
           state = "Completed" => e = Effect(rep[r], rep[r].active.act),
           state = "Failed" => e \in Residues(rep[r], rep[r].active.act),
           p2 = Recorded(e, rep[r].active.id, state),
           rep' = [rep EXCEPT ![r] = p2], UNCHANGED <<op, stable, net>>
    PROVE  IInv'
<1> DEFINE p == rep[r]
           act == rep[r].active.act
           id == rep[r].active.id
<1>1. ProcessInv(p, Top) /\ ActionInv(id, act, p.epoch, Top)
  BY DEF IInv, ProcessInv
<1>2. IsRecord(p, ProcessFields)
  BY <1>1 DEF ProcessInv
<1>3. act.do \in {"Revoke", "ChangeRole", "UpdateEpoch", "CatchUp", "Current", "Wait"}
  BY <1>1 DEF ActionInv
<1>4. /\ IsRecord(e, ProcessFields) /\ e.gen = p.gen /\ e.ver = p.ver /\ e.done = p.done
      /\ e.epoch \in Nat /\ e.epoch >= p.epoch
      /\ p.role = "Primary" => e.role = "Primary" \/ e.epoch > p.epoch
      /\ e.role = "Primary" => e.epoch <= Top
      /\ e.write = "Granted" => e.role = "Primary"
      /\ e.write = "Granted" => p.write = "Granted" \/ Granting(act)
      /\ state = "Completed" /\ id[3] = "DemoteOldPrimary" => id[1] \in Nat /\ e.epoch > id[1]
  <2>1. CASE state = "Completed"
    <3> HIDE DEF p, act, id
    <3>1. e = Effect(p, act)
      BY <2>1 DEF p, act
    <3>2. /\ IsRecord(e, ProcessFields)
          /\ e.gen = p.gen /\ e.ver = p.ver /\ e.done = p.done
          /\ act.do = "ChangeRole" => /\ e.role = act.role /\ e.epoch = act.epoch
                                      /\ e.write # "Granted"
          /\ act.do = "UpdateEpoch" => e.epoch = act.epoch
          /\ act.do \notin {"ChangeRole", "UpdateEpoch"} => e.epoch = p.epoch
          /\ act.do # "ChangeRole" =>
                /\ e.role = p.role
                /\ e.write = "Granted" => \/ p.write = "Granted"
                                          \/ Granting(act) /\ p.role = "Primary"
      BY <1>2, <1>3, <3>1, EffectOf
    <3>3. p.epoch \in Nat
      BY <1>1 DEF ProcessInv
    <3>4. id[3] = "DemoteOldPrimary" => id[1] \in Nat /\ e.epoch > id[1]
      BY <1>1, <3>2, <3>3 DEF ActionInv, ProcessInv
    <3> QED
      BY <1>1, <3>2, <3>3, <3>4 DEF ActionInv, ProcessInv
  <2>2. CASE state = "Failed"
    <3>1. /\ IsRecord(e, ProcessFields)
          /\ e.gen = p.gen /\ e.ver = p.ver /\ e.done = p.done
          /\ e.role = p.role /\ e.epoch = p.epoch
          /\ e.write = "Granted" => p.write = "Granted"
      BY <1>2, <1>3, <2>2, ResidueOf
    <3> QED
      BY <1>1, <2>2, <3>1 DEF ProcessInv
  <2> QED
    BY <2>1, <2>2
<1> HIDE DEF id, act
<1>5. /\ IsRecord(p2, ProcessFields) /\ p2.gen = p.gen /\ p2.ver = p.ver /\ p2.epoch = e.epoch
      /\ p2.role = e.role /\ p2.write = e.write /\ p2.active = NoAction
      /\ p2.done = With(p.done, id, state)
  BY <1>4 DEF IsRecord, ProcessFields, id, Recorded
<1>6. \A x \in DOMAIN p2.done :
          /\ p2.done[x] \in {"Completed", "Failed"}
          /\ p2.done[x] = "Completed" /\ x[3] = "DemoteOldPrimary" =>
                x[1] \in Nat /\ p2.epoch > x[1]
  <2> TAKE x \in DOMAIN p2.done
  <2>1. CASE x = id
    <3>1. p2.done[x] = state
      BY <1>5, <2>1 DEF With
    <3> QED
      BY <1>4, <1>5, <2>1, <3>1
  <2>2. CASE x # id
    <3>1. x \in DOMAIN p.done /\ p2.done[x] = p.done[x]
      BY <1>5, <2>2 DEF With
    <3>2. /\ p.done[x] \in {"Completed", "Failed"}
          /\ p.done[x] = "Completed" /\ x[3] = "DemoteOldPrimary" =>
                x[1] \in Nat /\ p.epoch > x[1]
      BY <1>1, <3>1 DEF ProcessInv
    <3>3. p.epoch \in Nat
      BY <1>1 DEF ProcessInv
    <3> QED
      BY <1>4, <1>5, <3>1, <3>2, <3>3
  <2> QED
    BY <2>1, <2>2
<1>7. ProcessInv(p2, Top)
  BY <1>1, <1>4, <1>5, <1>6 DEF ProcessInv
<1>8. Succeeds(p, p2)
  BY <1>1, <1>4, <1>5 DEF ProcessInv, Succeeds
<1>9. p2.write = "Granted" => MayGrant(r)
  BY <1>4, <1>5 DEF MayGrant, act
<1> QED
  BY <1>5, <1>7, <1>8, <1>9, ProcessStep

LEMMA HandleRequestStep ==
    ASSUME IInv, NEW r \in Replica, HandleRequest(r)
    PROVE  IInv'
<1>1. PICK q \in net :
        /\ q.to = r
        /\ \/ CanAdmit(rep[r], q) /\ rep' = [rep EXCEPT ![r] = Admit(rep[r], q)]
           \/ Refused(rep[r], q) /\ UNCHANGED rep
        /\ net' = net \ {q}
  BY DEF HandleRequest
<1>2. UNCHANGED <<op, stable>> /\ net' \subseteq net
  BY <1>1 DEF HandleRequest
<1>3. ProcessInv(rep[r], Top) /\ RequestInv(rep[r], q, Top)
  BY <1>1 DEF IInv
<1>4. CASE CanAdmit(rep[r], q) /\ rep' = [rep EXCEPT ![r] = Admit(rep[r], q)]
  <2> DEFINE p == rep[r]
             p2 == Admit(rep[r], q)
  <2>1. q.fences.gen = p.gen /\ q.fences.ver = p.ver /\ q.fences.seen = p.epoch
    BY <1>4 DEF CanAdmit, Fences
  <2>2. /\ IsRecord(p2, ProcessFields) /\ p2.gen = p.gen /\ p2.ver = p.ver + 1
        /\ p2.epoch = p.epoch /\ p2.role = p.role /\ p2.write = p.write /\ p2.done = p.done
        /\ p2.active = [id |-> q.id, act |-> q.act]
    BY <1>3 DEF ProcessInv, Admit, IsRecord, ProcessFields
  <2> HIDE DEF p2
  <2>3. ProcessInv(p2, Top)
    BY <1>3, <2>1, <2>2 DEF ProcessInv, RequestInv, Live
  <2>4. Succeeds(p, p2)
    BY <1>3, <2>2 DEF ProcessInv, Succeeds
  <2>5. p2.write = "Granted" => MayGrant(r)
    BY <2>2 DEF MayGrant
  <2>6. Granting(p2.active.act) => MayGrant(r)
    BY <1>1, <2>1, <2>2 DEF MayGrant, Live
  <2>7. rep' = [rep EXCEPT ![r] = p2]
    BY <1>4 DEF p2
  <2> QED
    BY <1>2, <2>3, <2>4, <2>5, <2>6, <2>7, ProcessStep
<1>5. CASE UNCHANGED rep
  <2>1. rep' = [rep EXCEPT ![r] = rep[r]]
    BY <1>5 DEF IInv, IsRecord
  <2>2. Succeeds(rep[r], rep[r])
    BY <1>3 DEF ProcessInv, Succeeds
  <2> QED
    BY <1>2, <1>3, <2>1, <2>2, ProcessStep DEF MayGrant
<1> QED
  BY <1>1, <1>4, <1>5

LEMMA CompleteActionStep ==
    ASSUME IInv, NEW r \in Replica, CompleteAction(r)
    PROVE  IInv'
<1> DEFINE e == Effect(rep[r], rep[r].active.act)
<1>1. rep[r].active # NoAction
  BY DEF CompleteAction, MayComplete
<1>2. rep' = [rep EXCEPT ![r] = Recorded(e, rep[r].active.id, "Completed")]
  BY DEF CompleteAction, Completed
<1>3. UNCHANGED <<op, stable, net>>
  BY DEF CompleteAction
<1> HIDE DEF e
<1>4. e = Effect(rep[r], rep[r].active.act)
  BY DEF e
<1> QED
  BY <1>1, <1>2, <1>3, <1>4, ActionEnds

LEMMA FailActionStep ==
    ASSUME IInv, NEW r \in Replica, FailAction(r)
    PROVE  IInv'
<1>1. rep[r].active # NoAction /\ UNCHANGED <<op, stable, net>>
  BY DEF FailAction
<1>2. PICK e \in Residues(rep[r], rep[r].active.act) :
        rep' = [rep EXCEPT ![r] = Recorded(e, rep[r].active.id, "Failed")]
  BY DEF FailAction, FailedOutcomes
<1> QED
  BY <1>1, <1>2, ActionEnds

-----------------------------------------------------------------------------
(* Faults.                                                                 *)

\* Another process has the state of one that was never opened.
LEMMA ProcessLost ==
    ASSUME IInv, NEW r \in Replica, NEW inst,
           rep' = [rep EXCEPT ![r] = BlankProcess(inst, rep[r].gen + 1)],
           UNCHANGED <<op, stable, net>>
    PROVE  IInv'
<1> DEFINE p2 == BlankProcess(inst, rep[r].gen + 1)
<1>1. ProcessInv(rep[r], Top)
  BY DEF IInv
<1>2. /\ IsRecord(p2, ProcessFields) /\ p2.gen = rep[r].gen + 1 /\ p2.ver = 0 /\ p2.epoch = 0
      /\ p2.active = NoAction /\ p2.role = "Unknown" /\ p2.write = "NotPrimary"
      /\ DOMAIN p2.done = {}
  BY DEF BlankProcess, BlankEpoch, IsRecord, ProcessFields
<1> HIDE DEF p2
<1>3. ProcessInv(p2, Top)
  BY <1>1, <1>2 DEF ProcessInv
<1>4. Succeeds(rep[r], p2)
  BY <1>1, <1>2 DEF ProcessInv, Succeeds
<1>5. rep' = [rep EXCEPT ![r] = p2]
  BY DEF p2
<1> QED
  BY <1>2, <1>3, <1>4, <1>5, ProcessStep

LEMMA FaultStep ==
    ASSUME IInv, NEW r \in Replica, Restart(r) \/ ReplacePod(r)
    PROVE  IInv'
<1>1. CASE Restart(r)
  BY <1>1, ProcessLost DEF Restart, Restarted
<1>2. CASE ReplacePod(r)
  BY <1>2, ProcessLost DEF ReplacePod
<1> QED
  BY <1>1, <1>2

\* Clients and connections change nothing the invariant speaks of.
LEMMA OtherStep ==
    ASSUME IInv, UNCHANGED <<op, stable, rep, net>>
    PROVE  IInv'
<1>1. Top' = Top /\ OperationInv'
  BY DEF IInv, Top, OperationInv
<1>2. \A r \in Replica : (MayGrant(r)' <=> MayGrant(r)) /\ (Holds(r)' <=> Holds(r))
  BY DEF MayGrant, Holds
<1> QED
  BY <1>1, <1>2 DEF IInv, HolderInv

-----------------------------------------------------------------------------
(* The operator.                                                           *)

\* A step of the operator alone does not lower the largest epoch, and leaves
\* writes to those who may have them.
LEMMA OperatorStep ==
    ASSUME IInv, UNCHANGED <<rep, net>>, OperationInv', Top' >= Top,
           op'.phase # "Poisoned" => \A r \in Replica : MayGrant(r) => Holds(r)'
    PROVE  IInv'
<1>1. Top \in Nat /\ Top' \in Nat
  BY DEF IInv, OperationInv, Top, Phases
<1>2. \A id, act, e : ActionInv(id, act, e, Top) => ActionInv(id, act, e, Top')
  BY <1>1 DEF ActionInv
<1>3. \A r \in Replica : ProcessInv(rep[r], Top)'
  BY <1>1, <1>2 DEF IInv, ProcessInv
<1>4. \A q \in net' : q.to \in Replica => RequestInv(rep[q.to], q, Top)'
  BY <1>2 DEF IInv, RequestInv
<1>5. \A r \in Replica : MayGrant(r)' <=> MayGrant(r)
  BY DEF MayGrant
<1> QED
  BY <1>3, <1>4, <1>5 DEF IInv, HolderInv

\* The next phases of an operation that runs.
Follows(phase) ==
    \/ phase = "Poisoned"
    \/ op.phase \in Before /\ phase \in Before
    \/ op.phase = "DemoteOldPrimary" /\ phase = "PromoteTarget"
          /\ (op.old \in Replica => ~MayGrant(op.old))
    \/ op.phase = "PromoteTarget" /\ phase \in After \cup Compensating
    \/ op.phase \in After /\ phase \in After
    \/ op.phase \in Compensating /\ phase \in Compensating

LEMMA PhaseStep ==
    ASSUME IInv, op.phase \notin Terminal, UNCHANGED <<stable, rep, net>>,
           IsRecord(op', OperationFields), Follows(op'.phase), op'.pending = NoAction,
           op'.old = op.old, op'.target = op.target, op'.prev = op.prev, op'.next = op.next
    PROVE  IInv'
<1>1. op.phase \notin Settled \cup {"Poisoned"}
  BY DEF Terminal, Settled
<1>2. op'.phase \in Phases \ Settled
  BY <1>1 DEF Follows, Phases, Before, After, Compensating, Settled
<1>3. OperationInv'
  BY <1>1, <1>2 DEF IInv, OperationInv, Settled
<1>4. op.prev = stable.epoch /\ op.next = stable.epoch + 1 /\ stable.epoch \in Nat
  BY <1>1 DEF IInv, OperationInv
<1>5. Top' >= Top
  BY <1>1, <1>2, <1>4 DEF Top, Follows, Before, After, Compensating, Settled
<1>6. \A r \in Replica : MayGrant(r) => Holds(r)
  BY <1>1 DEF IInv, HolderInv
<1>7. op'.phase # "Poisoned" => \A r \in Replica : MayGrant(r) => Holds(r)'
  BY <1>1, <1>6 DEF Holds, Follows, Before, After, Compensating, Settled
<1> QED
  BY <1>3, <1>5, <1>7, OperatorStep

\* The same for an operation that is written with WithPhase.
LEMMA PersistStep ==
    ASSUME IInv, op.phase \notin Terminal, NEW phase, Follows(phase), Persist(WithPhase(phase))
    PROVE  IInv'
<1>1. IsRecord(op, OperationFields)
  BY DEF IInv, OperationInv, Terminal
<1>2. op' = [op EXCEPT !.phase = phase, !.pending = NoAction, !.late = FALSE]
  BY DEF Persist, WithPhase
<1>3. /\ IsRecord(op', OperationFields) /\ op'.phase = phase /\ op'.pending = NoAction
      /\ op'.old = op.old /\ op'.target = op.target /\ op'.prev = op.prev /\ op'.next = op.next
  BY <1>1, <1>2 DEF IsRecord, OperationFields
<1> QED
  BY <1>3, PhaseStep DEF Persist

LEMMA StartSwitchoverStep ==
    ASSUME IInv, NEW t \in Replica, StartSwitchover(t)
    PROVE  IInv'
<1>1. op.phase \in Settled /\ UNCHANGED <<stable, rep, net>>
  BY DEF StartSwitchover, Terminal, Settled
<1>2. /\ IsRecord(op', OperationFields) /\ op'.phase = "Revoke" /\ op'.old = stable.primary
      /\ op'.prev = stable.epoch /\ op'.next = stable.epoch + 1 /\ op'.pending = NoAction
  BY DEF StartSwitchover, IsRecord, OperationFields
<1>3. OperationInv'
  BY <1>1, <1>2 DEF IInv, OperationInv, Settled, Phases, Before
<1>4. Top' >= Top
  BY <1>1, <1>2 DEF IInv, OperationInv, Top, Before, Settled
<1>5. \A r \in Replica : MayGrant(r) => Holds(r)'
  BY <1>1, <1>2 DEF IInv, HolderInv, Holds, Settled, Before, After, Compensating
<1> QED
  BY <1>1, <1>3, <1>4, <1>5, OperatorStep

LEMMA FailClosedStep ==
    ASSUME IInv, FailClosed
    PROVE  IInv'
  BY PersistStep DEF FailClosed, Follows

LEMMA CaptureLsnStep ==
    ASSUME IInv, CaptureLsn
    PROVE  IInv'
<1>1. op.phase \notin Terminal /\ op.phase = "CaptureLsn"
  BY DEF CaptureLsn, NoPending, Running
<1>2. Follows("Poisoned") /\ Follows("PreCatchUp")
  BY <1>1 DEF Follows, Before
<1>3. CASE Persist(WithPhase("Poisoned"))
  BY <1>1, <1>2, <1>3, PersistStep
<1>4. CASE Persist([WithPhase("PreCatchUp") EXCEPT !.frozen = lsn[op.old]])
  <2>1. IsRecord(op, OperationFields)
    BY <1>1 DEF IInv, OperationInv
  <2>2. op' = [[op EXCEPT !.phase = "PreCatchUp", !.pending = NoAction, !.late = FALSE]
                  EXCEPT !.frozen = lsn[op.old]]
    BY <1>4 DEF Persist, WithPhase
  <2>3. /\ IsRecord(op', OperationFields) /\ op'.phase = "PreCatchUp" /\ op'.pending = NoAction
        /\ op'.old = op.old /\ op'.target = op.target /\ op'.prev = op.prev /\ op'.next = op.next
    BY <2>1, <2>2 DEF IsRecord, OperationFields
  <2> QED
    BY <1>1, <1>2, <1>4, <2>3, PhaseStep DEF Persist
<1> QED
  BY <1>3, <1>4 DEF CaptureLsn

LEMMA PreCatchUpStep ==
    ASSUME IInv, PreCatchUp
    PROVE  IInv'
<1>1. op.phase \notin Terminal /\ op.phase = "PreCatchUp"
  BY DEF PreCatchUp, NoPending, Running
<1>2. /\ Follows("Poisoned") /\ Follows("DemoteOldPrimary")
      /\ Follows("RestorePreviousConfiguration")
  BY <1>1 DEF Follows, Before
<1>3. \/ Persist(WithPhase("Poisoned")) \/ Persist(WithPhase("DemoteOldPrimary"))
      \/ Persist(WithPhase("RestorePreviousConfiguration"))
  BY DEF PreCatchUp
<1> QED
  BY <1>1, <1>2, <1>3, PersistStep

LEMMA DistributionDoneStep ==
    ASSUME IInv, DistributionDone
    PROVE  IInv'
<1>1. op.phase \notin Terminal
  BY DEF DistributionDone, NoPending, Running
<1>2. CASE op.phase = "DistributeEpoch"
  <2>1. Follows("UpdateCatchUpConfiguration")
    BY <1>2 DEF Follows, After
  <2> QED
    BY <1>1, <1>2, <2>1, PersistStep DEF DistributionDone
<1>3. CASE op.phase = "CompensateDistributeEpoch"
  <2>1. Follows("CompensateCatchUpConfiguration")
    BY <1>3 DEF Follows, Compensating
  <2> QED
    BY <1>1, <1>3, <2>1, PersistStep DEF DistributionDone
<1> QED
  BY <1>2, <1>3 DEF DistributionDone

\* What is published keeps the epoch and the holder of the operation.
LEMMA PublishStep ==
    ASSUME IInv, op.phase \notin Terminal, NEW phase \in {"Completed", "Failed"}, NEW primary,
           NEW epoch \in Nat, Publish(phase, primary, epoch), epoch >= Top,
           \A r \in Replica : MayGrant(r) => r = primary
    PROVE  IInv'
<1>1. IsRecord(op, OperationFields)
  BY DEF IInv, OperationInv, Terminal
<1>2. op' = [op EXCEPT !.phase = phase, !.pending = NoAction, !.late = FALSE]
  BY DEF Publish, WithPhase
<1>3. IsRecord(op', OperationFields) /\ op'.phase = phase
  BY <1>1, <1>2 DEF IsRecord, OperationFields
<1>4. stable'.epoch = epoch /\ stable'.primary = primary /\ UNCHANGED <<rep, net>>
  BY DEF Publish
<1>5. OperationInv'
  BY <1>3, <1>4 DEF OperationInv, Phases, Settled
<1>6. Top' >= Top
  BY <1>3, <1>4 DEF Top, Settled
<1>7. \A r \in Replica : MayGrant(r) => Holds(r)'
  BY <1>3, <1>4 DEF Holds, Settled
<1> QED
  BY <1>4, <1>5, <1>6, <1>7, OperatorStep

LEMMA FinalizeStep ==
    ASSUME IInv, Finalize
    PROVE  IInv'
<1>1. op.phase \notin Terminal /\ op.phase \in {"Finalize", "CompensateFinalize"}
  BY DEF Finalize, NoPending, Running
<1>2. op.next \in Nat /\ Top = op.next /\ \A r \in Replica : MayGrant(r) => Holds(r)
  BY <1>1 DEF IInv, OperationInv, HolderInv, Top, Settled, Before
<1>3. CASE Persist(WithPhase("Poisoned"))
  BY <1>1, <1>3, PersistStep DEF Follows
<1>4. CASE op.phase = "Finalize" /\ Publish("Completed", op.target, op.next)
  <2>1. \A r \in Replica : MayGrant(r) => r = op.target
    BY <1>2, <1>4 DEF Holds, Settled, Before, Compensating
  <2> QED
    BY <1>1, <1>2, <1>4, <2>1, PublishStep
<1>5. CASE op.phase = "CompensateFinalize" /\ Publish("Failed", op.old, op.next)
  <2>1. \A r \in Replica : MayGrant(r) => r = op.old
    BY <1>2, <1>5 DEF Holds, Settled, Before, After
  <2> QED
    BY <1>1, <1>2, <1>5, <2>1, PublishStep
<1> QED
  BY <1>1, <1>3, <1>4, <1>5 DEF Finalize

LEMMA CompleteFailedStep ==
    ASSUME IInv, CompleteFailed
    PROVE  IInv'
<1>1. op.phase \notin Terminal /\ op.phase = "Failing"
  BY DEF CompleteFailed, NoPending, Running
<1>2. Top = stable.epoch /\ stable.epoch \in Nat /\ op.next = stable.epoch + 1
  BY <1>1 DEF IInv, OperationInv, Top, Settled, Before
<1> DEFINE serves == rep[op.old].role = "Primary" /\ rep[op.old].epoch \in {op.prev, op.next}
<1>3. CASE ~serves
  BY <1>1, <1>3, PersistStep DEF CompleteFailed, Follows
<1>4. CASE serves
  <2>1. \A r \in Replica : MayGrant(r) => r = op.old
    BY <1>1 DEF IInv, HolderInv, Holds, Settled, After
  <2>2. op.prev = stable.epoch
    BY <1>1 DEF IInv, OperationInv, Settled
  <2>3. rep[op.old].epoch \in Nat /\ rep[op.old].epoch >= Top
    BY <1>2, <1>4, <2>2
  <2>4. Publish("Failed", op.old, rep[op.old].epoch)
    BY <1>4 DEF CompleteFailed
  <2> QED
    BY <1>1, <2>1, <2>3, <2>4, PublishStep
<1> QED
  BY <1>3, <1>4

\* A step that keeps the phase.
LEMMA StayStep ==
    ASSUME IInv, op.phase \notin Terminal, UNCHANGED <<stable, rep, net>>, OperationInv',
           op'.phase = op.phase, op'.old = op.old, op'.target = op.target, op'.next = op.next
    PROVE  IInv'
<1>1. Top' = Top /\ Top \in Nat
  BY DEF IInv, OperationInv, Top, Phases
<1>2. op.phase # "Poisoned" /\ \A r \in Replica : MayGrant(r) => Holds(r)
  BY DEF IInv, HolderInv, Terminal
<1>3. \A r \in Replica : Holds(r)' <=> Holds(r)
  BY DEF Holds
<1> QED
  BY <1>1, <1>2, <1>3, OperatorStep

\* Who an action is for.
LEMMA TargetOfKind ==
    ASSUME NEW kind
    PROVE  /\ kind \in OldConfigures \cup {"DemoteOldPrimary"} => TargetOf(kind) = op.old
           /\ kind \in TargetConfigures => TargetOf(kind) = op.target
<1>1. kind \in OldConfigures \cup {"DemoteOldPrimary"} =>
        kind \notin Counting \cup {"PromoteTarget", "UpdateCatchUpConfiguration",
            "WaitForCatchUpQuorum", "UpdateCurrentConfiguration", "LabelTargetPrimary",
            "CompensateLabelTargetSecondary"}
  BY DEF OldConfigures, Counting
<1>2. kind \in TargetConfigures =>
        /\ kind \notin Counting
        /\ kind \in {"PromoteTarget", "UpdateCatchUpConfiguration",
            "WaitForCatchUpQuorum", "UpdateCurrentConfiguration", "LabelTargetPrimary",
            "CompensateLabelTargetSecondary"}
  BY DEF TargetConfigures, Counting
<1>3. ASSUME kind \in OldConfigures \cup {"DemoteOldPrimary"}
      PROVE  TargetOf(kind) = op.old
  BY <1>1, <1>3, Zenon DEF TargetOf
<1>4. ASSUME kind \in TargetConfigures
      PROVE  TargetOf(kind) = op.target
  BY <1>2, <1>4, Zenon DEF TargetOf
<1> QED
  BY <1>3, <1>4

LEMMA BeginActionStep ==
    ASSUME IInv, BeginAction
    PROVE  IInv'
<1> DEFINE kind == Kind[op.phase]
           pending == [id |-> <<op.prev, op.target, kind, op.index>>, kind |-> kind,
                       target |-> TargetOf(kind), fences |-> << >>]
<1>1. op.phase \notin Terminal /\ op.phase \in DOMAIN Kind
  BY DEF BeginAction, NoPending, Running
<1>2. op.phase \notin Settled /\ IsRecord(op, OperationFields)
  BY <1>1 DEF IInv, OperationInv, Terminal, Settled
<1>3. op' = [op EXCEPT !.late = FALSE, !.pending = pending]
  BY DEF BeginAction, Persist
<1>4. /\ IsRecord(pending, PendingFields) /\ pending.kind = kind
      /\ pending.id[1] = op.prev /\ pending.id[3] = kind /\ pending.target = TargetOf(kind)
  BY DEF IsRecord, PendingFields
<1> HIDE DEF kind, pending
<1>5. /\ IsRecord(op', OperationFields) /\ op'.phase = op.phase /\ op'.pending = pending
      /\ op'.old = op.old /\ op'.target = op.target /\ op'.prev = op.prev /\ op'.next = op.next
  BY <1>2, <1>3 DEF IsRecord, OperationFields
<1>6. UNCHANGED <<stable, rep, net>>
  BY DEF BeginAction, Persist
<1>7. /\ kind \in OldConfigures \cup {"DemoteOldPrimary"} => pending.target = op.old
      /\ kind \in TargetConfigures => pending.target = op.target
  BY <1>4, TargetOfKind
<1>8. OperationInv'
  BY <1>1, <1>2, <1>4, <1>5, <1>6, <1>7 DEF IInv, OperationInv, kind
<1> QED
  BY <1>1, <1>5, <1>6, <1>8, StayStep

LEMMA PlanDispatchStep ==
    ASSUME IInv, PlanDispatch
    PROVE  IInv'
<1>1. op.phase \notin Terminal /\ op.pending # NoAction
  BY DEF PlanDispatch, Dispatchable, Pending, Running
<1>2. op.phase \notin Settled /\ IsRecord(op, OperationFields) /\ IsRecord(op.pending, PendingFields)
  BY <1>1 DEF IInv, OperationInv, Terminal, Settled
<1> DEFINE pending == [op.pending EXCEPT !.fences = Fences(P)]
<1>3. op' = [op EXCEPT !.pending = pending]
  BY DEF PlanDispatch, Persist
<1>4. /\ IsRecord(pending, PendingFields) /\ pending.kind = op.pending.kind
      /\ pending.id = op.pending.id /\ pending.target = op.pending.target
  BY <1>2 DEF IsRecord, PendingFields
<1> HIDE DEF pending
<1>5. /\ IsRecord(op', OperationFields) /\ op'.phase = op.phase /\ op'.pending = pending
      /\ op'.old = op.old /\ op'.target = op.target /\ op'.prev = op.prev /\ op'.next = op.next
  BY <1>2, <1>3 DEF IsRecord, OperationFields
<1>6. UNCHANGED <<stable, rep, net>>
  BY DEF PlanDispatch, Persist
<1>7. OperationInv'
  BY <1>1, <1>2, <1>4, <1>5, <1>6 DEF IInv, OperationInv
<1> QED
  BY <1>1, <1>5, <1>6, <1>7, StayStep

LEMMA DeadlinePassesStep ==
    ASSUME IInv, DeadlinePasses
    PROVE  IInv'
<1>1. op.phase \notin Terminal /\ UNCHANGED <<stable, rep, net>>
  BY DEF DeadlinePasses
<1>2. op.phase \notin Settled /\ IsRecord(op, OperationFields)
  BY <1>1 DEF IInv, OperationInv, Terminal, Settled
<1>3. op' = [op EXCEPT !.late = TRUE]
  BY DEF DeadlinePasses
<1>4. /\ IsRecord(op', OperationFields) /\ op'.phase = op.phase /\ op'.pending = op.pending
      /\ op'.old = op.old /\ op'.target = op.target /\ op'.prev = op.prev /\ op'.next = op.next
  BY <1>2, <1>3 DEF IsRecord, OperationFields
<1>5. OperationInv'
  BY <1>1, <1>2, <1>4 DEF IInv, OperationInv
<1> QED
  BY <1>1, <1>4, <1>5, StayStep

-----------------------------------------------------------------------------
(* Observations.                                                           *)

\* An action that was not seen to happen has no record and was not done.
LEMMA PreconditionSeen ==
    ASSUME IInv, op.pending.target \in Replica, Observation = "Precondition"
    PROVE  Record(P, op.pending.id) = "none" /\ DirectObservation = "Precondition"
<1> DEFINE seen == Record(P, op.pending.id)
<1>1. seen \in {"none", "InProgress", "Completed", "Failed"}
  BY DEF IInv, ProcessInv, Record, P
<1>2. pod[op.pending.target].up /\ MembersKnown
  BY DEF Observation
<1> HIDE DEF seen
<1>3. CASE seen = "Completed"
  BY <1>2, <1>3, Zenon DEF Observation, seen
<1>4. CASE seen = "none"
  BY <1>2, <1>4, Zenon DEF Observation, seen
<1>5. CASE seen \in {"InProgress", "Failed"}
  <2>1. seen # "Completed" /\ seen # "none" /\ seen # "Precondition"
    BY <1>5
  <2> QED
    BY <1>2, <2>1, Zenon DEF Observation, seen
<1> QED
  BY <1>1, <1>3, <1>4, <1>5

\* An action that was seen to happen is on record, or its effect is there.
LEMMA PostconditionSeen ==
    ASSUME IInv, op.pending.target \in Replica, Observation = "Postcondition"
    PROVE  Record(P, op.pending.id) = "Completed" \/ DirectObservation = "Postcondition"
<1> DEFINE seen == Record(P, op.pending.id)
<1>1. seen \in {"none", "InProgress", "Completed", "Failed"}
  BY DEF IInv, ProcessInv, Record, P
<1>2. pod[op.pending.target].up /\ MembersKnown
  BY DEF Observation
<1> HIDE DEF seen
<1>3. CASE seen = "Completed"
  BY <1>3 DEF seen
<1>4. CASE seen = "none"
  BY <1>2, <1>4, Zenon DEF Observation, seen
<1>5. CASE seen \in {"InProgress", "Failed"}
  <2>1. seen # "Completed" /\ seen # "none" /\ seen # "Postcondition"
    BY <1>5
  <2> QED
    BY <1>2, <2>1, Zenon DEF Observation, seen
<1> QED
  BY <1>1, <1>3, <1>4, <1>5

Either(post, pre) ==
    IF post THEN "Postcondition" ELSE IF pre THEN "Precondition" ELSE "Impossible"

\* What is observed directly, by the action's kind.
LEMMA DirectOfKind ==
    ASSUME NEW kind, kind = op.pending.kind
    PROVE  /\ kind = "DemoteOldPrimary" =>
                 DirectObservation = Either(Is("ActiveSecondary", op.next),
                                            Is("Primary", op.prev) /\ P.write = "Pending")
           /\ kind = "PromoteTarget" =>
                 DirectObservation = Either(Is("Primary", op.next), Is("ActiveSecondary", op.prev))
           /\ kind \in Counting =>
                 DirectObservation =
                    Either(Is("ActiveSecondary", op.next), Is("ActiveSecondary", op.prev))
           /\ kind = "CompensatePromoteOldPrimary" =>
                 DirectObservation = Either(Is("Primary", op.next), Is("ActiveSecondary", op.next))
           /\ kind = "UpdateCatchUpConfiguration" =>
                 DirectObservation = Configuration(ConfigOf("CatchUp", op.target), NoConfig)
           /\ kind = "UpdateCurrentConfiguration" =>
                 DirectObservation =
                    Configuration(ConfigOf("Current", op.target), ConfigOf("CatchUp", op.target))
           /\ kind = "CompensateCatchUpConfiguration" =>
                 DirectObservation =
                    Configuration(ConfigOf("CatchUp", op.old), ConfigOf("Current", op.old))
           /\ kind = "CompensateCurrentConfiguration" =>
                 DirectObservation =
                    Configuration(ConfigOf("Current", op.old), ConfigOf("CatchUp", op.old))
           /\ kind = "RestorePreviousConfiguration" =>
                 DirectObservation =
                    IF Is("Primary", op.prev) /\ P.cfg = ConfigOf("Current", op.old)
                    THEN Either(P.write = "Granted", P.write = "Pending") ELSE "Impossible"
<1>1. ASSUME kind = "PromoteTarget"
      PROVE  DirectObservation = Either(Is("Primary", op.next), Is("ActiveSecondary", op.prev))
  BY <1>1, ZenonT(30) DEF DirectObservation, Counting, Either
<1>2. ASSUME kind \in Counting
      PROVE  DirectObservation = Either(Is("ActiveSecondary", op.next), Is("ActiveSecondary", op.prev))
  BY <1>2, ZenonT(30) DEF DirectObservation, Counting, Either
<1>3. ASSUME kind = "CompensatePromoteOldPrimary"
      PROVE  DirectObservation = Either(Is("Primary", op.next), Is("ActiveSecondary", op.next))
  BY <1>3, ZenonT(30) DEF DirectObservation, Counting, Either
<1>4. ASSUME kind = "UpdateCatchUpConfiguration"
      PROVE  DirectObservation = Configuration(ConfigOf("CatchUp", op.target), NoConfig)
  BY <1>4, ZenonT(30) DEF DirectObservation, Counting
<1>5. ASSUME kind = "UpdateCurrentConfiguration"
      PROVE  DirectObservation =
                Configuration(ConfigOf("Current", op.target), ConfigOf("CatchUp", op.target))
  BY <1>5, ZenonT(30) DEF DirectObservation, Counting
<1>6. ASSUME kind = "CompensateCatchUpConfiguration"
      PROVE  DirectObservation =
                Configuration(ConfigOf("CatchUp", op.old), ConfigOf("Current", op.old))
  BY <1>6, ZenonT(30) DEF DirectObservation, Counting
<1>7. ASSUME kind = "CompensateCurrentConfiguration"
      PROVE  DirectObservation =
                Configuration(ConfigOf("Current", op.old), ConfigOf("CatchUp", op.old))
  BY <1>7, ZenonT(30) DEF DirectObservation, Counting
<1>8. ASSUME kind = "RestorePreviousConfiguration"
      PROVE  DirectObservation =
                IF Is("Primary", op.prev) /\ P.cfg = ConfigOf("Current", op.old)
                THEN Either(P.write = "Granted", P.write = "Pending") ELSE "Impossible"
  BY <1>8, ZenonT(30) DEF DirectObservation, Counting, Either
<1>9. ASSUME kind = "DemoteOldPrimary"
      PROVE  DirectObservation = Either(Is("ActiveSecondary", op.next),
                                        Is("Primary", op.prev) /\ P.write = "Pending")
  BY <1>9, ZenonT(30) DEF DirectObservation, Counting, Either
<1> QED
  BY <1>1, <1>2, <1>3, <1>4, <1>5, <1>6, <1>7, <1>8, <1>9

\* A demotion that was seen to happen has happened.
LEMMA Demoted ==
    ASSUME IInv, op.phase = "DemoteOldPrimary", op.pending # NoAction, op.old \in Replica,
           Observation = "Postcondition"
    PROVE  ~MayGrant(op.old)
<1>1. /\ op.pending.kind = "DemoteOldPrimary" /\ op.pending.target = op.old
      /\ op.pending.id[1] = op.prev /\ op.pending.id[3] = "DemoteOldPrimary"
      /\ op.prev = stable.epoch /\ stable.epoch \in Nat
  BY DEF IInv, OperationInv, Settled, Kind
<1>2. ProcessInv(rep[op.old], Top) /\ Top = stable.epoch
  BY DEF IInv, Top, Before
<1>3. P = rep[op.old]
  BY <1>1 DEF P
<1>4. rep[op.old].role # "Primary"
  <2>1. CASE Record(P, op.pending.id) = "Completed"
    <3>1. op.pending.id \in DOMAIN P.done /\ P.done[op.pending.id] = "Completed"
      BY <2>1 DEF Record
    <3>2. rep[op.old].epoch > op.prev
      BY <1>1, <1>2, <1>3, <3>1 DEF ProcessInv
    <3> QED
      BY <1>1, <1>2, <3>2 DEF ProcessInv
  <2>2. CASE DirectObservation = "Postcondition"
    <3>1. DirectObservation = Either(Is("ActiveSecondary", op.next),
                                     Is("Primary", op.prev) /\ P.write = "Pending")
      BY <1>1, DirectOfKind
    <3>2. Is("ActiveSecondary", op.next)
      BY <2>2, <3>1 DEF Either
    <3> QED
      BY <1>3, <3>2 DEF Is
  <2> QED
    BY <1>1, <2>1, <2>2, PostconditionSeen
<1> QED
  BY <1>2, <1>4 DEF IInv, ProcessInv, RequestInv, MayGrant

LEMMA ActionDoneStep ==
    ASSUME IInv, ActionDone
    PROVE  IInv'
<1>1. op.phase \notin Terminal /\ op.pending # NoAction /\ Observation = "Postcondition"
  BY DEF ActionDone, Pending, Running
<1>2. /\ IsRecord(op, OperationFields)
      /\ op.phase \in DOMAIN Kind /\ op.pending.kind = Kind[op.phase]
  BY <1>1 DEF IInv, OperationInv, Terminal, Settled
<1>3. CASE op.pending.kind \in Counting
  <2>1. op' = [[op EXCEPT !.phase = op.phase, !.pending = NoAction, !.late = FALSE]
                  EXCEPT !.index = op.index + 1]
    BY <1>3 DEF ActionDone, Persist, WithPhase
  <2>2. /\ IsRecord(op', OperationFields) /\ op'.phase = op.phase /\ op'.pending = NoAction
        /\ op'.old = op.old /\ op'.target = op.target /\ op'.prev = op.prev /\ op'.next = op.next
    BY <1>2, <2>1 DEF IsRecord, OperationFields
  <2>3. Follows(op.phase)
    BY <1>2, <1>3 DEF Kind, Counting, Follows, After, Compensating
  <2> QED
    BY <1>1, <2>2, <2>3, PhaseStep DEF ActionDone, Persist
<1>4. CASE op.pending.kind \notin Counting
  <2> DEFINE phase == Advance[op.pending.kind]
             index == IF op.pending.kind \in {"PromoteTarget", "CompensatePromoteOldPrimary"}
                      THEN 0 ELSE op.index
  <2>1. op' = [[op EXCEPT !.phase = phase, !.pending = NoAction, !.late = FALSE]
                  EXCEPT !.index = index]
    BY <1>4 DEF ActionDone, Persist, WithPhase
  <2> HIDE DEF phase, index
  <2>2. /\ IsRecord(op', OperationFields) /\ op'.phase = phase /\ op'.pending = NoAction
        /\ op'.old = op.old /\ op'.target = op.target /\ op'.prev = op.prev /\ op'.next = op.next
    BY <1>2, <2>1 DEF IsRecord, OperationFields
  <2>3. op.phase = "DemoteOldPrimary" /\ op.old \in Replica => ~MayGrant(op.old)
    BY <1>1, Demoted
  <2>4. Follows(phase)
    BY <1>2, <1>4, <2>3 DEF Kind, Advance, Counting, Follows, Before, After, Compensating, phase
  <2> QED
    BY <1>1, <2>2, <2>4, PhaseStep DEF ActionDone, Persist
<1> QED
  BY <1>3, <1>4

\* What is given up, by kind.
LEMMA TimeoutOf ==
    ASSUME NEW kind
    PROVE  \/ kind = "RevokeWrite" /\ OnTimeout(kind) = "Failing"
           \/ kind = "DemoteOldPrimary" /\ OnTimeout(kind) = "RestorePreviousConfiguration"
           \/ kind = "PromoteTarget" /\ OnTimeout(kind) = "CompensatePromoteOldPrimary"
           \/ OnTimeout(kind) = "Poisoned"
<1>1. CASE kind = "RevokeWrite"
  BY <1>1, Zenon DEF OnTimeout
<1>2. CASE kind = "DemoteOldPrimary"
  BY <1>2, Zenon DEF OnTimeout
<1>3. CASE kind = "PromoteTarget"
  BY <1>3, Zenon DEF OnTimeout
<1>4. CASE kind \notin {"RevokeWrite", "DemoteOldPrimary", "PromoteTarget"}
  BY <1>4, Zenon DEF OnTimeout
<1> QED
  BY <1>1, <1>2, <1>3, <1>4

LEMMA ActionGivenUpStep ==
    ASSUME IInv, ActionGivenUp
    PROVE  IInv'
<1> DEFINE kind == op.pending.kind
<1>1. op.phase \notin Terminal /\ op.pending # NoAction /\ Persist(WithPhase(OnTimeout(kind)))
  BY DEF ActionGivenUp, Pending, Running
<1>2. op.phase \in DOMAIN Kind /\ kind = Kind[op.phase]
  BY <1>1 DEF IInv, OperationInv, Terminal, Settled
<1> HIDE DEF kind
<1>3. \/ kind = "RevokeWrite" /\ OnTimeout(kind) = "Failing"
      \/ kind = "DemoteOldPrimary" /\ OnTimeout(kind) = "RestorePreviousConfiguration"
      \/ kind = "PromoteTarget" /\ OnTimeout(kind) = "CompensatePromoteOldPrimary"
      \/ OnTimeout(kind) = "Poisoned"
  BY TimeoutOf
<1>4. Follows(OnTimeout(kind))
  BY <1>2, <1>3 DEF Kind, Follows, Before, Compensating
<1> QED
  BY <1>1, <1>4, PersistStep

LEMMA ActionPoisonsStep ==
    ASSUME IInv, ActionPoisons
    PROVE  IInv'
  BY PersistStep DEF ActionPoisons, Pending, Running, Follows

\* What the agent is asked to do, by the action's kind.
LEMMA ActionOfKind ==
    ASSUME NEW kind
    PROVE  LET act == ActionFor(kind)
           IN  /\ kind = "RevokeWrite" => act.do = "Revoke"
               /\ kind = "DemoteOldPrimary" =>
                     act.do = "ChangeRole" /\ act.role = "ActiveSecondary" /\ act.epoch = op.next
               /\ kind \in {"PromoteTarget", "CompensatePromoteOldPrimary"} =>
                     act.do = "ChangeRole" /\ act.role = "Primary" /\ act.epoch = op.next
               /\ kind \in Counting => act.do = "UpdateEpoch" /\ act.epoch = op.next
               /\ kind = "WaitForCatchUpQuorum" => act.do = "Wait"
               /\ kind \in {"UpdateCatchUpConfiguration", "CompensateCatchUpConfiguration"} =>
                     act.do = "CatchUp"
               /\ kind \in {"UpdateCurrentConfiguration", "RestorePreviousConfiguration",
                            "CompensateCurrentConfiguration"} => act.do = "Current"
<1>1. CASE kind = "RevokeWrite"
  <2>1. ActionFor(kind) = [do |-> "Revoke"]
    BY <1>1, Zenon DEF ActionFor, Counting
  <2> QED
    BY <1>1, <2>1 DEF Counting
<1>2. CASE kind = "DemoteOldPrimary"
  <2>1. ActionFor(kind) = [do |-> "ChangeRole", role |-> "ActiveSecondary", epoch |-> op.next]
    BY <1>2, Zenon DEF ActionFor, Counting
  <2> QED
    BY <1>2, <2>1 DEF Counting
<1>3. CASE kind \in {"PromoteTarget", "CompensatePromoteOldPrimary"}
  <2>1. ActionFor(kind) = [do |-> "ChangeRole", role |-> "Primary", epoch |-> op.next]
    BY <1>3, Zenon DEF ActionFor, Counting
  <2> QED
    BY <1>3, <2>1 DEF Counting
<1>4. CASE kind \in Counting
  <2>1. ActionFor(kind) = [do |-> "UpdateEpoch", epoch |-> op.next]
    BY <1>4, Zenon DEF ActionFor, Counting
  <2> QED
    BY <1>4, <2>1 DEF Counting
<1>5. CASE kind = "WaitForCatchUpQuorum"
  <2>1. ActionFor(kind) = [do |-> "Wait"]
    BY <1>5, Zenon DEF ActionFor, Counting
  <2> QED
    BY <1>5, <2>1 DEF Counting
<1>6. CASE kind = "UpdateCatchUpConfiguration"
  <2>1. ActionFor(kind) = [do |-> "CatchUp", members |-> Others(op.target)]
    BY <1>6, Zenon DEF ActionFor, Counting
  <2> QED
    BY <1>6, <2>1 DEF Counting
<1>7. CASE kind = "UpdateCurrentConfiguration"
  <2>1. ActionFor(kind) = [do |-> "Current", members |-> Others(op.target)]
    BY <1>7, Zenon DEF ActionFor, Counting
  <2> QED
    BY <1>7, <2>1 DEF Counting
<1>8. CASE kind = "CompensateCatchUpConfiguration"
  <2>1. ActionFor(kind) = [do |-> "CatchUp", members |-> Others(op.old)]
    BY <1>8, Zenon DEF ActionFor, Counting
  <2> QED
    BY <1>8, <2>1 DEF Counting
<1>9. CASE kind \in {"RestorePreviousConfiguration", "CompensateCurrentConfiguration"}
  <2>1. ActionFor(kind) = [do |-> "Current", members |-> Others(op.old)]
    BY <1>9, Zenon DEF ActionFor, Counting
  <2> QED
    BY <1>9, <2>1 DEF Counting
<1> QED
  BY <1>1, <1>2, <1>3, <1>4, <1>5, <1>6, <1>7, <1>8, <1>9 DEF OldConfigures, TargetConfigures

\* What is known of the replica when an action is dispatched to it.
LEMMA PreconditionOfKind ==
    ASSUME DirectObservation = "Precondition"
    PROVE  LET kind == op.pending.kind
           IN  /\ kind = "DemoteOldPrimary" => Is("Primary", op.prev)
               /\ kind = "PromoteTarget" => Is("ActiveSecondary", op.prev)
               /\ kind \in Counting => Is("ActiveSecondary", op.prev)
               /\ kind = "CompensatePromoteOldPrimary" => Is("ActiveSecondary", op.next)
               /\ kind \in OldConfigures \cup TargetConfigures => P.role = "Primary"
<1> DEFINE kind == op.pending.kind
<1>1. \A post, pre : Either(post, pre) = "Precondition" => pre
  BY DEF Either
<1>2. \A expected, before : Configuration(expected, before) = "Precondition" => P.role = "Primary"
  BY DEF Configuration, Is
<1>3. kind = "DemoteOldPrimary" => Is("Primary", op.prev)
  BY <1>1, DirectOfKind
<1>4. kind = "PromoteTarget" => Is("ActiveSecondary", op.prev)
  BY <1>1, DirectOfKind
<1>5. kind \in Counting => Is("ActiveSecondary", op.prev)
  BY <1>1, DirectOfKind
<1>6. kind = "CompensatePromoteOldPrimary" => Is("ActiveSecondary", op.next)
  BY <1>1, DirectOfKind
<1>7. kind \in {"UpdateCatchUpConfiguration", "UpdateCurrentConfiguration",
               "CompensateCatchUpConfiguration", "CompensateCurrentConfiguration"} =>
        P.role = "Primary"
  BY <1>2, DirectOfKind
<1>8. kind = "RestorePreviousConfiguration" => P.role = "Primary"
  BY <1>1, DirectOfKind DEF Is
<1> QED
  BY <1>3, <1>4, <1>5, <1>6, <1>7, <1>8 DEF OldConfigures, TargetConfigures

\* A dispatched request is one the invariant allows, and grants writes to the
\* replica that holds them.
LEMMA DispatchedAction ==
    ASSUME IInv, Dispatchable, op.pending.target \in Replica
    PROVE  LET act == ActionFor(op.pending.kind)
           IN  /\ ActionInv(op.pending.id, act, P.epoch, Top)
               /\ Granting(act) => P.role = "Primary" /\ Holds(op.pending.target)
<1> DEFINE kind == op.pending.kind
           act == ActionFor(op.pending.kind)
<1>1. /\ op.phase \notin Terminal /\ op.pending # NoAction /\ kind \notin Labelling
      /\ Observation = "Precondition"
  BY DEF Dispatchable, Pending, Running
<1>2. /\ op.phase \in DOMAIN Kind /\ kind = Kind[op.phase]
      /\ op.pending.id[1] = op.prev /\ op.pending.id[3] = kind
      /\ kind \in OldConfigures \cup {"DemoteOldPrimary"} => op.pending.target = op.old
      /\ kind \in TargetConfigures => op.pending.target = op.target
      /\ op.prev = stable.epoch /\ op.next = stable.epoch + 1 /\ stable.epoch \in Nat
  BY <1>1 DEF IInv, OperationInv, Terminal, Settled
<1>3. DirectObservation = "Precondition"
  BY <1>1, PreconditionSeen
<1>4. /\ kind = "DemoteOldPrimary" => P.epoch = op.prev
      /\ kind = "PromoteTarget" => P.epoch = op.prev
      /\ kind \in Counting => P.epoch = op.prev
      /\ kind = "CompensatePromoteOldPrimary" => P.epoch = op.next
      /\ kind \in OldConfigures \cup TargetConfigures => P.role = "Primary"
  BY <1>3, PreconditionOfKind DEF Is
<1>5. /\ kind = "RevokeWrite" => act.do = "Revoke"
      /\ kind = "DemoteOldPrimary" =>
            act.do = "ChangeRole" /\ act.role = "ActiveSecondary" /\ act.epoch = op.next
      /\ kind \in {"PromoteTarget", "CompensatePromoteOldPrimary"} =>
            act.do = "ChangeRole" /\ act.role = "Primary" /\ act.epoch = op.next
      /\ kind \in Counting => act.do = "UpdateEpoch" /\ act.epoch = op.next
      /\ kind = "WaitForCatchUpQuorum" => act.do = "Wait"
      /\ kind \in OldConfigures \cup TargetConfigures => act.do \in {"CatchUp", "Current"}
  BY ActionOfKind DEF OldConfigures, TargetConfigures
<1>6. kind \in {"RevokeWrite", "DemoteOldPrimary", "PromoteTarget", "CompensatePromoteOldPrimary",
                "WaitForCatchUpQuorum"} \cup Counting \cup OldConfigures \cup TargetConfigures
  BY <1>1, <1>2 DEF Kind, Labelling, Counting, OldConfigures, TargetConfigures
<1>7. kind \in Counting \cup {"PromoteTarget", "CompensatePromoteOldPrimary"} => Top = op.next
  BY <1>2 DEF Kind, Counting, Top, Settled, Before
<1>8. /\ kind \in OldConfigures => op.phase \in Before \cup Compensating
      /\ kind \in TargetConfigures => op.phase \in After
  BY <1>2 DEF Kind, OldConfigures, TargetConfigures, Before, Compensating, After
<1> HIDE DEF act, kind
<1>9. CASE kind \in OldConfigures \cup TargetConfigures
  <2>1. Holds(op.pending.target)
    BY <1>2, <1>8, <1>9 DEF Holds
  <2>2. kind # "DemoteOldPrimary" /\ act.do \in {"CatchUp", "Current"}
    BY <1>5, <1>9 DEF OldConfigures, TargetConfigures
  <2>3. ActionInv(op.pending.id, act, P.epoch, Top)
    BY <1>2, <2>2 DEF ActionInv
  <2> QED
    BY <1>4, <1>9, <2>1, <2>3 DEF act
<1>10. CASE kind \notin OldConfigures \cup TargetConfigures
  <2>1. ActionInv(op.pending.id, act, P.epoch, Top) /\ ~Granting(act)
    <3>1. CASE kind = "RevokeWrite"
      BY <1>2, <1>5, <3>1 DEF ActionInv, Granting
    <3>2. CASE kind = "WaitForCatchUpQuorum"
      BY <1>2, <1>5, <3>2 DEF ActionInv, Granting
    <3>3. CASE kind = "DemoteOldPrimary"
      BY <1>2, <1>4, <1>5, <3>3 DEF ActionInv, Granting
    <3>4. CASE kind = "PromoteTarget"
      BY <1>2, <1>4, <1>5, <1>7, <3>4 DEF ActionInv, Granting
    <3>5. CASE kind = "CompensatePromoteOldPrimary"
      BY <1>2, <1>4, <1>5, <1>7, <3>5 DEF ActionInv, Granting
    <3>6. CASE kind \in Counting
      BY <1>2, <1>4, <1>5, <1>7, <3>6 DEF ActionInv, Granting, Counting
    <3> QED
      BY <1>6, <1>10, <3>1, <3>2, <3>3, <3>4, <3>5, <3>6
  <2> QED
    BY <2>1 DEF act
<1> QED
  BY <1>9, <1>10

LEMMA DispatchActionStep ==
    ASSUME IInv, DispatchAction
    PROVE  IInv'
<1> DEFINE act == ActionFor(op.pending.kind)
           q == [to |-> op.pending.target, id |-> op.pending.id, fences |-> op.pending.fences,
                 act |-> act]
<1>1. /\ Dispatchable /\ op.pending.fences = Fences(P) /\ net' = net \cup {q}
      /\ UNCHANGED <<op, stable, rep>>
  BY DEF DispatchAction
<1>2. op.phase # "Poisoned" /\ \A r \in Replica : MayGrant(r) => Holds(r)
  BY <1>1 DEF IInv, HolderInv, Dispatchable, Pending, Running, Terminal
<1>3. Top' = Top /\ OperationInv' /\ IsRecord(rep, Replica)'
  BY <1>1 DEF IInv, Top, OperationInv, IsRecord
<1>4. \A r \in Replica : ProcessInv(rep[r], Top)'
  BY <1>1, <1>3 DEF IInv
<1>5. /\ q.to = op.pending.target /\ q.id = op.pending.id /\ q.act = act
      /\ q.fences = Fences(P)
  BY <1>1
<1> HIDE DEF q, act
<1>6. q.fences.gen = P.gen /\ q.fences.ver = P.ver /\ q.fences.seen = P.epoch
  BY <1>5 DEF Fences
<1>7. q.to \in Replica =>
        /\ ActionInv(q.id, q.act, P.epoch, Top)
        /\ Granting(q.act) => P.role = "Primary" /\ Holds(q.to)
  BY <1>1, <1>5, DispatchedAction DEF act
<1>8. P = rep[q.to]
  BY <1>5 DEF P
<1>9. q.to \in Replica => RequestInv(rep[q.to], q, Top)
  BY <1>6, <1>7, <1>8 DEF IInv, ProcessInv, RequestInv, Past, Live
<1>10. \A x \in net' : x.to \in Replica => RequestInv(rep[x.to], x, Top)'
  BY <1>1, <1>3, <1>9 DEF IInv
<1>11. \A r \in Replica : MayGrant(r)' => MayGrant(r) \/ (q.to = r /\ Granting(q.act))
  BY <1>1 DEF MayGrant
<1>12. \A r \in Replica : MayGrant(r)' => Holds(r)
  BY <1>2, <1>7, <1>11
<1>13. \A r, s \in Replica : Holds(r) /\ Holds(s) => r = s
  BY DEF Holds, Settled, Before, After, Compensating
<1>14. \A r \in Replica : Holds(r)' <=> Holds(r)
  BY <1>1 DEF Holds
<1>15. HolderInv'
  BY <1>12, <1>13, <1>14 DEF HolderInv
<1> QED
  BY <1>3, <1>4, <1>10, <1>15 DEF IInv

-----------------------------------------------------------------------------
(* One writer.                                                             *)

LEMMA InitInv == Init => IInv
<1> SUFFICES ASSUME Init PROVE IInv
  OBVIOUS
<1>1. /\ op.phase = "Idle" /\ stable.epoch = 1 /\ stable.primary = First /\ net = {}
      /\ IsRecord(rep, Replica)
  BY DEF Init, Idle, StartEpoch, IsRecord
<1>2. OperationInv /\ Top = 1
  BY <1>1 DEF OperationInv, Phases, Settled, Top
<1>3. ASSUME NEW r \in Replica
      PROVE  /\ IsRecord(rep[r], ProcessFields) /\ rep[r].gen = 0 /\ rep[r].ver = 0
             /\ rep[r].epoch = 1 /\ rep[r].active = NoAction /\ DOMAIN rep[r].done = {}
             /\ rep[r].role = IF r = First THEN "Primary" ELSE "ActiveSecondary"
             /\ rep[r].write = IF r = First THEN "Granted" ELSE "NotPrimary"
  <2> DEFINE blank == BlankProcess(0, 0)
  <2>1. /\ IsRecord(blank, ProcessFields) /\ blank.gen = 0 /\ blank.ver = 0
        /\ blank.active = NoAction /\ DOMAIN blank.done = {}
    BY DEF BlankProcess, IsRecord, ProcessFields
  <2>2. rep[r] = [blank EXCEPT
                    !.open = TRUE, !.epoch = StartEpoch,
                    !.role = IF r = First THEN "Primary" ELSE "ActiveSecondary",
                    !.wal = IF r = First THEN "Primary" ELSE "ActiveSecondary",
                    !.write = IF r = First THEN "Granted" ELSE "NotPrimary",
                    !.cfg = IF r = First THEN ConfigOf("Current", First) ELSE NoConfig]
    BY DEF Init
  <2> HIDE DEF blank
  <2> QED
    BY <2>1, <2>2 DEF IsRecord, ProcessFields, StartEpoch
<1>4. \A r \in Replica : ProcessInv(rep[r], Top)
  BY <1>2, <1>3 DEF ProcessInv
<1>5. \A r \in Replica : MayGrant(r) => r = First
  BY <1>1, <1>3 DEF MayGrant
<1>6. HolderInv
  BY <1>1, <1>5 DEF HolderInv, Holds, Settled
<1> QED
  BY <1>1, <1>2, <1>4, <1>6 DEF IInv

\* No step makes a second writer possible.
LEMMA NextInv == IInv /\ [Next]_vars => IInv'
<1> SUFFICES ASSUME IInv, [Next]_vars PROVE IInv'
  OBVIOUS
<1>1. CASE Reconcile
  <2>1. CASE PatchLabel
    BY <2>1, OtherStep DEF PatchLabel
  <2> QED
    BY <1>1, <2>1, FailClosedStep, CaptureLsnStep, PreCatchUpStep, DistributionDoneStep,
       FinalizeStep, CompleteFailedStep, BeginActionStep, ActionDoneStep, ActionGivenUpStep,
       ActionPoisonsStep, PlanDispatchStep, DispatchActionStep DEF Reconcile
<1>2. CASE DeadlinePasses
  BY <1>2, DeadlinePassesStep
<1>3. CASE Clients
  BY <1>3, OtherStep DEF Clients, SubmitWrite, TakeWrite, AnswerOk, ReceiveItem
<1>4. ASSUME NEW r \in Replica, StartSwitchover(r) \/ Agent(r) \/ Fault(r) \/ Reconnect(r)
      PROVE  IInv'
  <2>1. CASE Disconnect(r) \/ Reconnect(r)
    BY <2>1, OtherStep DEF Disconnect, Reconnect
  <2> QED
    BY <1>4, <2>1, StartSwitchoverStep, HandleRequestStep, CompleteActionStep, FailActionStep,
       FaultStep DEF Agent, Fault
<1>5. CASE UNCHANGED vars
  BY <1>5, OtherStep DEF vars
<1> QED
  BY <1>1, <1>2, <1>3, <1>4, <1>5 DEF Next

\* The replicas that take client writes (access status Granted, pod.rs) are one
\* at most, in every state of every sequence of switchovers: compensated,
\* poisoned, with requests resent and admitted late, role changes that fail half
\* way, and processes restarted or replaced at any point.
THEOREM OneWriter == Spec => []AtMostOneWriter
<1>1. IInv => AtMostOneWriter
  BY DEF IInv, HolderInv, MayGrant, AtMostOneWriter
<1> QED
  BY <1>1, InitInv, NextInv, PTL DEF Spec

-----------------------------------------------------------------------------
(* What was granted survives.                                              *)
(*                                                                         *)
(* Every replica that is a primary, or may still be promoted, holds all    *)
(* that was taken while writes were granted.  The operator opens the way   *)
(* to a promotion only when nobody takes writes: from the capture of the   *)
(* frozen LSN on, which the target must reach, and in a compensation until *)
(* the target is known to be a secondary of the new epoch.                 *)

\* The actions that r runs or may still admit.
Actions(r) ==
    {a \in {rep[r].active} : a # NoAction}
    \cup {[id |-> q.id, act |-> q.act] : q \in {x \in net : x.to = r /\ Live(rep[r], x)}}

Promoting(act) == act.do = "ChangeRole" /\ act.role = "Primary"

\* r is a primary or may become one.
MayLead(r) == rep[r].role = "Primary" \/ \E a \in Actions(r) : Promoting(a.act)

DoneAt(r, id) == id \in DOMAIN rep[r].done /\ rep[r].done[id] = "Completed"

\* The action at hand is on record.
Seen == op.pending # NoAction /\ DoneAt(op.pending.target, op.pending.id)

Configures == OldConfigures \cup TargetConfigures
CatchUpKinds == {"UpdateCatchUpConfiguration", "CompensateCatchUpConfiguration"}
CurrentKinds == {"UpdateCurrentConfiguration", "CompensateCurrentConfiguration"}
PromoteKinds == {"PromoteTarget", "CompensatePromoteOldPrimary"}

AfterCurrent == {"LabelTargetPrimary", "LabelOldSecondary", "Finalize"}
AfterCatchUp == AfterCurrent \cup {"WaitForCatchUpQuorum", "UpdateCurrentConfiguration"}
AfterCompensateCurrent ==
    {"CompensateLabelOldPrimary", "CompensateLabelTargetSecondary", "CompensateFinalize"}
AfterCompensateCatchUp == AfterCompensateCurrent \cup {"CompensateCurrentConfiguration"}
AfterCompensatePromote ==
    AfterCompensateCatchUp \cup {"CompensateDistributeEpoch", "CompensateCatchUpConfiguration"}

\* An action of this kind, with an id of this operation, may have been dispatched.
Reached(kind) ==
    /\ kind = "UpdateCatchUpConfiguration" =>
          op.phase \in AfterCatchUp \/ (op.phase = kind /\ op.pending # NoAction)
    /\ kind = "UpdateCurrentConfiguration" =>
          op.phase \in AfterCurrent \/ (op.phase = kind /\ op.pending # NoAction)
    /\ kind = "CompensateUpdateSecondaryEpoch" => op.phase \in AfterCompensatePromote
    /\ kind = "CompensateCatchUpConfiguration" =>
          op.phase \in AfterCompensateCatchUp \/ (op.phase = kind /\ op.pending # NoAction)
    /\ kind = "CompensateCurrentConfiguration" =>
          op.phase \in AfterCompensateCurrent \/ (op.phase = kind /\ op.pending # NoAction)

\* Ids name the epoch they start from, and none is used before its phase.
IdInv(id) ==
    /\ id[1] \in Nat /\ id[1] <= stable.epoch
    /\ op.phase # "Poisoned" => id[1] < stable.epoch \/ Reached(id[3])

\* An action that r may run, and what its id says of it.
KindInv(r, a) ==
    /\ IdInv(a.id)
    /\ Granting(a.act) <=> a.id[3] \in Configures
    /\ a.act.do = "CatchUp" <=> a.id[3] \in CatchUpKinds
    /\ a.id[3] = "CompensateUpdateSecondaryEpoch" => a.act.do = "UpdateEpoch"
    /\ a.id[3] \in PromoteKinds => Promoting(a.act) /\ a.act.epoch = a.id[1] + 1
    /\ a.act.do = "UpdateEpoch" => a.act.epoch > rep[r].epoch
    /\ a.act.do \in {"ChangeRole", "UpdateEpoch"} => a.act.epoch <= stable.epoch + 1

\* The records of r.
RecordInv(r) ==
    /\ rep[r].epoch <= stable.epoch + 1
    /\ rep[r].active # NoAction => rep[r].active.id \notin DOMAIN rep[r].done
    /\ \A q \in net : q.to = r /\ Live(rep[r], q) /\ rep[r].active # NoAction =>
          q.id # rep[r].active.id
    /\ \A id \in DOMAIN rep[r].done :
          /\ IdInv(id)
          /\ rep[r].done[id] = "Completed" /\ id[3] \in PromoteKinds =>
                /\ rep[r].epoch > id[1]
                /\ rep[r].role = "Primary" \/ rep[r].epoch > id[1] + 1

MemberInv ==
    /\ stable.primary \in Replica
    /\ op.phase # "Idle" =>
          /\ op.old \in Replica /\ op.target \in Replica /\ op.old # op.target
          /\ op.index \in Nat
    /\ op.phase \notin Settled /\ op.pending # NoAction =>
          /\ op.phase = "PromoteTarget" => op.pending.target = op.target
          /\ op.phase = "CompensatePromoteOldPrimary" => op.pending.target = op.old
          /\ op.phase = "CompensateDistributeEpoch" =>
                op.pending.target = MemberAt(Others(op.old), op.index)

\* r is the replica that leads in this phase, or may lead beside it.
Leading(r) ==
    \/ op.phase \in Settled /\ r = stable.primary
    \/ op.phase \in Before \cup Compensating /\ r = op.old
    \/ op.phase \in After \cup {"PromoteTarget", "CompensatePromoteOldPrimary"} /\ r = op.target
    \/ op.phase = "CompensateDistributeEpoch" /\ r = op.target
         /\ op.index <= Place(Others(op.old), r)

\* The replica the operation makes or leaves primary.
Chosen == IF op.phase \in After THEN op.target ELSE op.old

LeadInv ==
    op.phase # "Poisoned" =>
    /\ \A r \in Replica : MayLead(r) => Leading(r)
    /\ op.phase \notin Settled =>
          \A a \in Actions(op.target) : Promoting(a.act) => a.act.epoch > rep[op.target].epoch
    /\ op.phase \in After \cup Compensating \cup {"PromoteTarget"} =>
          \A r \in Replica :
              /\ rep[r].role = "Primary" => rep[r].epoch = op.next
              /\ \A a \in Actions(r) : Promoting(a.act) => a.act.epoch = op.next
    /\ op.phase \in After \cup AfterCompensatePromote =>
          rep[Chosen].role = "Primary" \/ \A a \in Actions(Chosen) : ~Promoting(a.act)
    /\ op.phase = "CompensateDistributeEpoch" =>
          \A id \in DOMAIN rep[op.target].done :
              /\ rep[op.target].done[id] = "Completed"
              /\ id[1] = op.prev /\ id[3] = "CompensateUpdateSecondaryEpoch"
              => ~MayLead(op.target)

\* From the capture of the frozen LSN on nobody takes writes, until a
\* configuration is installed.
QuietInv ==
    op.phase \in {"PreCatchUp", "DemoteOldPrimary", "PromoteTarget",
                  "CompensatePromoteOldPrimary", "CompensateDistributeEpoch"} =>
        \A r \in Replica : rep[r].write # "Granted"

\* Only the action at hand installs a configuration.
GrantInv ==
    op.phase # "Poisoned" =>
        \A r \in Replica : \A a \in Actions(r) : Granting(a.act) =>
            /\ op.phase \notin Settled /\ op.pending # NoAction
            /\ a.id = op.pending.id /\ r = op.pending.target
            /\ a.id \notin DOMAIN rep[r].done

\* The configuration that is installed tells which of these actions ran.
ModeInv ==
    /\ op.phase # "Poisoned" =>
        \A r \in Replica : rep[r].cfg.mode = "CatchUp" =>
            /\ op.phase \in CatchUpKinds \cup CurrentKinds \cup {"WaitForCatchUpQuorum"}
            /\ r = Chosen
    /\ op.phase \in CatchUpKinds => (rep[Chosen].cfg.mode = "CatchUp" <=> Seen)
    /\ op.phase = "WaitForCatchUpQuorum" /\ rep[Chosen].role = "Primary" =>
          rep[Chosen].cfg.mode = "CatchUp"
    /\ op.phase \in CurrentKinds =>
          /\ rep[Chosen].role = "Primary" /\ rep[Chosen].cfg.mode # "CatchUp" => Seen
          /\ Seen => rep[Chosen].cfg.mode # "CatchUp"
    /\ op.phase = "RestorePreviousConfiguration" /\ rep[op.old].write = "Granted" => Seen

LsnInv ==
    /\ lsn \in [Replica -> Nat] /\ granted \in Nat /\ acked \in Nat
    /\ op.phase \in Settled => lsn[stable.primary] >= granted
    /\ op.phase \in Before \cup Compensating \cup {"PromoteTarget"} => lsn[op.old] >= granted
    /\ op.phase = "PreCatchUp" => op.frozen \in Nat /\ op.frozen >= granted
    /\ op.phase \in {"DemoteOldPrimary", "PromoteTarget"} => lsn[op.target] >= granted
    /\ \A r \in Replica : MayLead(r) => lsn[r] >= granted

\* Whoever may take writes is the only one that may lead.
ApartInv == \A r, s \in Replica : MayGrant(r) /\ MayLead(s) => r = s

SurviveInv ==
    /\ IInv
    /\ MemberInv
    /\ \A r \in Replica : RecordInv(r) /\ \A a \in Actions(r) : KindInv(r, a)
    /\ LeadInv
    /\ QuietInv
    /\ GrantInv
    /\ ModeInv
    /\ LsnInv
    /\ ApartInv

-----------------------------------------------------------------------------
(* What may still run.                                                     *)

LEMMA ActionsOf ==
    ASSUME NEW r, NEW a
    PROVE  a \in Actions(r) <=>
              \/ rep[r].active # NoAction /\ a = rep[r].active
              \/ \E q \in net : /\ q.to = r /\ Live(rep[r], q)
                                /\ a = [id |-> q.id, act |-> q.act]
  BY DEF Actions

\* A replica may come to take writes when it does, or may run an installation.
LEMMA GrantOf ==
    ASSUME NEW r
    PROVE  MayGrant(r) <=> rep[r].write = "Granted" \/ \E a \in Actions(r) : Granting(a.act)
<1>1. ASSUME NEW q \in net, q.to = r, Live(rep[r], q), Granting(q.act)
      PROVE  \E a \in Actions(r) : Granting(a.act)
  <2>1. [id |-> q.id, act |-> q.act] \in Actions(r)
    BY <1>1, ActionsOf
  <2> QED
    BY <1>1, <2>1
<1>2. rep[r].active # NoAction => rep[r].active \in Actions(r)
  BY ActionsOf
<1>3. ASSUME NEW a \in Actions(r), Granting(a.act)
      PROVE  MayGrant(r)
  BY <1>3, ActionsOf DEF MayGrant
<1> QED
  BY <1>1, <1>2, <1>3 DEF MayGrant

LEMMA GrantOfNext ==
    ASSUME NEW r, MayGrant(r)'
    PROVE  rep'[r].write = "Granted" \/ \E a \in Actions(r)' : Granting(a.act)
<1>1. ASSUME NEW q \in net', q.to = r, Live(rep'[r], q), Granting(q.act)
      PROVE  \E a \in Actions(r)' : Granting(a.act)
  <2>1. [id |-> q.id, act |-> q.act] \in Actions(r)'
    BY <1>1 DEF Actions
  <2> QED
    BY <1>1, <2>1
<1>2. rep'[r].active # NoAction => rep'[r].active \in Actions(r)'
  BY DEF Actions
<1> QED
  BY <1>1, <1>2 DEF MayGrant

\* What the first invariant says of these actions.
LEMMA ActionFacts ==
    ASSUME IInv, NEW r \in Replica, NEW a \in Actions(r)
    PROVE  /\ ActionInv(a.id, a.act, rep[r].epoch, Top)
           /\ Granting(a.act) => rep[r].role = "Primary"
<1>1. CASE rep[r].active # NoAction /\ a = rep[r].active
  BY <1>1 DEF IInv, ProcessInv
<1>2. CASE \E q \in net : /\ q.to = r /\ Live(rep[r], q)
                          /\ a = [id |-> q.id, act |-> q.act]
  BY <1>2 DEF IInv, RequestInv, Live
<1> QED
  BY <1>1, <1>2, ActionsOf

\* A step of the process of r leaves no action to the others, and to r only
\* those that it may have run before; a request is live in the same epoch only.
LEMMA ActionsShrink ==
    ASSUME IInv, NEW r \in Replica, NEW p2, rep' = [rep EXCEPT ![r] = p2], net' \subseteq net,
           ProcessInv(p2, Top), Succeeds(rep[r], p2),
           p2.active # NoAction => p2.active \in Actions(r) /\ p2.epoch = rep[r].epoch
    PROVE  /\ rep'[r] = p2 /\ \A x \in Replica : x # r => rep'[x] = rep[x]
           /\ \A x \in Replica : Actions(x)' \subseteq Actions(x)
           /\ \A a \in Actions(r)' : p2.epoch = rep[r].epoch
           /\ \A q \in net' : q.to = r /\ Live(p2, q) => Live(rep[r], q) /\ p2.ver = rep[r].ver
                                                        /\ p2.gen = rep[r].gen
<1>1. rep'[r] = p2 /\ \A x \in Replica : x # r => rep'[x] = rep[x]
  BY DEF IInv, IsRecord
<1>2. \A q \in net' : q.to = r /\ Live(p2, q) =>
          /\ Live(rep[r], q) /\ p2.ver = rep[r].ver /\ p2.gen = rep[r].gen
          /\ p2.epoch = rep[r].epoch
  <2> SUFFICES ASSUME NEW q \in net', q.to = r, Live(p2, q)
               PROVE  /\ Live(rep[r], q) /\ p2.ver = rep[r].ver /\ p2.gen = rep[r].gen
                      /\ p2.epoch = rep[r].epoch
    OBVIOUS
  <2>1. Past(rep[r], q) /\ ProcessInv(rep[r], Top)
    BY DEF IInv, RequestInv
  <2>2. Live(rep[r], q)
    BY <2>1, LiveBefore
  <2> QED
    BY <2>2 DEF Live
<1>3. ASSUME NEW a \in Actions(r)'
      PROVE  a \in Actions(r) /\ p2.epoch = rep[r].epoch
  <2>1. \/ p2.active # NoAction /\ a = p2.active
        \/ \E q \in net' : q.to = r /\ Live(p2, q) /\ a = [id |-> q.id, act |-> q.act]
    BY <1>1, <1>3 DEF Actions
  <2> QED
    BY <1>2, <2>1, ActionsOf
<1>4. ASSUME NEW x \in Replica, x # r, NEW a \in Actions(x)'
      PROVE  a \in Actions(x)
  <2>1. \/ rep[x].active # NoAction /\ a = rep[x].active
        \/ \E q \in net' : q.to = x /\ Live(rep[x], q) /\ a = [id |-> q.id, act |-> q.act]
    BY <1>1, <1>4 DEF Actions
  <2> QED
    BY <2>1, ActionsOf
<1> QED
  BY <1>1, <1>2, <1>3, <1>4

-----------------------------------------------------------------------------
(* The agents.                                                             *)

\* The process p2 comes after that of r, from which it has its configuration and
\* records: the same configuration and no record of an installation; or a blank
\* process; or what an installation left.
Kept(r, p2) ==
    /\ p2.cfg = rep[r].cfg
    /\ p2.write = "Granted" => rep[r].write = "Granted"
    /\ \A id : id[3] \in Configures =>
          ((id \in DOMAIN p2.done /\ p2.done[id] = "Completed") <=> DoneAt(r, id))

Lost(p2) ==
    /\ p2.cfg.mode # "CatchUp" /\ p2.write # "Granted" /\ p2.role # "Primary"
    /\ DOMAIN p2.done = {}

Installed(r, p2) ==
    \E a \in Actions(r) :
        /\ Granting(a.act) /\ p2.cfg.mode = a.act.do /\ p2.role = rep[r].role
        /\ \A id : (id \in DOMAIN p2.done /\ p2.done[id] = "Completed") <=> DoneAt(r, id) \/ id = a.id

\* Where the role of p2 comes from.
RoleFrom(r, p2) ==
    /\ p2.role = "Primary" =>
          \/ rep[r].role = "Primary" /\ p2.epoch = rep[r].epoch
          \/ \E a \in Actions(r) :
                /\ p2.epoch = a.act.epoch
                /\ Promoting(a.act) \/ (rep[r].role = "Primary" /\ a.act.do = "UpdateEpoch")
    /\ rep[r].role = "Primary" /\ p2.role # "Primary" => Actions(r)' = {}

\* A distribution of the epoch is on record only when it ran.
DistributionFrom(r, p2) ==
    \A id \in DOMAIN p2.done :
        p2.done[id] = "Completed" /\ id[3] = "CompensateUpdateSecondaryEpoch" =>
            \/ DoneAt(r, id)
            \/ /\ p2.role = rep[r].role /\ Actions(r)' = {}
               /\ \E a \in Actions(r) : a.act.do = "UpdateEpoch"

LEMMA AgentStep ==
    ASSUME SurviveInv, IInv', NEW r \in Replica, NEW p2,
           UNCHANGED <<op, stable, lsn, acked, granted>>,
           rep'[r] = p2, \A x \in Replica : x # r => rep'[x] = rep[x],
           net' \subseteq net,
           \A x \in Replica : Actions(x)' \subseteq Actions(x),
           \A a \in Actions(r)' : p2.epoch = rep[r].epoch,
           op.phase # "Poisoned" =>
              \A a \in Actions(r)' : Granting(a.act) => a.id \notin DOMAIN p2.done,
           Kept(r, p2) \/ Lost(p2) \/ Installed(r, p2),
           RoleFrom(r, p2), DistributionFrom(r, p2), RecordInv(r)'
    PROVE  SurviveInv'
<1>1. \A x \in Replica : MayLead(x)' => MayLead(x)
  BY DEF MayLead, RoleFrom
<1>2. MemberInv'
  BY DEF SurviveInv, MemberInv
<1>3. \A id : IdInv(id)' <=> IdInv(id)
  BY DEF IdInv, Reached
<1>4. \A x \in Replica : \A a \in Actions(x)' : KindInv(x, a)'
  <2> SUFFICES ASSUME NEW x \in Replica, NEW a \in Actions(x)'
               PROVE  KindInv(x, a)'
    OBVIOUS
  <2>1. KindInv(x, a) /\ rep'[x].epoch = rep[x].epoch
    BY DEF SurviveInv
  <2> QED
    BY <1>3, <2>1 DEF KindInv
<1>5. \A x \in Replica : RecordInv(x)'
  <2> SUFFICES ASSUME NEW x \in Replica, x # r PROVE RecordInv(x)'
    OBVIOUS
  <2>1. RecordInv(x) /\ rep'[x] = rep[x]
    BY DEF SurviveInv
  <2> QED
    BY <1>3, <2>1 DEF RecordInv
<1>6. LeadInv'
  <2> SUFFICES ASSUME op.phase # "Poisoned" PROVE LeadInv'
    BY DEF LeadInv
  <2>1. \A x \in Replica : MayLead(x)' => Leading(x)'
    BY <1>1 DEF SurviveInv, LeadInv, Leading
  <2>2. op.phase \notin Settled => op.target \in Replica /\ op.old \in Replica
    BY DEF SurviveInv, MemberInv, Settled
  <2>3. ASSUME op.phase \notin Settled, NEW a \in Actions(op.target)', Promoting(a.act)
        PROVE  a.act.epoch > rep'[op.target].epoch
    BY <2>2, <2>3 DEF SurviveInv, LeadInv
  <2>4. ASSUME op.phase \in After \cup Compensating \cup {"PromoteTarget"}, NEW x \in Replica
        PROVE  /\ rep'[x].role = "Primary" => rep'[x].epoch = op.next
               /\ \A a \in Actions(x)' : Promoting(a.act) => a.act.epoch = op.next
    <3>1. /\ rep[x].role = "Primary" => rep[x].epoch = op.next
          /\ \A a \in Actions(x) : Promoting(a.act) => a.act.epoch = op.next
      BY <2>4 DEF SurviveInv, LeadInv
    <3>2. Top = op.next /\ op.next \in Nat
      BY <2>4 DEF SurviveInv, IInv, OperationInv, Top, After, Compensating, Settled, Before
    <3>3. ASSUME x = r, rep[r].role = "Primary", NEW a \in Actions(r), a.act.do = "UpdateEpoch"
          PROVE  FALSE
      <4>1. a.act.epoch > rep[r].epoch
        BY <3>3 DEF SurviveInv, KindInv
      <4>2. a.act.epoch \in Nat /\ a.act.epoch <= Top
        BY <3>3, ActionFacts DEF SurviveInv, ActionInv
      <4> QED
        BY <3>1, <3>2, <3>3, <4>1, <4>2
    <3> QED
      BY <3>1, <3>3 DEF RoleFrom
  <2>5. ASSUME op.phase \in After \cup AfterCompensatePromote
        PROVE  rep'[Chosen].role = "Primary" \/ \A a \in Actions(Chosen)' : ~Promoting(a.act)
    <3>1. Chosen \in Replica
      BY <2>2, <2>5 DEF Chosen, After, AfterCompensatePromote, AfterCompensateCatchUp,
                        AfterCompensateCurrent, Settled
    <3>2. rep[Chosen].role = "Primary" \/ \A a \in Actions(Chosen) : ~Promoting(a.act)
      BY <2>5 DEF SurviveInv, LeadInv
    <3>3. CASE Chosen = r
      <4>1. Actions(Chosen)' \subseteq Actions(Chosen)
        BY <3>1 DEF Chosen
      <4>2. rep[r].role = "Primary" /\ p2.role # "Primary" => Actions(Chosen)' = {}
        BY <3>3 DEF RoleFrom, Chosen
      <4> QED
        BY <3>2, <3>3, <4>1, <4>2
    <3>4. CASE Chosen # r
      <4>1. Actions(Chosen)' \subseteq Actions(Chosen)
        BY <3>1 DEF Chosen
      <4> QED
        BY <3>1, <3>2, <3>4, <4>1
    <3> QED
      BY <3>3, <3>4
  <2>6. ASSUME op.phase = "CompensateDistributeEpoch", NEW id \in DOMAIN rep'[op.target].done,
               rep'[op.target].done[id] = "Completed",
               id[1] = op.prev, id[3] = "CompensateUpdateSecondaryEpoch"
        PROVE  ~MayLead(op.target)'
    <3>1. op.target \in Replica
      BY <2>2, <2>6 DEF Settled
    <3>2. CASE DoneAt(op.target, id)
      BY <1>1, <2>6, <3>1, <3>2 DEF SurviveInv, LeadInv, DoneAt
    <3>3. CASE ~DoneAt(op.target, id)
      <4>1. op.target = r
        BY <2>6, <3>1, <3>3 DEF DoneAt
      <4>2. PICK a \in Actions(r) : a.act.do = "UpdateEpoch"
        BY <2>6, <3>3, <4>1 DEF DistributionFrom
      <4>3. p2.role = rep[r].role /\ Actions(r)' = {}
        BY <2>6, <3>3, <4>1 DEF DistributionFrom
      <4>4. rep[r].role # "Primary"
        <5> SUFFICES ASSUME rep[r].role = "Primary" PROVE FALSE
          OBVIOUS
        <5>1. a.act.epoch > rep[r].epoch
          BY <4>2 DEF SurviveInv, KindInv
        <5>2. a.act.epoch \in Nat /\ a.act.epoch <= Top
          BY <4>2, ActionFacts DEF SurviveInv, ActionInv
        <5>3. rep[r].epoch = op.next /\ Top = op.next /\ op.next \in Nat
          BY <2>6 DEF SurviveInv, LeadInv, IInv, OperationInv, Top, Compensating, Settled, Before
        <5> QED
          BY <5>1, <5>2, <5>3
      <4>5. ~(rep'[r].role = "Primary") /\ Actions(r)' = {}
        BY <4>3, <4>4
      <4> QED
        BY <4>1, <4>5 DEF MayLead
    <3> QED
      BY <3>2, <3>3
  <2>7. Chosen' = Chosen
    BY DEF Chosen
  <2> QED
    BY <2>1, <2>3, <2>4, <2>5, <2>6, <2>7 DEF LeadInv
<1>7. \A x \in Replica : rep'[x].write = "Granted" =>
          \/ rep[x].write = "Granted"
          \/ \E a \in Actions(x) : Granting(a.act)
  BY DEF Kept, Lost, Installed
<1>8. QuietInv'
  <2> SUFFICES ASSUME op.phase \in {"PreCatchUp", "DemoteOldPrimary", "PromoteTarget",
                         "CompensatePromoteOldPrimary", "CompensateDistributeEpoch"},
                      NEW x \in Replica, rep'[x].write = "Granted"
               PROVE  FALSE
    BY DEF QuietInv
  <2>1. rep[x].write # "Granted"
    BY DEF SurviveInv, QuietInv
  <2>2. PICK a \in Actions(x) : Granting(a.act)
    BY <1>7, <2>1
  <2>3. a.id[3] \in Configures
    BY <2>2 DEF SurviveInv, KindInv
  <2>4. op.phase \notin Settled /\ op.pending # NoAction /\ a.id = op.pending.id
    BY <2>2 DEF SurviveInv, GrantInv
  <2>5. op.phase \in DOMAIN Kind /\ a.id[3] = Kind[op.phase]
    BY <2>4 DEF SurviveInv, IInv, OperationInv
  <2> QED
    BY <2>3, <2>5 DEF Kind, Configures, OldConfigures, TargetConfigures
<1>9. GrantInv'
  <2> SUFFICES ASSUME op.phase # "Poisoned", NEW x \in Replica, NEW a \in Actions(x)',
                      Granting(a.act)
               PROVE  /\ op.phase \notin Settled /\ op.pending # NoAction
                      /\ a.id = op.pending.id /\ x = op.pending.target
                      /\ a.id \notin DOMAIN rep'[x].done
    BY DEF GrantInv
  <2>1. a \in Actions(x)
    OBVIOUS
  <2>2. /\ op.phase \notin Settled /\ op.pending # NoAction
        /\ a.id = op.pending.id /\ x = op.pending.target
        /\ a.id \notin DOMAIN rep[x].done
    BY <2>1 DEF SurviveInv, GrantInv
  <2> QED
    BY <2>2
<1>10. ModeInv'
  <2>1. /\ Chosen' = Chosen
        /\ op.phase \notin Settled \cup {"Poisoned"} => Chosen \in Replica
    BY DEF SurviveInv, MemberInv, Chosen, Settled
  <2>2. op.phase \in Configures =>
          /\ op.phase \notin Settled \cup {"Poisoned"}
          /\ op.pending # NoAction => op.pending.target = Chosen /\ op.pending.id[3] = op.phase
    BY DEF SurviveInv, IInv, OperationInv, Configures, OldConfigures, TargetConfigures, Settled,
           Chosen, After, Kind
  <2>3. op.phase \in CurrentKinds \cup {"WaitForCatchUpQuorum"}
        /\ rep'[Chosen].role = "Primary" => rep[Chosen].role = "Primary"
    <3> SUFFICES ASSUME op.phase \in CurrentKinds \cup {"WaitForCatchUpQuorum"},
                        rep'[Chosen].role = "Primary", rep[Chosen].role # "Primary"
                 PROVE  FALSE
      OBVIOUS
    <3>1. op.phase \in After \cup AfterCompensatePromote /\ op.phase # "Poisoned"
          /\ op.phase \notin Settled
      BY DEF CurrentKinds, After, AfterCompensatePromote, AfterCompensateCatchUp, Settled
    <3>2. \A a \in Actions(Chosen) : ~Promoting(a.act)
      BY <3>1 DEF SurviveInv, LeadInv
    <3>3. Chosen = r
      BY <2>1, <3>1
    <3> QED
      BY <3>2, <3>3 DEF RoleFrom
  <2>4. CatchUpKinds \cup CurrentKinds \cup {"RestorePreviousConfiguration"} = Configures
    BY DEF CatchUpKinds, CurrentKinds, Configures, OldConfigures, TargetConfigures
  <2>5. op.phase = "RestorePreviousConfiguration" => Chosen = op.old
    BY DEF Chosen, After
  <2>6. ModeInv
    BY DEF SurviveInv
  <2>7. CASE Kept(r, p2)
    <3>1. \A x \in Replica : rep'[x].cfg = rep[x].cfg
                             /\ (rep'[x].write = "Granted" => rep[x].write = "Granted")
      BY <2>7 DEF Kept
    <3>2. op.phase \in Configures => (Seen' <=> Seen)
      <4> SUFFICES ASSUME op.phase \in Configures, op.pending # NoAction
                   PROVE  DoneAt(op.pending.target, op.pending.id)'
                            <=> DoneAt(op.pending.target, op.pending.id)
        BY DEF Seen
      <4>1. op.pending.target \in Replica /\ op.pending.id[3] \in Configures
        BY <2>1, <2>2
      <4> QED
        BY <2>7, <4>1 DEF DoneAt, Kept
    <3>3. op.phase \in CatchUpKinds \cup CurrentKinds
                        \cup {"RestorePreviousConfiguration", "WaitForCatchUpQuorum"} =>
            /\ Chosen \in Replica
            /\ rep'[Chosen].cfg = rep[Chosen].cfg
            /\ rep'[Chosen].write = "Granted" => rep[Chosen].write = "Granted"
      BY <2>1, <3>1 DEF CatchUpKinds, CurrentKinds, Settled
    <3> QED
      BY <2>1, <2>3, <2>4, <2>5, <2>6, <3>1, <3>2, <3>3 DEF ModeInv
  <2>8. CASE Lost(p2)
    <3>1. CASE r = Chosen
      <4>1. op.phase \in Configures => ~Seen'
        <5> SUFFICES ASSUME op.phase \in Configures, op.pending # NoAction
                     PROVE  ~DoneAt(op.pending.target, op.pending.id)'
          BY DEF Seen
        <5> QED
          BY <2>2, <2>8, <3>1 DEF DoneAt, Lost
      <4>2. /\ rep'[Chosen].cfg.mode # "CatchUp" /\ rep'[Chosen].write # "Granted"
            /\ rep'[Chosen].role # "Primary"
        BY <2>8, <3>1 DEF Lost
      <4>3. \A x \in Replica : x # Chosen => rep'[x] = rep[x]
        BY <3>1
      <4> QED
        BY <2>1, <2>4, <2>5, <2>6, <4>1, <4>2, <4>3 DEF ModeInv
    <3>2. CASE r # Chosen
      <4>1. op.phase \in Configures => (Seen' <=> Seen)
        <5> SUFFICES ASSUME op.phase \in Configures, op.pending # NoAction
                     PROVE  DoneAt(op.pending.target, op.pending.id)'
                              <=> DoneAt(op.pending.target, op.pending.id)
          BY DEF Seen
        <5> QED
          BY <2>1, <2>2, <3>2 DEF DoneAt
      <4>2. op.phase \in CatchUpKinds \cup CurrentKinds
                          \cup {"RestorePreviousConfiguration", "WaitForCatchUpQuorum"} =>
              rep'[Chosen] = rep[Chosen]
        BY <2>1, <3>2 DEF CatchUpKinds, CurrentKinds, Settled
      <4>3. \A x \in Replica : rep'[x].cfg.mode = "CatchUp" => rep[x].cfg.mode = "CatchUp"
        BY <2>8 DEF Lost
      <4> QED
        BY <2>1, <2>4, <2>5, <2>6, <4>1, <4>2, <4>3 DEF ModeInv
    <3> QED
      BY <3>1, <3>2
  <2>9. CASE Installed(r, p2)
    <3>1. CASE op.phase = "Poisoned"
      BY <3>1 DEF ModeInv, CatchUpKinds, CurrentKinds
    <3>2. CASE op.phase # "Poisoned"
      <4>1. PICK a \in Actions(r) :
               /\ Granting(a.act) /\ p2.cfg.mode = a.act.do
               /\ \A id : (id \in DOMAIN p2.done /\ p2.done[id] = "Completed")
                             <=> DoneAt(r, id) \/ id = a.id
        BY <2>9 DEF Installed
      <4>2. /\ op.phase \notin Settled /\ op.pending # NoAction
            /\ a.id = op.pending.id /\ r = op.pending.target
        BY <3>2, <4>1 DEF SurviveInv, GrantInv
      <4>3. /\ a.id[3] \in Configures
            /\ a.act.do = "CatchUp" <=> a.id[3] \in CatchUpKinds
        BY <4>1 DEF SurviveInv, KindInv
      <4>4. op.phase = a.id[3]
        BY <4>2, <4>3 DEF SurviveInv, IInv, OperationInv, Kind, Configures, OldConfigures,
                          TargetConfigures
      <4>5. r = Chosen /\ Seen'
        BY <2>2, <4>1, <4>2, <4>3, <4>4 DEF Seen, DoneAt
      <4>6. /\ rep'[Chosen].cfg.mode = "CatchUp" <=> op.phase \in CatchUpKinds
            /\ \A x \in Replica : x # Chosen => rep'[x] = rep[x]
        BY <4>1, <4>3, <4>4, <4>5
      <4>7. op.phase \in CurrentKinds => op.phase \notin CatchUpKinds
        BY DEF CurrentKinds, CatchUpKinds
      <4>8. op.phase # "WaitForCatchUpQuorum"
        BY <4>3, <4>4 DEF Configures, OldConfigures, TargetConfigures
      <4> QED
        BY <2>1, <2>5, <2>6, <4>5, <4>6, <4>7, <4>8 DEF ModeInv
    <3> QED
      BY <3>1, <3>2
  <2> QED
    BY <2>7, <2>8, <2>9
<1>11. LsnInv'
  <2>1. LsnInv
    BY DEF SurviveInv
  <2> QED
    BY <1>1, <2>1 DEF LsnInv
<1>12. ApartInv'
  <2>1. \A x \in Replica : MayGrant(x)' => MayGrant(x)
    BY <1>7, GrantOf, GrantOfNext
  <2> QED
    BY <1>1, <2>1 DEF SurviveInv, ApartInv
<1> QED
  BY <1>2, <1>4, <1>5, <1>6, <1>8, <1>9, <1>10, <1>11, <1>12 DEF SurviveInv

\* What a step of an agent or a fault leaves alone, and the shape of the rest.
LEMMA AgentStepFrom ==
    ASSUME SurviveInv, IInv', NEW r \in Replica, NEW p2, rep' = [rep EXCEPT ![r] = p2],
           UNCHANGED <<op, stable, lsn, acked, granted>>, net' \subseteq net,
           Succeeds(rep[r], p2),
           p2.active # NoAction => p2.active \in Actions(r) /\ p2.epoch = rep[r].epoch
    PROVE  /\ ProcessInv(p2, Top)
           /\ rep'[r] = p2 /\ \A x \in Replica : x # r => rep'[x] = rep[x]
           /\ \A x \in Replica : Actions(x)' \subseteq Actions(x)
           /\ \A a \in Actions(r)' : p2.epoch = rep[r].epoch
           /\ \A q \in net' : q.to = r /\ Live(p2, q) => Live(rep[r], q) /\ p2.ver = rep[r].ver
                                                        /\ p2.gen = rep[r].gen
           /\ \A id : IdInv(id)' <=> IdInv(id)
<1>1. rep'[r] = p2 /\ Top' = Top
  BY DEF SurviveInv, IInv, IsRecord, Top
<1>2. ProcessInv(p2, Top)
  BY <1>1 DEF IInv
<1>3. \A id : IdInv(id)' <=> IdInv(id)
  BY DEF IdInv, Reached
<1> QED
  BY <1>2, <1>3, ActionsShrink DEF SurviveInv

LEMMA HandleRequestSurvive ==
    ASSUME SurviveInv, IInv', NEW r \in Replica, HandleRequest(r)
    PROVE  SurviveInv'
<1>1. PICK q \in net :
        /\ q.to = r
        /\ \/ CanAdmit(rep[r], q) /\ rep' = [rep EXCEPT ![r] = Admit(rep[r], q)]
           \/ Refused(rep[r], q) /\ UNCHANGED rep
        /\ net' = net \ {q}
  BY DEF HandleRequest
<1>2. UNCHANGED <<op, stable, lsn, acked, granted>> /\ net' \subseteq net
  BY <1>1 DEF HandleRequest, dataVars
<1>3. ProcessInv(rep[r], Top) /\ RecordInv(r)
  BY DEF SurviveInv, IInv
<1> DEFINE p == rep[r]
<1>4. CASE CanAdmit(rep[r], q) /\ rep' = [rep EXCEPT ![r] = Admit(rep[r], q)]
  <2> DEFINE p2 == Admit(rep[r], q)
  <2>1. /\ q.fences.gen = p.gen /\ q.fences.ver = p.ver /\ q.fences.seen = p.epoch
        /\ q.id \notin DOMAIN p.done
    BY <1>3, <1>4 DEF CanAdmit, Fences, Record, ProcessInv
  <2>2. /\ p2.gen = p.gen /\ p2.ver = p.ver + 1 /\ p2.cfg = p.cfg
        /\ p2.epoch = p.epoch /\ p2.role = p.role /\ p2.write = p.write /\ p2.done = p.done
        /\ p2.active = [id |-> q.id, act |-> q.act]
    BY <1>3 DEF ProcessInv, Admit, IsRecord, ProcessFields
  <2>3. rep' = [rep EXCEPT ![r] = p2]
    BY <1>4
  <2> HIDE DEF p2
  <2>4. Succeeds(p, p2)
    BY <1>3, <2>2 DEF ProcessInv, Succeeds
  <2>5. p2.active \in Actions(r) /\ p2.active.id = q.id
    BY <1>1, <2>1, <2>2, ActionsOf DEF Live
  <2>6. /\ rep'[r] = p2 /\ \A x \in Replica : x # r => rep'[x] = rep[x]
        /\ \A x \in Replica : Actions(x)' \subseteq Actions(x)
        /\ \A a \in Actions(r)' : p2.epoch = rep[r].epoch
        /\ \A z \in net' : z.to = r /\ Live(p2, z) => p2.ver = p.ver
        /\ \A id : IdInv(id)' <=> IdInv(id)
    BY <1>2, <2>2, <2>3, <2>4, <2>5, AgentStepFrom
  <2>7. \A z \in net' : ~(z.to = r /\ Live(p2, z))
    BY <1>3, <2>2, <2>6 DEF ProcessInv
  <2>8. RecordInv(r)'
    BY <1>2, <1>3, <2>1, <2>2, <2>5, <2>6, <2>7 DEF RecordInv
  <2>9. Kept(r, p2) /\ RoleFrom(r, p2) /\ DistributionFrom(r, p2)
    BY <2>2 DEF Kept, RoleFrom, DistributionFrom, DoneAt
  <2>10. op.phase # "Poisoned" =>
            \A a \in Actions(r)' : Granting(a.act) => a.id \notin DOMAIN p2.done
    BY <2>2, <2>6 DEF SurviveInv, GrantInv
  <2> QED
    BY <1>2, <2>6, <2>8, <2>9, <2>10, AgentStep
<1>5. CASE UNCHANGED rep
  <2>1. rep' = [rep EXCEPT ![r] = p]
    BY <1>5 DEF SurviveInv, IInv, IsRecord
  <2>2. Succeeds(p, p)
    BY <1>3 DEF ProcessInv, Succeeds
  <2>3. p.active # NoAction => p.active \in Actions(r)
    BY ActionsOf
  <2>4. /\ rep'[r] = p /\ \A x \in Replica : x # r => rep'[x] = rep[x]
        /\ \A x \in Replica : Actions(x)' \subseteq Actions(x)
        /\ \A a \in Actions(r)' : p.epoch = rep[r].epoch
        /\ \A id : IdInv(id)' <=> IdInv(id)
    BY <1>2, <2>1, <2>2, <2>3, AgentStepFrom
  <2>5. RecordInv(r)'
    BY <1>2, <1>3, <1>5, <2>4 DEF RecordInv
  <2>6. Kept(r, p) /\ RoleFrom(r, p) /\ DistributionFrom(r, p)
    BY DEF Kept, RoleFrom, DistributionFrom, DoneAt
  <2>7. op.phase # "Poisoned" =>
            \A a \in Actions(r)' : Granting(a.act) => a.id \notin DOMAIN p.done
    BY <2>4 DEF SurviveInv, GrantInv
  <2> QED
    BY <1>2, <2>4, <2>5, <2>6, <2>7, AgentStep
<1> QED
  BY <1>1, <1>4, <1>5

\* An action has ended, with the effect or the residue e.
LEMMA ActionEndsSurvive ==
    ASSUME SurviveInv, IInv', NEW r \in Replica, NEW e, NEW p2, NEW state \in {"Completed", "Failed"},
           rep[r].active # NoAction,
           state = "Completed" => e = Effect(rep[r], rep[r].active.act),
           state = "Failed" => e \in Residues(rep[r], rep[r].active.act),
           p2 = Recorded(e, rep[r].active.id, state),
           rep' = [rep EXCEPT ![r] = p2], UNCHANGED <<op, stable, net, lsn, acked, granted>>
    PROVE  SurviveInv'
<1> DEFINE p == rep[r]
           act == rep[r].active.act
           id == rep[r].active.id
<1>1. rep[r].active \in Actions(r)
  BY ActionsOf
<1>2. ProcessInv(p, Top) /\ ActionInv(id, act, p.epoch, Top) /\ RecordInv(r)
      /\ KindInv(r, rep[r].active)
  BY <1>1, ActionFacts DEF SurviveInv, IInv
<1>3. act.do \in {"Revoke", "ChangeRole", "UpdateEpoch", "CatchUp", "Current", "Wait"}
  BY <1>2 DEF ActionInv
<1>4. IsRecord(p, ProcessFields) /\ p.epoch \in Nat /\ p.gen \in Nat /\ p.ver \in Nat
  BY <1>2 DEF ProcessInv
<1>5. stable.epoch \in Nat
  BY DEF SurviveInv, IInv, OperationInv
<1> HIDE DEF act, id
<1>6. /\ IsRecord(e, ProcessFields) /\ e.gen = p.gen /\ e.ver = p.ver /\ e.done = p.done
      /\ state = "Completed" /\ Granting(act) => e.cfg.mode = act.do /\ e.role = p.role
      /\ ~(state = "Completed" /\ Granting(act)) =>
            e.cfg = p.cfg /\ (e.write = "Granted" => p.write = "Granted")
      /\ \/ e.role = p.role /\ e.epoch = p.epoch
         \/ state = "Completed" /\ act.do = "ChangeRole" /\ e.role = act.role /\ e.epoch = act.epoch
         \/ state = "Completed" /\ act.do = "UpdateEpoch" /\ e.role = p.role /\ e.epoch = act.epoch
      /\ state = "Completed" /\ act.do = "ChangeRole" => e.role = act.role /\ e.epoch = act.epoch
      /\ state = "Completed" /\ act.do = "UpdateEpoch" => e.role = p.role /\ e.epoch = act.epoch
  <2>1. CASE state = "Completed"
    <3> HIDE DEF p
    <3>1. e = Effect(p, act)
      BY <2>1 DEF act, p
    <3> QED
      BY <1>3, <1>4, <2>1, <3>1, EffectOf DEF Granting
  <2>2. CASE state = "Failed"
    <3>1. e \in Residues(p, act) /\ act.do # "Open"
      BY <1>3, <2>2 DEF act
    <3> QED
      BY <1>3, <1>4, <2>2, <3>1, ResidueOf
  <2> QED
    BY <2>1, <2>2
<1>7. /\ p2.gen = p.gen /\ p2.ver = p.ver /\ p2.epoch = e.epoch /\ p2.cfg = e.cfg
      /\ p2.role = e.role /\ p2.write = e.write /\ p2.active = NoAction
      /\ p2.done = With(p.done, id, state)
  BY <1>6 DEF IsRecord, ProcessFields, id, Recorded
<1>8. /\ DOMAIN p2.done = DOMAIN p.done \cup {id} /\ p2.done[id] = state
      /\ \A x \in DOMAIN p.done : x # id => p2.done[x] = p.done[x]
      /\ id \notin DOMAIN p.done
  BY <1>2, <1>7 DEF With, RecordInv, id
<1>9. /\ e.epoch \in Nat /\ e.epoch >= p.epoch
      /\ p.role = "Primary" /\ e.role # "Primary" => e.epoch > p.epoch
      /\ state = "Completed" /\ act.do = "UpdateEpoch" => e.epoch > p.epoch
      /\ e.epoch <= stable.epoch + 1
  BY <1>2, <1>4, <1>5, <1>6 DEF ActionInv, KindInv, RecordInv, act
<1>10. Succeeds(p, p2)
  BY <1>4, <1>6, <1>7, <1>9 DEF Succeeds
<1>11. /\ rep'[r] = p2 /\ \A x \in Replica : x # r => rep'[x] = rep[x]
       /\ \A x \in Replica : Actions(x)' \subseteq Actions(x)
       /\ \A a \in Actions(r)' : p2.epoch = rep[r].epoch
       /\ \A q \in net' : q.to = r /\ Live(p2, q) => Live(rep[r], q)
       /\ \A x : IdInv(x)' <=> IdInv(x)
  BY <1>7, <1>10, AgentStepFrom
<1>12. e.epoch # p.epoch => Actions(r)' = {}
  BY <1>7, <1>11
<1>13. RecordInv(r)'
  <2>1. \A x \in DOMAIN p2.done : IdInv(x)'
    BY <1>2, <1>8, <1>11 DEF RecordInv, KindInv, id
  <2>2. ASSUME NEW x \in DOMAIN p2.done, p2.done[x] = "Completed", x[3] \in PromoteKinds
        PROVE  p2.epoch > x[1] /\ (p2.role = "Primary" \/ p2.epoch > x[1] + 1)
    <3>1. x[1] \in Nat
      BY <2>1, <2>2, <1>11 DEF IdInv
    <3>2. CASE x = id
      <4>1. state = "Completed" /\ Promoting(act) /\ act.epoch = x[1] + 1
        BY <1>2, <1>8, <2>2, <3>2 DEF KindInv, id, act
      <4> QED
        BY <1>6, <1>7, <3>1, <4>1 DEF Promoting
    <3>3. CASE x # id
      <4>1. p.epoch > x[1] /\ (p.role = "Primary" \/ p.epoch > x[1] + 1)
        BY <1>2, <1>8, <2>2, <3>3 DEF RecordInv
      <4> QED
        BY <1>4, <1>6, <1>7, <1>9, <3>1, <4>1
    <3> QED
      BY <3>2, <3>3
  <2> QED
    BY <1>7, <1>9, <1>11, <2>1, <2>2 DEF RecordInv
<1>14. Kept(r, p2) \/ Installed(r, p2)
  <2>1. CASE state = "Completed" /\ Granting(act)
    <3>1. \A x : (x \in DOMAIN p2.done /\ p2.done[x] = "Completed")
                    <=> DoneAt(r, x) \/ x = rep[r].active.id
      BY <1>8, <2>1 DEF DoneAt, id
    <3> QED
      BY <1>1, <1>6, <1>7, <2>1, <3>1 DEF Installed, act
  <2>2. CASE ~(state = "Completed" /\ Granting(act))
    <3>1. state = "Completed" => id[3] \notin Configures
      BY <1>2, <2>2 DEF KindInv, id, act
    <3>2. \A x : x[3] \in Configures =>
             ((x \in DOMAIN p2.done /\ p2.done[x] = "Completed") <=> DoneAt(r, x))
      BY <1>8, <3>1 DEF DoneAt
    <3> QED
      BY <1>6, <1>7, <2>2, <3>2 DEF Kept
  <2> QED
    BY <2>1, <2>2
<1>15. RoleFrom(r, p2)
  <2>1. p2.role = "Primary" =>
           \/ p.role = "Primary" /\ p2.epoch = p.epoch
           \/ /\ p2.epoch = act.epoch
              /\ Promoting(act) \/ (p.role = "Primary" /\ act.do = "UpdateEpoch")
    BY <1>6, <1>7 DEF Promoting
  <2>2. p2.role = "Primary" =>
           \/ p.role = "Primary" /\ p2.epoch = p.epoch
           \/ \E a \in Actions(r) :
                 /\ p2.epoch = a.act.epoch
                 /\ Promoting(a.act) \/ (p.role = "Primary" /\ a.act.do = "UpdateEpoch")
    BY <1>1, <2>1 DEF act
  <2>3. p.role = "Primary" /\ p2.role # "Primary" => Actions(r)' = {}
    <3>1. p.role = "Primary" /\ p2.role # "Primary" => e.epoch # p.epoch
      BY <1>4, <1>7, <1>9
    <3> QED
      BY <1>12, <3>1
  <2> QED
    BY <2>2, <2>3 DEF RoleFrom
<1>16. DistributionFrom(r, p2)
  <2> SUFFICES ASSUME NEW x \in DOMAIN p2.done, p2.done[x] = "Completed",
                      x[3] = "CompensateUpdateSecondaryEpoch", ~DoneAt(r, x)
               PROVE  /\ p2.role = rep[r].role /\ Actions(r)' = {}
                      /\ \E a \in Actions(r) : a.act.do = "UpdateEpoch"
    BY DEF DistributionFrom
  <2>1. x = id /\ state = "Completed"
    BY <1>8 DEF DoneAt
  <2>2. act.do = "UpdateEpoch"
    BY <1>2, <2>1 DEF KindInv, id, act
  <2> QED
    BY <1>1, <1>4, <1>6, <1>7, <1>9, <1>12, <2>1, <2>2 DEF act
<1>17. op.phase # "Poisoned" =>
          \A a \in Actions(r)' : Granting(a.act) => a.id \notin DOMAIN p2.done
  <2> SUFFICES ASSUME op.phase # "Poisoned", NEW a \in Actions(r)', Granting(a.act)
               PROVE  a.id \notin DOMAIN p2.done
    OBVIOUS
  <2>1. a.id \notin DOMAIN p.done
    BY <1>11 DEF SurviveInv, GrantInv
  <2>2. PICK q \in net' : q.to = r /\ Live(p2, q) /\ a = [id |-> q.id, act |-> q.act]
    BY <1>7, <1>11 DEF Actions
  <2>3. a.id # id
    BY <1>2, <1>11, <2>2 DEF RecordInv, id
  <2> QED
    BY <1>8, <2>1, <2>3
<1> QED
  BY <1>11, <1>13, <1>14, <1>15, <1>16, <1>17, AgentStep

LEMMA CompleteActionSurvive ==
    ASSUME SurviveInv, IInv', NEW r \in Replica, CompleteAction(r)
    PROVE  SurviveInv'
<1> DEFINE e == Effect(rep[r], rep[r].active.act)
<1>1. rep[r].active # NoAction
  BY DEF CompleteAction, MayComplete
<1>2. rep' = [rep EXCEPT ![r] = Recorded(e, rep[r].active.id, "Completed")]
  BY DEF CompleteAction, Completed
<1>3. UNCHANGED <<op, stable, net, lsn, acked, granted>>
  BY DEF CompleteAction
<1> HIDE DEF e
<1>4. e = Effect(rep[r], rep[r].active.act)
  BY DEF e
<1> QED
  BY <1>1, <1>2, <1>3, <1>4, ActionEndsSurvive

LEMMA FailActionSurvive ==
    ASSUME SurviveInv, IInv', NEW r \in Replica, FailAction(r)
    PROVE  SurviveInv'
<1>1. rep[r].active # NoAction /\ UNCHANGED <<op, stable, net, lsn, acked, granted>>
  BY DEF FailAction
<1>2. PICK e \in Residues(rep[r], rep[r].active.act) :
        rep' = [rep EXCEPT ![r] = Recorded(e, rep[r].active.id, "Failed")]
  BY DEF FailAction, FailedOutcomes
<1> QED
  BY <1>1, <1>2, ActionEndsSurvive

LEMMA ProcessLostSurvive ==
    ASSUME SurviveInv, IInv', NEW r \in Replica, NEW inst,
           rep' = [rep EXCEPT ![r] = BlankProcess(inst, rep[r].gen + 1)],
           UNCHANGED <<op, stable, net, lsn, acked, granted>>
    PROVE  SurviveInv'
<1> DEFINE p2 == BlankProcess(inst, rep[r].gen + 1)
<1>1. ProcessInv(rep[r], Top) /\ stable.epoch \in Nat
  BY DEF SurviveInv, IInv, OperationInv
<1>2. /\ p2.gen = rep[r].gen + 1 /\ p2.ver = 0 /\ p2.epoch = 0
      /\ p2.active = NoAction /\ p2.role = "Unknown" /\ p2.write = "NotPrimary"
      /\ DOMAIN p2.done = {} /\ p2.cfg.mode = "none"
  BY DEF BlankProcess, BlankEpoch, NoConfig
<1> HIDE DEF p2
<1>3. rep' = [rep EXCEPT ![r] = p2]
  BY DEF p2
<1>4. Succeeds(rep[r], p2)
  BY <1>1, <1>2 DEF ProcessInv, Succeeds
<1>5. /\ rep'[r] = p2 /\ \A x \in Replica : x # r => rep'[x] = rep[x]
      /\ \A x \in Replica : Actions(x)' \subseteq Actions(x)
      /\ \A a \in Actions(r)' : p2.epoch = rep[r].epoch
      /\ \A q \in net' : q.to = r /\ Live(p2, q) => p2.gen = rep[r].gen
  BY <1>2, <1>3, <1>4, AgentStepFrom
<1>6. \A q \in net' : ~(q.to = r /\ Live(p2, q))
  BY <1>1, <1>2, <1>5 DEF ProcessInv
<1>7. Actions(r)' = {}
  BY <1>2, <1>5, <1>6 DEF Actions
<1>8. RecordInv(r)'
  BY <1>1, <1>2, <1>5, <1>6 DEF RecordInv
<1>9. Lost(p2) /\ RoleFrom(r, p2) /\ DistributionFrom(r, p2)
  BY <1>2, <1>7 DEF Lost, RoleFrom, DistributionFrom
<1> QED
  BY <1>5, <1>7, <1>8, <1>9, AgentStep

LEMMA FaultSurvive ==
    ASSUME SurviveInv, IInv', NEW r \in Replica, Restart(r) \/ ReplacePod(r)
    PROVE  SurviveInv'
<1>1. CASE Restart(r)
  BY <1>1, ProcessLostSurvive DEF Restart, Restarted
<1>2. CASE ReplacePod(r)
  BY <1>2, ProcessLostSurvive DEF ReplacePod
<1> QED
  BY <1>1, <1>2

-----------------------------------------------------------------------------
(* Least and greatest numbers.                                             *)

LEMMA LeastNat ==
    ASSUME NEW T \in SUBSET Nat, T # {}
    PROVE  Min(T) \in T /\ \A y \in T : Min(T) <= y
<1>1. PICK x \in T : \A y \in T : ~(<<y, x>> \in OpToRel(<, Nat))
  BY NatLessThanWellFounded, WFMin
<1>2. \A y \in T : ~(y < x)
  BY <1>1 DEF OpToRel
<1>3. \A y \in T : x <= y
  BY <1>2
<1> QED
  BY <1>3 DEF Min

LEMMA GreatestNat ==
    ASSUME NEW b \in Nat, NEW T \in SUBSET (1..b), T # {}
    PROVE  Max(T) \in T
<1> DEFINE U == {b - y : y \in T}
<1>1. U \in SUBSET Nat /\ U # {}
  <2>1. PICK y \in T : TRUE
    OBVIOUS
  <2>2. b - y \in U
    OBVIOUS
  <2>3. U \in SUBSET Nat
    OBVIOUS
  <2> QED
    BY <2>2, <2>3
<1>2. Min(U) \in U /\ \A v \in U : Min(U) <= v
  BY <1>1, LeastNat
<1>3. PICK x \in T : Min(U) = b - x
  BY <1>2
<1>4. \A y \in T : b - y \in U
  OBVIOUS
<1>5. \A y \in T : b - x <= b - y
  BY <1>2, <1>3, <1>4
<1>6. \A y \in T : x >= y
  BY <1>5
<1> QED
  BY <1>6 DEF Max

-----------------------------------------------------------------------------
(* Clients.                                                                *)

\* What is unchanged with the processes and the requests.
LEMMA SameActions ==
    ASSUME UNCHANGED <<rep, net>>
    PROVE  /\ \A r : Actions(r)' = Actions(r)
           /\ \A r : MayLead(r)' <=> MayLead(r)
           /\ \A r : MayGrant(r)' <=> MayGrant(r)
           /\ \A r, id : DoneAt(r, id)' <=> DoneAt(r, id)
<1>1. \A r : Actions(r)' = Actions(r)
  BY DEF Actions
<1> QED
  BY <1>1 DEF MayLead, MayGrant, DoneAt

\* The actions and records are the same, and the ids keep their bounds.
LEMMA SameRecords ==
    ASSUME SurviveInv, UNCHANGED <<rep, net>>, stable'.epoch \in Nat, stable'.epoch >= stable.epoch,
           \A id : IdInv(id) => IdInv(id)'
    PROVE  \A r \in Replica : RecordInv(r)' /\ \A a \in Actions(r)' : KindInv(r, a)'
<1> SUFFICES ASSUME NEW r \in Replica
             PROVE  RecordInv(r)' /\ \A a \in Actions(r)' : KindInv(r, a)'
  OBVIOUS
<1>1. RecordInv(r) /\ \A a \in Actions(r) : KindInv(r, a)
  BY DEF SurviveInv
<1>2. /\ stable.epoch \in Nat /\ rep[r].epoch \in Nat
      /\ \A a \in Actions(r) : a.act.do \in {"ChangeRole", "UpdateEpoch"} => a.act.epoch \in Nat
  BY ActionFacts DEF SurviveInv, IInv, OperationInv, ProcessInv, ActionInv
<1>3. RecordInv(r)'
  BY <1>1, <1>2 DEF RecordInv
<1>4. \A a \in Actions(r)' : KindInv(r, a)'
  <2> SUFFICES ASSUME NEW a \in Actions(r) PROVE KindInv(r, a)'
    BY SameActions
  <2>1. KindInv(r, a)
    BY <1>1
  <2> QED
    BY <1>2, <2>1 DEF KindInv
<1> QED
  BY <1>3, <1>4

LEMMA OtherSurvive ==
    ASSUME SurviveInv, IInv', UNCHANGED <<op, stable, rep, net>>, LsnInv'
    PROVE  SurviveInv'
<1>1. /\ \A r : Actions(r)' = Actions(r)
      /\ \A r : MayLead(r)' <=> MayLead(r)
      /\ \A r : MayGrant(r)' <=> MayGrant(r)
  BY SameActions
<1>2. \A id : IdInv(id) => IdInv(id)'
  BY DEF IdInv, Reached
<1>3. \A r \in Replica : RecordInv(r)' /\ \A a \in Actions(r)' : KindInv(r, a)'
  BY <1>2, SameRecords DEF SurviveInv, IInv, OperationInv
<1>4. MemberInv'
  BY DEF SurviveInv, MemberInv
<1>5. Chosen' = Chosen /\ (Seen' <=> Seen) /\ \A r : Leading(r)' <=> Leading(r)
  BY DEF Chosen, Seen, DoneAt, Leading
<1>6. LeadInv'
  <2>1. Actions(op.target)' = Actions(op.target) /\ Actions(Chosen)' = Actions(Chosen)
        /\ (MayLead(op.target)' <=> MayLead(op.target))
    BY <1>5 DEF Actions, MayLead
  <2> QED
    BY <1>1, <1>5, <2>1 DEF SurviveInv, LeadInv
<1>7. QuietInv'
  BY DEF SurviveInv, QuietInv
<1>8. GrantInv'
  BY <1>1 DEF SurviveInv, GrantInv
<1>9. ModeInv'
  BY <1>5 DEF SurviveInv, ModeInv
<1>10. ApartInv'
  BY <1>1 DEF SurviveInv, ApartInv
<1> QED
  BY <1>3, <1>4, <1>6, <1>7, <1>8, <1>9, <1>10 DEF SurviveInv

\* LSNs grow; what may lead holds what was granted.
LEMMA LsnGrows ==
    ASSUME SurviveInv, UNCHANGED <<op, stable, rep, net>>, UNCHANGED granted, acked' \in Nat,
           lsn' \in [Replica -> Nat], \A r \in Replica : lsn'[r] >= lsn[r]
    PROVE  LsnInv'
<1>1. LsnInv /\ MemberInv
  BY DEF SurviveInv
<1>2. \A r \in Replica : lsn[r] \in Nat /\ lsn'[r] \in Nat
  BY <1>1 DEF LsnInv
<1>3. \A r : MayLead(r)' <=> MayLead(r)
  BY SameActions
<1>4. /\ stable.primary \in Replica
      /\ op.phase \in Before \cup Compensating \cup {"DemoteOldPrimary", "PromoteTarget"} =>
            op.old \in Replica /\ op.target \in Replica
  BY <1>1 DEF MemberInv, Before, Compensating
<1>5. op.phase \in Settled => lsn'[stable.primary] >= granted
  BY <1>1, <1>2, <1>4 DEF LsnInv
<1>6. op.phase \in Before \cup Compensating \cup {"PromoteTarget"} => lsn'[op.old] >= granted
  BY <1>1, <1>2, <1>4 DEF LsnInv
<1>7. op.phase \in {"DemoteOldPrimary", "PromoteTarget"} => lsn'[op.target] >= granted
  BY <1>1, <1>2, <1>4 DEF LsnInv
<1>8. \A r \in Replica : MayLead(r) => lsn'[r] >= granted
  BY <1>1, <1>2 DEF LsnInv
<1> QED
  BY <1>1, <1>3, <1>5, <1>6, <1>7, <1>8 DEF LsnInv

LEMMA TakeWriteSurvive ==
    ASSUME SurviveInv, IInv', NEW r \in Replica, TakeWrite(r)
    PROVE  SurviveInv'
<1>1. UNCHANGED <<op, stable, rep, net, acked>>
  BY DEF TakeWrite
<1>2. LsnInv /\ lsn \in [Replica -> Nat] /\ granted \in Nat /\ acked \in Nat
  BY DEF SurviveInv, LsnInv
<1>3. CASE UNCHANGED <<lsn, granted>>
  BY <1>1, <1>2, <1>3, LsnGrows, OtherSurvive
<1>4. CASE lsn' = [lsn EXCEPT ![r] = @ + 1] /\ granted' = granted
  <2>1. lsn' \in [Replica -> Nat] /\ \A x \in Replica : lsn'[x] >= lsn[x]
    BY <1>2, <1>4
  <2> QED
    BY <1>1, <1>2, <1>4, <2>1, LsnGrows, OtherSurvive
<1>5. CASE /\ lsn' = [lsn EXCEPT ![r] = @ + 1] /\ granted' = lsn'[r]
           /\ rep[r].write = "Granted"
  <2>1. /\ lsn' \in [Replica -> Nat] /\ granted' \in Nat /\ lsn'[r] = granted'
    BY <1>2, <1>5
  <2>2. MayGrant(r)
    BY <1>5 DEF MayGrant
  <2>3. \A s \in Replica : MayLead(s)' => s = r
    BY <1>1, <2>2, SameActions DEF SurviveInv, ApartInv
  <2>4. op.phase # "Poisoned" => Holds(r)
    BY <2>2 DEF SurviveInv, IInv, HolderInv
  <2>5. op.phase \notin {"PreCatchUp", "DemoteOldPrimary", "PromoteTarget"}
    BY <1>5 DEF SurviveInv, QuietInv
  <2>6. /\ op.phase \in Settled => r = stable.primary
        /\ op.phase \in Before \cup Compensating => r = op.old
    BY <2>4 DEF Holds, Settled, Before, After, Compensating
  <2>7. LsnInv'
    BY <1>1, <1>2, <2>1, <2>3, <2>5, <2>6 DEF LsnInv
  <2> QED
    BY <1>1, <2>7, OtherSurvive
<1> QED
  BY <1>3, <1>4, <1>5 DEF TakeWrite

LEMMA ClientsSurvive ==
    ASSUME SurviveInv, IInv', Clients
    PROVE  SurviveInv'
<1>1. PICK r \in Replica :
        SubmitWrite(r) \/ TakeWrite(r) \/ AnswerOk(r) \/ \E s \in Replica : ReceiveItem(r, s)
  BY DEF Clients
<1>2. LsnInv /\ lsn \in [Replica -> Nat] /\ granted \in Nat /\ acked \in Nat
  BY DEF SurviveInv, LsnInv
<1>3. CASE SubmitWrite(r)
  BY <1>2, <1>3, LsnGrows, OtherSurvive DEF SubmitWrite
<1>4. CASE TakeWrite(r)
  BY <1>4, TakeWriteSurvive
<1>5. CASE AnswerOk(r)
  <2>1. acked' \in Nat
    <3> DEFINE held == {l \in 1..lsn[r] :
                          Cardinality({m \in rep[r].cfg.members \cup {r} : lsn[m] >= l}) >= Majority}
    <3>1. held # {} /\ acked' = Max(held)
      BY <1>5 DEF AnswerOk
    <3>2. held \subseteq 1..lsn[r] /\ lsn[r] \in Nat
      BY <1>2
    <3> HIDE DEF held
    <3>3. Max(held) \in held
      BY <3>1, <3>2, GreatestNat
    <3>4. Max(held) \in 1..lsn[r]
      BY <3>2, <3>3
    <3>5. \A x \in 1..lsn[r] : x \in Nat
      BY <3>2
    <3> QED
      BY <3>1, <3>4, <3>5
  <2>2. UNCHANGED <<op, stable, rep, net, lsn, granted>>
    BY <1>5 DEF AnswerOk
  <2>3. \A x \in Replica : lsn'[x] >= lsn[x]
    BY <1>2, <2>2
  <2> QED
    BY <1>2, <2>1, <2>2, <2>3, LsnGrows, OtherSurvive
<1>6. ASSUME NEW s \in Replica, ReceiveItem(r, s)
      PROVE  SurviveInv'
  <2>1. UNCHANGED <<op, stable, rep, net, acked, granted>> /\ lsn' = [lsn EXCEPT ![s] = @ + 1]
    BY <1>6 DEF ReceiveItem
  <2>2. lsn' \in [Replica -> Nat] /\ \A x \in Replica : lsn'[x] >= lsn[x]
    BY <1>2, <2>1
  <2> QED
    BY <1>2, <2>1, <2>2, LsnGrows, OtherSurvive
<1> QED
  BY <1>1, <1>3, <1>4, <1>5, <1>6

-----------------------------------------------------------------------------
(* The operator, in the steps that dispatch nothing.                       *)

\* A step that keeps the operation's replicas and epochs and has no action at
\* hand.
Turns ==
    /\ op.phase \notin Terminal /\ UNCHANGED <<stable, rep, net, lsn, acked, granted>>
    /\ op'.old = op.old /\ op'.target = op.target /\ op'.prev = op.prev /\ op'.next = op.next
    /\ op'.pending = NoAction /\ op'.index \in Nat /\ op'.phase \notin Terminal \ {"Poisoned"}

\* An operation that is poisoned asks for nothing more.
LEMMA PoisonSurvive ==
    ASSUME SurviveInv, IInv', Turns, op'.phase = "Poisoned"
    PROVE  SurviveInv'
<1>1. /\ \A r : Actions(r)' = Actions(r)
      /\ \A r : MayLead(r)' <=> MayLead(r)
      /\ \A r : MayGrant(r)' <=> MayGrant(r)
  BY SameActions DEF Turns
<1>2. \A id : IdInv(id) => IdInv(id)'
  BY DEF IdInv, Turns
<1>3. \A r \in Replica : RecordInv(r)' /\ \A a \in Actions(r)' : KindInv(r, a)'
  BY <1>2, SameRecords DEF SurviveInv, IInv, OperationInv, Turns
<1>4. MemberInv'
  BY DEF SurviveInv, MemberInv, Turns, Terminal
<1>5. LeadInv' /\ QuietInv' /\ GrantInv' /\ ModeInv'
  BY DEF LeadInv, QuietInv, GrantInv, ModeInv, CatchUpKinds, CurrentKinds
<1>6. LsnInv'
  BY <1>1 DEF SurviveInv, LsnInv, Turns, Settled, Before, Compensating
<1>7. ApartInv'
  BY <1>1 DEF SurviveInv, ApartInv
<1> QED
  BY <1>3, <1>4, <1>5, <1>6, <1>7 DEF SurviveInv

\* The steps of an operation, by phase.
Moves(p, q) ==
    \/ p = "Revoke" /\ q \in {"CaptureLsn", "Failing"}
    \/ p = "CaptureLsn" /\ q = "PreCatchUp"
    \/ p = "PreCatchUp" /\ q \in {"DemoteOldPrimary", "RestorePreviousConfiguration"}
    \/ p = "DemoteOldPrimary" /\ q \in {"PromoteTarget", "RestorePreviousConfiguration"}
    \/ p = "RestorePreviousConfiguration" /\ q = "Failing"
    \/ p = "PromoteTarget" /\ q \in {"DistributeEpoch", "CompensatePromoteOldPrimary"}
    \/ p = "DistributeEpoch" /\ q \in {"DistributeEpoch", "UpdateCatchUpConfiguration"}
    \/ p = "UpdateCatchUpConfiguration" /\ q = "WaitForCatchUpQuorum"
    \/ p = "WaitForCatchUpQuorum" /\ q = "UpdateCurrentConfiguration"
    \/ p = "UpdateCurrentConfiguration" /\ q = "LabelTargetPrimary"
    \/ p = "LabelTargetPrimary" /\ q = "LabelOldSecondary"
    \/ p = "LabelOldSecondary" /\ q = "Finalize"
    \/ p = "CompensatePromoteOldPrimary" /\ q = "CompensateDistributeEpoch"
    \/ p = "CompensateDistributeEpoch"
          /\ q \in {"CompensateDistributeEpoch", "CompensateCatchUpConfiguration"}
    \/ p = "CompensateCatchUpConfiguration" /\ q = "CompensateCurrentConfiguration"
    \/ p = "CompensateCurrentConfiguration" /\ q = "CompensateLabelOldPrimary"
    \/ p = "CompensateLabelOldPrimary" /\ q = "CompensateLabelTargetSecondary"
    \/ p = "CompensateLabelTargetSecondary" /\ q = "CompensateFinalize"

\* Every phase keeps the ids of the phases before it.
LEMMA MovesReach ==
    ASSUME Turns, Moves(op.phase, op'.phase), NEW id, IdInv(id)
    PROVE  IdInv(id)'
<1>1. op.phase # "Poisoned" /\ UNCHANGED stable
  BY DEF Turns, Terminal
<1>2. ASSUME Reached(id[3]) PROVE Reached(id[3])'
  <2>1. id[3] = "UpdateCatchUpConfiguration" => op'.phase \in AfterCatchUp
    BY <1>2 DEF Reached, Moves, AfterCatchUp, AfterCurrent
  <2>2. id[3] = "UpdateCurrentConfiguration" => op'.phase \in AfterCurrent
    BY <1>2 DEF Reached, Moves, AfterCurrent
  <2>3. id[3] = "CompensateUpdateSecondaryEpoch" => op'.phase \in AfterCompensatePromote
    BY <1>2 DEF Reached, Moves, AfterCompensatePromote, AfterCompensateCatchUp,
                AfterCompensateCurrent
  <2>4. id[3] = "CompensateCatchUpConfiguration" => op'.phase \in AfterCompensateCatchUp
    BY <1>2 DEF Reached, Moves, AfterCompensateCatchUp, AfterCompensateCurrent
  <2>5. id[3] = "CompensateCurrentConfiguration" => op'.phase \in AfterCompensateCurrent
    BY <1>2 DEF Reached, Moves, AfterCompensateCurrent
  <2> QED
    BY <2>1, <2>2, <2>3, <2>4, <2>5 DEF Reached
<1> QED
  BY <1>1, <1>2 DEF IdInv

\* No installation is under way unless it is the action at hand and not on record.
NoInstallation == \A r \in Replica : \A a \in Actions(r) : ~Granting(a.act)

LEMMA NoneInstalls ==
    ASSUME SurviveInv, op.phase # "Poisoned",
           op.phase \in Settled \/ op.pending = NoAction \/ op.pending.kind \notin Configures \/ Seen
    PROVE  NoInstallation
<1> SUFFICES ASSUME NEW r \in Replica, NEW a \in Actions(r), Granting(a.act)
             PROVE  FALSE
  BY DEF NoInstallation
<1>1. /\ op.phase \notin Settled /\ op.pending # NoAction
      /\ a.id = op.pending.id /\ r = op.pending.target
      /\ a.id \notin DOMAIN rep[r].done
  BY DEF SurviveInv, GrantInv
<1>2. a.id[3] \in Configures
  BY DEF SurviveInv, KindInv
<1>3. op.pending.id[3] = op.pending.kind
  BY <1>1 DEF SurviveInv, IInv, OperationInv
<1> QED
  BY <1>1, <1>2, <1>3 DEF Seen, DoneAt

\* What is left to show of a move.
LEMMA MoveSurvive ==
    ASSUME SurviveInv, IInv', Turns, Moves(op.phase, op'.phase), NoInstallation,
           LeadInv', QuietInv', ModeInv', LsnInv'
    PROVE  SurviveInv'
<1>1. /\ \A r : Actions(r)' = Actions(r)
      /\ \A r : MayLead(r)' <=> MayLead(r)
      /\ \A r : MayGrant(r)' <=> MayGrant(r)
  BY SameActions DEF Turns
<1>2. \A r \in Replica : RecordInv(r)' /\ \A a \in Actions(r)' : KindInv(r, a)'
  BY MovesReach, SameRecords DEF SurviveInv, IInv, OperationInv, Turns
<1>3. MemberInv'
  BY DEF SurviveInv, MemberInv, Turns, Terminal
<1>4. GrantInv'
  BY <1>1 DEF NoInstallation, GrantInv
<1>5. ApartInv'
  BY <1>1 DEF SurviveInv, ApartInv
<1> QED
  BY <1>2, <1>3, <1>4, <1>5 DEF SurviveInv

-----------------------------------------------------------------------------
(* Places.                                                                 *)

LEMMA PlaceIsNat ==
    ASSUME NEW old, NEW r \in Replica
    PROVE  /\ Place(Others(old), r) \in Nat
           /\ r # old => Place(Others(old), r) < Cardinality(Others(old))
<1> DEFINE S == Others(old)
           T == {s \in S : s < r}
<1>1. IsFiniteSet(Replica) /\ Replica \subseteq Nat
  BY SwitchoverAssumption
<1>2. IsFiniteSet(S)
  BY <1>1, FS_Subset DEF Others
<1>3. /\ IsFiniteSet(T) /\ Cardinality(T) <= Cardinality(S)
      /\ Cardinality(S) = Cardinality(T) => S = T
  BY <1>2, FS_Subset
<1>4. Cardinality(T) \in Nat /\ Cardinality(S) \in Nat
  BY <1>2, <1>3, FS_CardinalityType
<1>5. r # old => r \in S /\ r \notin T
  BY <1>1 DEF Others
<1>6. Place(S, r) = Cardinality(T)
  BY DEF Place
<1> HIDE DEF S, T
<1>7. Place(S, r) \in Nat /\ (r # old => Place(S, r) < Cardinality(S))
  BY <1>3, <1>4, <1>5, <1>6
<1> QED
  BY <1>7 DEF S

\* No two replicas have the same place.
LEMMA MemberAtPlace ==
    ASSUME NEW old, NEW r \in Replica, r # old
    PROVE  MemberAt(Others(old), Place(Others(old), r)) = r
<1> DEFINE S == Others(old)
           Below(x) == {s \in S : s < x}
<1>1. IsFiniteSet(Replica) /\ Replica \subseteq Nat
  BY SwitchoverAssumption
<1>2. IsFiniteSet(S) /\ S \subseteq Nat /\ r \in S
  BY <1>1, FS_Subset DEF Others
<1>3. ASSUME NEW x \in S, NEW y \in S, x < y
      PROVE  Place(S, x) # Place(S, y)
  <2>1. IsFiniteSet(Below(y))
    BY <1>2, FS_Subset
  <2>2. Below(x) \subseteq Below(y) /\ x \in Below(y) /\ x \notin Below(x)
    BY <1>2, <1>3
  <2>3. Cardinality(Below(y)) # Cardinality(Below(x))
    BY <2>1, <2>2, FS_Subset
  <2> QED
    BY <2>3 DEF Place
<1>4. \A x \in S : Place(S, x) = Place(S, r) => x = r
  BY <1>2, <1>3
<1> HIDE DEF S
<1>5. MemberAt(S, Place(S, r)) = r
  BY <1>2, <1>4 DEF MemberAt
<1> QED
  BY <1>5 DEF S

\* Who may lead after a move.
LEMMA MoveLead ==
    ASSUME SurviveInv, Turns, Moves(op.phase, op'.phase),
           op'.phase = "PromoteTarget" => \A r \in Replica : ~MayLead(r),
           op.phase = "PromoteTarget" /\ op'.phase = "DistributeEpoch" =>
              rep[op.target].role = "Primary",
           op.phase = "CompensatePromoteOldPrimary" =>
              rep[op.old].role = "Primary" /\ op'.index = 0,
           op'.phase = "CompensateDistributeEpoch" /\ op.phase = op'.phase /\ MayLead(op.target) =>
              op'.index <= Place(Others(op.old), op.target),
           op'.phase = "CompensateCatchUpConfiguration" => ~MayLead(op.target)
    PROVE  LeadInv'
<1>1. /\ \A r : Actions(r)' = Actions(r)
      /\ \A r : MayLead(r)' <=> MayLead(r)
      /\ UNCHANGED <<stable, rep>>
  BY SameActions DEF Turns
<1>2. op.phase \notin Settled /\ op.phase # "Poisoned" /\ LeadInv
  BY DEF SurviveInv, Turns, Terminal, Settled
<1>3. op.old \in Replica /\ op.target \in Replica
  BY <1>2 DEF SurviveInv, MemberInv, Settled
<1>4. /\ op'.old = op.old /\ op'.target = op.target /\ op'.next = op.next /\ op'.prev = op.prev
      /\ op.prev = stable.epoch /\ stable.epoch \in Nat
  BY <1>2 DEF Turns, SurviveInv, IInv, OperationInv
<1>5. \A r \in Replica : MayLead(r) => Leading(r)'
  <2> SUFFICES ASSUME NEW r \in Replica, MayLead(r) PROVE Leading(r)'
    OBVIOUS
  <2>1. Leading(r)
    BY <1>2 DEF LeadInv
  <2>2. CASE op'.phase \in Before
    BY <1>2, <1>4, <2>1, <2>2 DEF Leading, Moves, Before, After, Compensating
  <2>3. CASE op'.phase = "PromoteTarget"
    BY <2>3
  <2>4. CASE op'.phase \in After
    BY <1>2, <1>4, <2>1, <2>4 DEF Leading, Moves, Before, After, Compensating
  <2>5. CASE op'.phase = "CompensatePromoteOldPrimary"
    BY <1>2, <1>4, <2>1, <2>5 DEF Leading, Moves, Before, After, Compensating
  <2>6. CASE op'.phase = "CompensateDistributeEpoch"
    <3>1. r = op.old \/ r = op.target
      BY <2>1, <2>6 DEF Leading, Moves, Settled, Before, After, Compensating
    <3>2. CASE r = op.old
      BY <1>4, <2>6, <3>2 DEF Leading, Compensating
    <3>3. CASE r = op.target
      <4>1. op'.index <= Place(Others(op.old), op.target)
        <5>1. CASE op.phase = "CompensateDistributeEpoch"
          BY <2>6, <3>3, <5>1
        <5>2. CASE op.phase = "CompensatePromoteOldPrimary"
          BY <5>2, PlaceIsNat, <1>3
        <5> QED
          BY <2>6, <5>1, <5>2 DEF Moves
      <4> QED
        BY <1>4, <2>6, <3>3, <4>1 DEF Leading, Others, Place
    <3> QED
      BY <3>1, <3>2, <3>3
  <2>7. CASE op'.phase \in Compensating \ {"CompensatePromoteOldPrimary", "CompensateDistributeEpoch"}
    BY <1>2, <1>4, <2>1, <2>7 DEF Leading, Moves, Settled, Before, After, Compensating
  <2> QED
    BY <2>2, <2>3, <2>4, <2>5, <2>6, <2>7 DEF Moves, Before, After, Compensating
<1>6. \A a \in Actions(op.target) : Promoting(a.act) => a.act.epoch > rep[op.target].epoch
  BY <1>2 DEF LeadInv
<1>7. ASSUME op'.phase \in After \cup Compensating \cup {"PromoteTarget"}, NEW r \in Replica
      PROVE  /\ rep[r].role = "Primary" => rep[r].epoch = op.next
             /\ \A a \in Actions(r) : Promoting(a.act) => a.act.epoch = op.next
  <2>1. CASE op'.phase = "PromoteTarget"
    BY <2>1 DEF MayLead
  <2>2. CASE op'.phase # "PromoteTarget"
    <3>1. op.phase \in After \cup Compensating \cup {"PromoteTarget"}
      BY <1>7, <2>2 DEF Moves, After, Compensating
    <3> QED
      BY <1>2, <3>1 DEF LeadInv
  <2> QED
    BY <2>1, <2>2
<1>8. ASSUME op'.phase \in After \cup AfterCompensatePromote
      PROVE  rep[Chosen'].role = "Primary" \/ \A a \in Actions(Chosen') : ~Promoting(a.act)
  <2>1. CASE op.phase = "PromoteTarget" /\ op'.phase = "DistributeEpoch"
    BY <1>4, <2>1 DEF Chosen, After
  <2>2. CASE op.phase = "CompensatePromoteOldPrimary"
    BY <1>4, <2>2 DEF Chosen, After, Moves
  <2>3. CASE op.phase \notin PromoteKinds
    <3>1. op.phase \in After \cup AfterCompensatePromote /\ Chosen' = Chosen
      BY <1>4, <1>8, <2>3 DEF Chosen, Moves, PromoteKinds, After, AfterCompensatePromote, AfterCompensateCatchUp,
                        AfterCompensateCurrent
    <3> QED
      BY <1>2, <3>1 DEF LeadInv
  <2>4. op.phase = "PromoteTarget" => op'.phase = "DistributeEpoch"
    BY <1>8 DEF Moves, After, AfterCompensatePromote, AfterCompensateCatchUp, AfterCompensateCurrent
  <2> QED
    BY <2>1, <2>2, <2>3, <2>4 DEF PromoteKinds
<1>9. ASSUME op'.phase = "CompensateDistributeEpoch", NEW id \in DOMAIN rep[op.target].done,
             rep[op.target].done[id] = "Completed",
             id[1] = op.prev, id[3] = "CompensateUpdateSecondaryEpoch"
      PROVE  ~MayLead(op.target)
  <2>1. CASE op.phase = "CompensateDistributeEpoch"
    BY <1>2, <1>9, <2>1 DEF LeadInv
  <2>2. CASE op.phase = "CompensatePromoteOldPrimary"
    <3>1. IdInv(id)
      BY <1>3, <1>9 DEF SurviveInv, RecordInv
    <3> QED
      BY <1>2, <1>4, <1>9, <2>2, <3>1 DEF IdInv, Reached, AfterCompensatePromote,
                          AfterCompensateCatchUp, AfterCompensateCurrent
  <2> QED
    BY <1>9, <2>1, <2>2 DEF Moves
<1>10. Actions(op.target)' = Actions(op.target) /\ Actions(Chosen)' = Actions(Chosen')
       /\ (MayLead(op.target)' <=> MayLead(op.target))
  <2>1. UNCHANGED <<rep, net>>
    BY DEF Turns
  <2> QED
    BY <1>4, <2>1 DEF Actions, MayLead
<1> QED
  BY <1>1, <1>4, <1>5, <1>6, <1>7, <1>8, <1>9, <1>10 DEF LeadInv

\* The configurations after a move.
LEMMA MoveMode ==
    ASSUME SurviveInv, Turns, Moves(op.phase, op'.phase), op.phase \in Configures => Seen
    PROVE  ModeInv'
<1>1. UNCHANGED rep /\ ~Seen' /\ op'.old = op.old /\ op'.target = op.target
  BY DEF Turns, Seen
<1>2. op.phase \notin Settled /\ op.phase # "Poisoned" /\ ModeInv
  BY DEF SurviveInv, Turns, Terminal, Settled
<1>3. op.old \in Replica /\ op.target \in Replica
  BY <1>2 DEF SurviveInv, MemberInv, Settled
<1>4. CASE op.phase \in CatchUpKinds \cup CurrentKinds \cup {"WaitForCatchUpQuorum"}
  <2>1. Chosen' = Chosen /\ \A r \in Replica : rep[r].cfg.mode = "CatchUp" => r = Chosen
    BY <1>1, <1>2, <1>4 DEF ModeInv, Chosen, Moves, After, CatchUpKinds, CurrentKinds
  <2>2. CASE op.phase \in CatchUpKinds
    <3>1. rep[Chosen].cfg.mode = "CatchUp"
      BY <1>2, <2>2 DEF ModeInv, CatchUpKinds, Configures, OldConfigures, TargetConfigures
    <3>2. op'.phase \in {"WaitForCatchUpQuorum", "CompensateCurrentConfiguration"}
      BY <2>2 DEF Moves, CatchUpKinds
    <3> QED
      BY <1>1, <2>1, <3>1, <3>2 DEF ModeInv, CatchUpKinds, CurrentKinds
  <2>3. CASE op.phase = "WaitForCatchUpQuorum"
    <3>1. rep[Chosen].role = "Primary" => rep[Chosen].cfg.mode = "CatchUp"
      BY <1>2, <2>3 DEF ModeInv
    <3>2. op'.phase = "UpdateCurrentConfiguration"
      BY <2>3 DEF Moves
    <3> QED
      BY <1>1, <2>1, <3>1, <3>2 DEF ModeInv, CatchUpKinds, CurrentKinds
  <2>4. CASE op.phase \in CurrentKinds
    <3>1. rep[Chosen].cfg.mode # "CatchUp"
      BY <1>2, <2>4 DEF ModeInv, CurrentKinds, Configures, OldConfigures, TargetConfigures
    <3>2. op'.phase \in {"LabelTargetPrimary", "CompensateLabelOldPrimary"}
      BY <2>4 DEF Moves, CurrentKinds
    <3> QED
      BY <1>1, <2>1, <3>1, <3>2 DEF ModeInv, CatchUpKinds, CurrentKinds
  <2> QED
    BY <1>4, <2>2, <2>3, <2>4
<1>5. CASE op.phase \notin CatchUpKinds \cup CurrentKinds \cup {"WaitForCatchUpQuorum"}
  <2>1. \A r \in Replica : rep[r].cfg.mode # "CatchUp"
    BY <1>2, <1>5 DEF ModeInv
  <2>2. Chosen' \in Replica
    BY <1>1, <1>3 DEF Chosen
  <2>3. op'.phase \notin CurrentKinds \cup {"WaitForCatchUpQuorum"}
    BY <1>5 DEF Moves, CatchUpKinds, CurrentKinds
  <2>4. op'.phase = "RestorePreviousConfiguration" => rep[op.old].write # "Granted"
    BY <1>3 DEF SurviveInv, QuietInv, Moves
  <2> QED
    BY <1>1, <2>1, <2>2, <2>3, <2>4 DEF ModeInv
<1> QED
  BY <1>4, <1>5

LEMMA MoveQuiet ==
    ASSUME SurviveInv, Turns, Moves(op.phase, op'.phase),
           op'.phase = "PreCatchUp" => \A r \in Replica : rep[r].write # "Granted"
    PROVE  QuietInv'
  BY DEF SurviveInv, QuietInv, Turns, Moves

LEMMA MoveLsn ==
    ASSUME SurviveInv, Turns, Moves(op.phase, op'.phase),
           op'.phase = "PreCatchUp" => op'.frozen = lsn[op.old],
           op'.phase = "DemoteOldPrimary" => lsn[op.target] >= op.frozen
    PROVE  LsnInv'
<1>1. /\ \A r : MayLead(r)' <=> MayLead(r)
      /\ UNCHANGED <<stable, lsn, granted, acked>> /\ op'.old = op.old /\ op'.target = op.target
  BY SameActions DEF Turns
<1>2. op.phase \notin Settled /\ op.phase # "Poisoned" /\ LsnInv
  BY DEF SurviveInv, Turns, Terminal, Settled
<1>3. op.old \in Replica /\ op.target \in Replica /\ granted \in Nat
      /\ lsn[op.old] \in Nat /\ lsn[op.target] \in Nat
  BY <1>2 DEF SurviveInv, MemberInv, LsnInv, Settled
<1>4. op'.phase \notin Settled
  BY DEF Moves, Settled
<1>5. op'.phase \in Before \cup Compensating \cup {"PromoteTarget"} => lsn[op.old] >= granted
  <2>1. op'.phase \in Before \cup Compensating \cup {"PromoteTarget"} =>
            op.phase \in Before \cup Compensating \cup {"PromoteTarget"}
    BY DEF Moves, Before, Compensating
  <2> QED
    BY <1>2, <2>1 DEF LsnInv
<1>6. op'.phase = "PreCatchUp" => op'.frozen \in Nat /\ op'.frozen >= granted
  <2>1. op'.phase = "PreCatchUp" => op.phase \in Before
    BY DEF Moves, Before
  <2> QED
    BY <1>2, <1>3, <2>1 DEF LsnInv
<1>7. op'.phase \in {"DemoteOldPrimary", "PromoteTarget"} => lsn[op.target] >= granted
  <2>1. CASE op'.phase = "DemoteOldPrimary"
    <3>1. op.phase = "PreCatchUp"
      BY <2>1 DEF Moves
    <3>2. op.frozen \in Nat /\ op.frozen >= granted
      BY <1>2, <3>1 DEF LsnInv
    <3> QED
      BY <1>3, <2>1, <3>2
  <2>2. CASE op'.phase = "PromoteTarget"
    BY <1>2, <2>2 DEF LsnInv, Moves
  <2> QED
    BY <2>1, <2>2
<1> QED
  BY <1>1, <1>2, <1>4, <1>5, <1>6, <1>7 DEF LsnInv

-----------------------------------------------------------------------------
(* The operator's steps without an action.                                 *)

LEMMA PersistTurns ==
    ASSUME SurviveInv, op.phase \notin Terminal, NEW phase, phase \notin Terminal \ {"Poisoned"},
           Persist(WithPhase(phase))
    PROVE  Turns /\ op'.phase = phase /\ op'.index = op.index /\ op'.frozen = op.frozen
<1>1. IsRecord(op, OperationFields) /\ op.index \in Nat
  BY DEF SurviveInv, MemberInv, IInv, OperationInv, Terminal
<1>2. op' = [op EXCEPT !.phase = phase, !.pending = NoAction, !.late = FALSE]
  BY DEF Persist, WithPhase
<1>3. /\ op'.phase = phase /\ op'.pending = NoAction /\ op'.index = op.index
      /\ op'.frozen = op.frozen
      /\ op'.old = op.old /\ op'.target = op.target /\ op'.prev = op.prev /\ op'.next = op.next
  BY <1>1, <1>2 DEF IsRecord, OperationFields
<1> QED
  BY <1>1, <1>3 DEF Turns, Persist, dataVars

LEMMA PoisonStepSurvive ==
    ASSUME SurviveInv, IInv', op.phase \notin Terminal, Persist(WithPhase("Poisoned"))
    PROVE  SurviveInv'
  BY PersistTurns, PoisonSurvive

LEMMA CaptureLsnSurvive ==
    ASSUME SurviveInv, IInv', CaptureLsn
    PROVE  SurviveInv'
<1>1. op.phase \notin Terminal /\ op.phase = "CaptureLsn" /\ op.pending = NoAction
  BY DEF CaptureLsn, NoPending, Running
<1>2. CASE Persist(WithPhase("Poisoned"))
  BY <1>1, <1>2, PoisonStepSurvive
<1>3. CASE /\ rep[op.old].write = "Pending"
           /\ Persist([WithPhase("PreCatchUp") EXCEPT !.frozen = lsn[op.old]])
  <2>1. IsRecord(op, OperationFields) /\ op.index \in Nat
    BY <1>1 DEF SurviveInv, MemberInv, IInv, OperationInv
  <2>2. op' = [[op EXCEPT !.phase = "PreCatchUp", !.pending = NoAction, !.late = FALSE]
                  EXCEPT !.frozen = lsn[op.old]]
    BY <1>3 DEF Persist, WithPhase
  <2>3. /\ op'.phase = "PreCatchUp" /\ op'.pending = NoAction /\ op'.index = op.index
        /\ op'.frozen = lsn[op.old]
        /\ op'.old = op.old /\ op'.target = op.target /\ op'.prev = op.prev /\ op'.next = op.next
    BY <2>1, <2>2 DEF IsRecord, OperationFields
  <2>4. Turns /\ Moves(op.phase, op'.phase)
    BY <1>1, <1>3, <2>1, <2>3 DEF Turns, Persist, dataVars, Terminal, Moves
  <2>5. \A r \in Replica : rep[r].write # "Granted"
    <3> SUFFICES ASSUME NEW r \in Replica, rep[r].write = "Granted" PROVE FALSE
      OBVIOUS
    <3>1. Holds(r)
      BY <1>1 DEF SurviveInv, IInv, HolderInv, MayGrant
    <3>2. r = op.old
      BY <1>1, <3>1 DEF Holds, Settled, After
    <3> QED
      BY <1>3, <3>2
  <2>6. NoInstallation
    BY <1>1, NoneInstalls
  <2>7. LeadInv'
    BY <2>3, <2>4, <1>1, MoveLead
  <2>8. QuietInv' /\ LsnInv'
    BY <2>3, <2>4, <2>5, MoveQuiet, MoveLsn
  <2>9. ModeInv'
    BY <1>1, <2>4, MoveMode DEF Configures, OldConfigures, TargetConfigures
  <2> QED
    BY <2>4, <2>6, <2>7, <2>8, <2>9, MoveSurvive
<1> QED
  BY <1>2, <1>3 DEF CaptureLsn

LEMMA PreCatchUpSurvive ==
    ASSUME SurviveInv, IInv', PreCatchUp
    PROVE  SurviveInv'
<1>1. op.phase \notin Terminal /\ op.phase = "PreCatchUp" /\ op.pending = NoAction
  BY DEF PreCatchUp, NoPending, Running
<1>2. CASE Persist(WithPhase("Poisoned"))
  BY <1>1, <1>2, PoisonStepSurvive
<1>3. ASSUME NEW phase \in {"DemoteOldPrimary", "RestorePreviousConfiguration"},
             Persist(WithPhase(phase)),
             phase = "DemoteOldPrimary" => lsn[op.target] >= op.frozen
      PROVE  SurviveInv'
  <2>1. Turns /\ op'.phase = phase /\ Moves(op.phase, op'.phase)
    BY <1>1, <1>3, PersistTurns DEF Terminal, Moves
  <2>2. NoInstallation
    BY <1>1, NoneInstalls
  <2>3. LeadInv'
    BY <1>1, <1>3, <2>1, MoveLead
  <2>4. QuietInv' /\ LsnInv'
    BY <1>3, <2>1, MoveQuiet, MoveLsn
  <2>5. ModeInv'
    BY <1>1, <2>1, MoveMode DEF Configures, OldConfigures, TargetConfigures
  <2> QED
    BY <2>1, <2>2, <2>3, <2>4, <2>5, MoveSurvive
<1>4. \/ Persist(WithPhase("Poisoned")) \/ Persist(WithPhase("RestorePreviousConfiguration"))
      \/ Persist(WithPhase("DemoteOldPrimary")) /\ lsn[op.target] >= op.frozen
  BY DEF PreCatchUp
<1> QED
  BY <1>2, <1>3, <1>4

LEMMA DistributionDoneSurvive ==
    ASSUME SurviveInv, IInv', DistributionDone
    PROVE  SurviveInv'
<1>1. op.phase \notin Terminal /\ op.pending = NoAction /\ op.index >= Cardinality(Distribution)
  BY DEF DistributionDone, NoPending, Running
<1>2. ASSUME NEW phase, Persist(WithPhase(phase)), Moves(op.phase, phase),
             phase \in {"UpdateCatchUpConfiguration", "CompensateCatchUpConfiguration"},
             op.phase \in {"DistributeEpoch", "CompensateDistributeEpoch"}
      PROVE  SurviveInv'
  <2>1. Turns /\ op'.phase = phase /\ Moves(op.phase, op'.phase)
    BY <1>1, <1>2, PersistTurns DEF Terminal
  <2>2. NoInstallation
    BY <1>1, NoneInstalls DEF Terminal
  <2>3. phase = "CompensateCatchUpConfiguration" => ~MayLead(op.target)
    <3> SUFFICES ASSUME phase = "CompensateCatchUpConfiguration", MayLead(op.target) PROVE FALSE
      OBVIOUS
    <3>1. op.phase = "CompensateDistributeEpoch"
      BY <1>2 DEF Moves
    <3>2. op.old \in Replica /\ op.target \in Replica /\ op.old # op.target /\ op.index \in Nat
      BY <3>1 DEF SurviveInv, MemberInv
    <3>3. Leading(op.target)
      BY <3>1, <3>2 DEF SurviveInv, LeadInv
    <3>4. op.index <= Place(Others(op.old), op.target)
      BY <3>1, <3>2, <3>3 DEF Leading, Settled, After, Compensating, Before
    <3>5. op.index >= Cardinality(Others(op.old))
      BY <1>1, <3>1 DEF Distribution
    <3>6. /\ Place(Others(op.old), op.target) \in Nat
          /\ Place(Others(op.old), op.target) < Cardinality(Others(op.old))
      BY <3>2, PlaceIsNat
    <3>7. Cardinality(Others(op.old)) \in Nat
      BY SwitchoverAssumption, FS_Subset, FS_CardinalityType DEF Others
    <3> QED
      BY <3>2, <3>4, <3>5, <3>6, <3>7
  <2>4. LeadInv'
    BY <1>2, <2>1, <2>3, MoveLead
  <2>5. QuietInv' /\ LsnInv'
    BY <1>2, <2>1, MoveQuiet, MoveLsn
  <2>6. ModeInv'
    BY <1>2, <2>1, MoveMode DEF Configures, OldConfigures, TargetConfigures
  <2> QED
    BY <2>1, <2>2, <2>4, <2>5, <2>6, MoveSurvive
<1>3. CASE op.phase = "DistributeEpoch"
  <2>1. Persist(WithPhase("UpdateCatchUpConfiguration"))
    BY <1>3 DEF DistributionDone
  <2> QED
    BY <1>2, <1>3, <2>1 DEF Moves
<1>4. CASE op.phase = "CompensateDistributeEpoch"
  <2>1. Persist(WithPhase("CompensateCatchUpConfiguration"))
    BY <1>4 DEF DistributionDone
  <2> QED
    BY <1>2, <1>4, <2>1 DEF Moves
<1> QED
  BY <1>3, <1>4 DEF DistributionDone

\* Nothing of an operation that was given up before its promotions has an id of
\* the later phases.
LEMMA EarlyIds ==
    ASSUME op.phase \in Settled \cup {"Failing"}, NEW id, IdInv(id),
           op'.phase \in Settled \cup {"Revoke"}, stable'.epoch = stable.epoch
    PROVE  IdInv(id)'
<1>1. Reached(id[3]) => Reached(id[3])'
  BY DEF Reached, Settled, AfterCatchUp, AfterCurrent, AfterCompensatePromote,
         AfterCompensateCatchUp, AfterCompensateCurrent
<1> QED
  BY <1>1 DEF IdInv, Settled

LEMMA StartSwitchoverSurvive ==
    ASSUME SurviveInv, IInv', NEW t \in Replica, StartSwitchover(t)
    PROVE  SurviveInv'
<1>1. op.phase \in Settled /\ UNCHANGED <<stable, rep, net, lsn, acked, granted>>
  BY DEF StartSwitchover, Terminal, Settled, dataVars
<1>2. /\ op'.phase = "Revoke" /\ op'.old = stable.primary /\ op'.target = t
      /\ op'.pending = NoAction /\ op'.index = 0 /\ t # stable.primary
  BY DEF StartSwitchover
<1>3. /\ \A r : Actions(r)' = Actions(r)
      /\ \A r : MayLead(r)' <=> MayLead(r)
      /\ \A r : MayGrant(r)' <=> MayGrant(r)
  BY <1>1, SameActions
<1>4. \A r \in Replica : RecordInv(r)' /\ \A a \in Actions(r)' : KindInv(r, a)'
  <2>1. \A id : IdInv(id) => IdInv(id)'
    BY <1>1, <1>2, EarlyIds
  <2> QED
    BY <1>1, <2>1, SameRecords DEF SurviveInv, IInv, OperationInv
<1>5. MemberInv'
  BY <1>1, <1>2 DEF SurviveInv, MemberInv
<1>6. \A r \in Replica : MayLead(r) => r = stable.primary
  BY <1>1 DEF SurviveInv, LeadInv, Leading, Settled, Before, After, Compensating
<1>7. LeadInv'
  <2>1. \A r \in Replica : MayLead(r)' => Leading(r)'
    BY <1>2, <1>3, <1>6 DEF Leading, Before
  <2>2. \A a \in Actions(op.target)' : ~Promoting(a.act)
    <3>1. ~MayLead(t)
      BY <1>2, <1>6
    <3>2. Actions(op.target)' = Actions(t)
      BY <1>1, <1>2 DEF Actions
    <3> QED
      BY <3>1, <3>2 DEF MayLead
  <2> QED
    BY <1>2, <2>1, <2>2 DEF LeadInv, After, Compensating, AfterCompensatePromote,
                            AfterCompensateCatchUp, AfterCompensateCurrent
<1>8. QuietInv'
  BY <1>2 DEF QuietInv
<1>9. NoInstallation
  BY <1>1, NoneInstalls DEF Settled
<1>10. GrantInv'
  BY <1>3, <1>9 DEF GrantInv, NoInstallation
<1>11. ModeInv'
  <2>1. \A r \in Replica : rep[r].cfg.mode # "CatchUp"
    BY <1>1 DEF SurviveInv, ModeInv, Settled, CatchUpKinds, CurrentKinds
  <2> QED
    BY <1>1, <1>2, <2>1 DEF ModeInv, CatchUpKinds, CurrentKinds
<1>12. LsnInv'
  BY <1>1, <1>2, <1>3 DEF SurviveInv, LsnInv, Settled
<1>13. ApartInv'
  BY <1>3 DEF SurviveInv, ApartInv
<1> QED
  BY <1>4, <1>5, <1>7, <1>8, <1>10, <1>11, <1>12, <1>13 DEF SurviveInv

\* What is published is led by the one that may lead.
LEMMA PublishSurvive ==
    ASSUME SurviveInv, IInv', op.phase \in {"Failing", "Finalize", "CompensateFinalize"},
           op.pending = NoAction, NEW phase \in {"Completed", "Failed"}, NEW primary \in Replica,
           NEW epoch \in Nat, Publish(phase, primary, epoch),
           epoch > stable.epoch \/ (epoch = stable.epoch /\ op.phase = "Failing"),
           rep[primary].role = "Primary", \A r \in Replica : Leading(r) => r = primary
    PROVE  SurviveInv'
<1>1. IsRecord(op, OperationFields) /\ stable.epoch \in Nat
  BY DEF SurviveInv, IInv, OperationInv
<1>2. op' = [op EXCEPT !.phase = phase, !.pending = NoAction, !.late = FALSE]
  BY DEF Publish, WithPhase
<1>3. /\ op'.phase = phase /\ op'.pending = NoAction /\ op'.index = op.index
      /\ op'.old = op.old /\ op'.target = op.target
  BY <1>1, <1>2 DEF IsRecord, OperationFields
<1>4. stable'.epoch = epoch /\ stable'.primary = primary /\ UNCHANGED <<rep, net, lsn, acked, granted>>
  BY DEF Publish, dataVars
<1>5. /\ \A r : Actions(r)' = Actions(r)
      /\ \A r : MayLead(r)' <=> MayLead(r)
      /\ \A r : MayGrant(r)' <=> MayGrant(r)
  BY <1>4, SameActions
<1>6. \A id : IdInv(id) => IdInv(id)'
  <2>1. CASE epoch = stable.epoch /\ op.phase = "Failing"
    BY <1>3, <1>4, <2>1, EarlyIds DEF Settled
  <2>2. CASE epoch > stable.epoch
    BY <1>1, <1>4, <2>2 DEF IdInv
  <2> QED
    BY <2>1, <2>2
<1>7. \A r \in Replica : RecordInv(r)' /\ \A a \in Actions(r)' : KindInv(r, a)'
  BY <1>1, <1>4, <1>6, SameRecords
<1>8. MemberInv'
  BY <1>3, <1>4 DEF SurviveInv, MemberInv, Settled
<1>9. \A r \in Replica : MayLead(r) => r = primary
  BY DEF SurviveInv, LeadInv
<1>10. LeadInv'
  BY <1>3, <1>4, <1>5, <1>9 DEF LeadInv, Leading, Settled, After, Compensating,
         AfterCompensatePromote, AfterCompensateCatchUp, AfterCompensateCurrent
<1>11. QuietInv'
  BY <1>3 DEF QuietInv
<1>12. GrantInv'
  <2>1. NoInstallation
    BY NoneInstalls
  <2> QED
    BY <1>5, <2>1 DEF NoInstallation, GrantInv
<1>13. ModeInv'
  <2>1. \A r \in Replica : rep[r].cfg.mode # "CatchUp"
    BY DEF SurviveInv, ModeInv, CatchUpKinds, CurrentKinds
  <2> QED
    BY <1>3, <1>4, <2>1 DEF ModeInv, CatchUpKinds, CurrentKinds
<1>14. LsnInv'
  <2>1. lsn[primary] >= granted
    BY DEF SurviveInv, LsnInv, MayLead
  <2> QED
    BY <1>3, <1>4, <1>5, <2>1 DEF SurviveInv, LsnInv, Settled, Before, Compensating
<1>15. ApartInv'
  BY <1>5 DEF SurviveInv, ApartInv
<1> QED
  BY <1>7, <1>8, <1>10, <1>11, <1>12, <1>13, <1>14, <1>15 DEF SurviveInv

LEMMA FinalizeSurvive ==
    ASSUME SurviveInv, IInv', Finalize
    PROVE  SurviveInv'
<1>1. /\ op.phase \notin Terminal /\ op.phase \in {"Finalize", "CompensateFinalize"}
      /\ op.pending = NoAction
  BY DEF Finalize, NoPending, Running
<1>2. op.next \in Nat /\ op.next > stable.epoch /\ op.old \in Replica /\ op.target \in Replica
  BY <1>1 DEF SurviveInv, MemberInv, IInv, OperationInv, Settled
<1>3. CASE Persist(WithPhase("Poisoned"))
  BY <1>1, <1>3, PoisonStepSurvive
<1>4. CASE /\ op.phase = "Finalize" /\ Attested(op.target)
           /\ Publish("Completed", op.target, op.next)
  <2>1. \A r \in Replica : Leading(r) => r = op.target
    BY <1>4 DEF Leading, Settled, Before, Compensating
  <2>2. rep[op.target].role = "Primary"
    BY <1>2, <1>4 DEF Attested
  <2> QED
    BY <1>1, <1>2, <1>4, <2>1, <2>2, PublishSurvive
<1>5. CASE /\ op.phase = "CompensateFinalize" /\ Attested(op.old)
           /\ Publish("Failed", op.old, op.next)
  <2>1. \A r \in Replica : Leading(r) => r = op.old
    BY <1>5 DEF Leading, Settled, Before, After
  <2>2. rep[op.old].role = "Primary"
    BY <1>2, <1>5 DEF Attested
  <2> QED
    BY <1>1, <1>2, <1>5, <2>1, <2>2, PublishSurvive
<1> QED
  BY <1>1, <1>3, <1>4, <1>5 DEF Finalize

LEMMA CompleteFailedSurvive ==
    ASSUME SurviveInv, IInv', CompleteFailed
    PROVE  SurviveInv'
<1>1. op.phase \notin Terminal /\ op.phase = "Failing" /\ op.pending = NoAction
  BY DEF CompleteFailed, NoPending, Running
<1>2. /\ Top = stable.epoch /\ stable.epoch \in Nat /\ op.prev = stable.epoch
      /\ op.next = stable.epoch + 1 /\ op.old \in Replica
  BY <1>1 DEF SurviveInv, MemberInv, IInv, OperationInv, Top, Settled, Before
<1> DEFINE serves == rep[op.old].role = "Primary" /\ rep[op.old].epoch \in {op.prev, op.next}
<1>3. CASE ~serves
  BY <1>1, <1>3, PoisonStepSurvive DEF CompleteFailed
<1>4. CASE serves
  <2>1. \A r \in Replica : Leading(r) => r = op.old
    BY <1>1 DEF Leading, Settled, After
  <2>2. rep[op.old].epoch <= Top
    BY <1>2, <1>4 DEF SurviveInv, IInv, ProcessInv
  <2>3. rep[op.old].epoch = stable.epoch
    BY <1>2, <1>4, <2>2
  <2>4. Publish("Failed", op.old, rep[op.old].epoch)
    BY <1>4 DEF CompleteFailed
  <2> QED
    BY <1>1, <1>2, <1>4, <2>1, <2>3, <2>4, PublishSurvive
<1> QED
  BY <1>3, <1>4

\* An action at hand is not the absence of one.
LEMMA HandIsNotNone ==
    ASSUME NEW p, IsRecord(p, PendingFields)
    PROVE  p # NoAction
<1>1. DOMAIN p = PendingFields
  BY DEF IsRecord
<1>2. DOMAIN NoAction = {"id"} /\ "kind" \in PendingFields
  BY DEF NoAction, PendingFields
<1> QED
  BY <1>1, <1>2

-----------------------------------------------------------------------------
(* The operator's steps with an action, in the same phase.                 *)

LEMMA StaySurvive ==
    ASSUME SurviveInv, IInv', op.phase \notin Terminal,
           UNCHANGED <<stable, rep, net, lsn, acked, granted>>,
           op'.phase = op.phase, op'.old = op.old, op'.target = op.target, op'.prev = op.prev,
           op'.next = op.next, op'.index = op.index, op'.frozen = op.frozen,
           op.pending # NoAction => op'.pending # NoAction,
           MemberInv', GrantInv', ModeInv'
    PROVE  SurviveInv'
<1>1. /\ \A r : Actions(r)' = Actions(r)
      /\ \A r : MayLead(r)' <=> MayLead(r)
      /\ \A r : MayGrant(r)' <=> MayGrant(r)
  BY SameActions
<1>2. \A id : IdInv(id) => IdInv(id)'
  BY DEF IdInv, Reached
<1>3. \A r \in Replica : RecordInv(r)' /\ \A a \in Actions(r)' : KindInv(r, a)'
  BY <1>2, SameRecords DEF SurviveInv, IInv, OperationInv
<1>4. Chosen' = Chosen /\ \A r : Leading(r)' <=> Leading(r)
  BY DEF Chosen, Leading
<1>5. LeadInv'
  <2>1. Actions(op.target)' = Actions(op.target) /\ Actions(Chosen)' = Actions(Chosen)
        /\ (MayLead(op.target)' <=> MayLead(op.target))
    BY <1>4 DEF Actions, MayLead
  <2> QED
    BY <1>1, <1>4, <2>1 DEF SurviveInv, LeadInv
<1>6. QuietInv'
  BY DEF SurviveInv, QuietInv
<1>7. LsnInv'
  BY <1>1 DEF SurviveInv, LsnInv
<1>8. ApartInv'
  BY <1>1 DEF SurviveInv, ApartInv
<1> QED
  BY <1>3, <1>5, <1>6, <1>7, <1>8 DEF SurviveInv

\* The same action is at hand.
LEMMA SamePending ==
    ASSUME SurviveInv, IInv', op.phase \notin Terminal,
           UNCHANGED <<stable, rep, net, lsn, acked, granted>>,
           op'.phase = op.phase, op'.old = op.old, op'.target = op.target, op'.prev = op.prev,
           op'.next = op.next, op'.index = op.index, op'.frozen = op.frozen,
           op'.pending = NoAction <=> op.pending = NoAction,
           op'.pending.id = op.pending.id, op'.pending.target = op.pending.target
    PROVE  SurviveInv'
<1>1. \A r : Actions(r)' = Actions(r)
  BY SameActions
<1>2. MemberInv'
  BY DEF SurviveInv, MemberInv
<1>3. GrantInv'
  BY <1>1 DEF SurviveInv, GrantInv
<1>4. Chosen' = Chosen /\ (Seen' <=> Seen)
  BY DEF Chosen, Seen, DoneAt
<1>5. ModeInv'
  BY <1>4 DEF SurviveInv, ModeInv
<1> QED
  BY <1>2, <1>3, <1>5, StaySurvive

LEMMA PlanDispatchSurvive ==
    ASSUME SurviveInv, IInv', PlanDispatch
    PROVE  SurviveInv'
<1>1. op.phase \notin Terminal /\ op.pending # NoAction
  BY DEF PlanDispatch, Dispatchable, Pending, Running
<1>2. op.phase \notin Settled /\ IsRecord(op, OperationFields) /\ IsRecord(op.pending, PendingFields)
  BY <1>1 DEF SurviveInv, IInv, OperationInv, Terminal, Settled
<1> DEFINE pending == [op.pending EXCEPT !.fences = Fences(P)]
<1>3. op' = [op EXCEPT !.pending = pending]
  BY DEF PlanDispatch, Persist
<1>4. /\ IsRecord(pending, PendingFields)
      /\ pending.id = op.pending.id /\ pending.target = op.pending.target
  BY <1>2 DEF IsRecord, PendingFields
<1>5. pending # NoAction
  BY <1>4, HandIsNotNone
<1> HIDE DEF pending
<1>6. /\ op'.phase = op.phase /\ op'.pending = pending /\ op'.index = op.index
      /\ op'.frozen = op.frozen
      /\ op'.old = op.old /\ op'.target = op.target /\ op'.prev = op.prev /\ op'.next = op.next
  BY <1>2, <1>3 DEF IsRecord, OperationFields
<1>7. UNCHANGED <<stable, rep, net, lsn, acked, granted>>
  BY DEF PlanDispatch, Persist, dataVars
<1> QED
  BY <1>1, <1>4, <1>5, <1>6, <1>7, SamePending

LEMMA DeadlinePassesSurvive ==
    ASSUME SurviveInv, IInv', DeadlinePasses
    PROVE  SurviveInv'
<1>1. op.phase \notin Terminal /\ UNCHANGED <<stable, rep, net, lsn, acked, granted>>
  BY DEF DeadlinePasses, dataVars
<1>2. IsRecord(op, OperationFields)
  BY <1>1 DEF SurviveInv, IInv, OperationInv, Terminal
<1>3. op' = [op EXCEPT !.late = TRUE]
  BY DEF DeadlinePasses
<1>4. /\ op'.phase = op.phase /\ op'.pending = op.pending /\ op'.index = op.index
      /\ op'.frozen = op.frozen
      /\ op'.old = op.old /\ op'.target = op.target /\ op'.prev = op.prev /\ op'.next = op.next
  BY <1>2, <1>3 DEF IsRecord, OperationFields
<1> QED
  BY <1>1, <1>4, SamePending

\* Who a promotion and a distribution are for.
LEMMA TargetOfPromotion ==
    /\ TargetOf("PromoteTarget") = op.target
    /\ TargetOf("CompensatePromoteOldPrimary") = op.old
    /\ TargetOf("CompensateUpdateSecondaryEpoch") = MemberAt(Distribution, op.index)
<1>1. TargetOf("PromoteTarget") = op.target
  BY Zenon DEF TargetOf, Counting
<1>2. TargetOf("CompensatePromoteOldPrimary") = op.old
  BY Zenon DEF TargetOf, Counting
<1>3. TargetOf("CompensateUpdateSecondaryEpoch") = MemberAt(Distribution, op.index)
  BY Zenon DEF TargetOf, Counting
<1> QED
  BY <1>1, <1>2, <1>3

LEMMA BeginActionSurvive ==
    ASSUME SurviveInv, IInv', BeginAction
    PROVE  SurviveInv'
<1> DEFINE kind == Kind[op.phase]
           pending == [id |-> <<op.prev, op.target, kind, op.index>>, kind |-> kind,
                       target |-> TargetOf(kind), fences |-> << >>]
<1>1. op.phase \notin Terminal /\ op.phase \in DOMAIN Kind /\ op.pending = NoAction
  BY DEF BeginAction, NoPending, Running
<1>2. /\ op.phase \notin Settled /\ op.phase # "Poisoned" /\ IsRecord(op, OperationFields)
      /\ op.prev = stable.epoch /\ stable.epoch \in Nat
  BY <1>1 DEF SurviveInv, IInv, OperationInv, Terminal, Settled
<1>3. op' = [op EXCEPT !.late = FALSE, !.pending = pending]
  BY DEF BeginAction, Persist
<1>4. /\ IsRecord(pending, PendingFields) /\ pending.kind = kind
      /\ pending.id[1] = op.prev /\ pending.id[3] = kind /\ pending.target = TargetOf(kind)
  BY DEF IsRecord, PendingFields
<1>5. pending # NoAction
  BY <1>4, HandIsNotNone
<1> HIDE DEF kind, pending
<1>6. /\ op'.phase = op.phase /\ op'.pending = pending /\ op'.index = op.index
      /\ op'.frozen = op.frozen
      /\ op'.old = op.old /\ op'.target = op.target /\ op'.prev = op.prev /\ op'.next = op.next
  BY <1>2, <1>3 DEF IsRecord, OperationFields
<1>7. UNCHANGED <<stable, rep, net, lsn, acked, granted>>
  BY DEF BeginAction, Persist, dataVars
<1>8. MemberInv'
  <2>1. op.phase = "PromoteTarget" => pending.target = op.target
    BY <1>4, TargetOfPromotion DEF kind, Kind
  <2>2. op.phase = "CompensatePromoteOldPrimary" => pending.target = op.old
    BY <1>4, TargetOfPromotion DEF kind, Kind
  <2>3. op.phase = "CompensateDistributeEpoch" =>
            pending.target = MemberAt(Others(op.old), op.index)
    BY <1>4, TargetOfPromotion DEF kind, Kind, Distribution
  <2> QED
    BY <1>6, <1>7, <2>1, <2>2, <2>3 DEF SurviveInv, MemberInv, Others, MemberAt, Place
<1>9. NoInstallation
  BY <1>1, <1>2, NoneInstalls
<1>10. GrantInv'
  BY <1>7, <1>9, SameActions DEF NoInstallation, GrantInv
<1>11. Chosen' = Chosen /\ Chosen \in Replica /\ ~Seen /\ ModeInv
  BY <1>1, <1>2, <1>6 DEF Chosen, Seen, SurviveInv, MemberInv, Settled
<1>12. op.phase \in CatchUpKinds \cup CurrentKinds => ~Seen'
  <2> SUFFICES ASSUME op.phase \in CatchUpKinds \cup CurrentKinds, DoneAt(pending.target, pending.id)
               PROVE  FALSE
    BY <1>6, <1>7 DEF Seen, DoneAt
  <2>1. kind = op.phase
    BY DEF kind, Kind, CatchUpKinds, CurrentKinds
  <2>2. pending.target \in Replica
    <3>1. kind \in OldConfigures \cup TargetConfigures
      BY <2>1 DEF CatchUpKinds, CurrentKinds, OldConfigures, TargetConfigures
    <3> QED
      BY <1>2, <1>4, <3>1, TargetOfKind DEF SurviveInv, MemberInv, Settled
  <2>3. IdInv(pending.id)
    BY <2>2 DEF SurviveInv, RecordInv, DoneAt
  <2>4. Reached(op.phase)
    BY <1>2, <1>4, <2>1, <2>3 DEF IdInv
  <2> QED
    BY <1>1, <2>4 DEF Reached, CatchUpKinds, CurrentKinds, AfterCatchUp, AfterCurrent,
                      AfterCompensateCatchUp, AfterCompensateCurrent
<1>13. ModeInv'
  BY <1>6, <1>7, <1>11, <1>12 DEF ModeInv
<1> QED
  BY <1>1, <1>5, <1>6, <1>7, <1>8, <1>10, <1>13, StaySurvive

-----------------------------------------------------------------------------
(* The operator's steps with an action that was seen to happen.            *)

\* What is known of the replica when an action was seen to happen without a record.
LEMMA PostconditionOfKind ==
    ASSUME NEW kind, kind = op.pending.kind, DirectObservation = "Postcondition"
    PROVE  /\ kind \in PromoteKinds => Is("Primary", op.next)
           /\ kind \in Counting => Is("ActiveSecondary", op.next)
           /\ kind \in CatchUpKinds => P.cfg.mode = "CatchUp"
           /\ kind \in CurrentKinds => P.role = "Primary" /\ P.cfg.mode # "CatchUp"
           /\ kind = "RestorePreviousConfiguration" => P.write = "Granted"
<1>1. \A post, pre : Either(post, pre) = "Postcondition" => post
  BY DEF Either
<1>2. \A expected, before : Configuration(expected, before) = "Postcondition" =>
          P.role = "Primary" /\ P.cfg = expected
  BY DEF Configuration, Is
<1>3. \A r : ConfigOf("CatchUp", r).mode = "CatchUp" /\ ConfigOf("Current", r).mode # "CatchUp"
  BY DEF ConfigOf
<1>4. kind \in PromoteKinds => Is("Primary", op.next)
  <2>1. kind = "PromoteTarget" => Is("Primary", op.next)
    BY <1>1, DirectOfKind
  <2>2. kind = "CompensatePromoteOldPrimary" => Is("Primary", op.next)
    BY <1>1, DirectOfKind
  <2> QED
    BY <2>1, <2>2 DEF PromoteKinds
<1>5. kind \in Counting => Is("ActiveSecondary", op.next)
  BY <1>1, DirectOfKind
<1>6. kind \in CatchUpKinds => P.cfg.mode = "CatchUp"
  <2>1. kind = "UpdateCatchUpConfiguration" => P.cfg = ConfigOf("CatchUp", op.target)
    BY <1>2, DirectOfKind
  <2>2. kind = "CompensateCatchUpConfiguration" => P.cfg = ConfigOf("CatchUp", op.old)
    BY <1>2, DirectOfKind
  <2> QED
    BY <1>3, <2>1, <2>2 DEF CatchUpKinds
<1>7. kind \in CurrentKinds => P.role = "Primary" /\ P.cfg.mode # "CatchUp"
  <2>1. kind = "UpdateCurrentConfiguration" =>
           P.role = "Primary" /\ P.cfg = ConfigOf("Current", op.target)
    BY <1>2, DirectOfKind
  <2>2. kind = "CompensateCurrentConfiguration" =>
           P.role = "Primary" /\ P.cfg = ConfigOf("Current", op.old)
    BY <1>2, DirectOfKind
  <2> QED
    BY <1>3, <2>1, <2>2 DEF CurrentKinds
<1>8. kind = "RestorePreviousConfiguration" => P.write = "Granted"
  BY <1>1, DirectOfKind
<1> QED
  BY <1>4, <1>5, <1>6, <1>7, <1>8

\* The facts about an action at hand.
LEMMA HandFacts ==
    ASSUME SurviveInv, op.phase \notin Terminal, op.pending # NoAction
    PROVE  /\ op.phase \notin Settled /\ op.phase # "Poisoned"
           /\ op.phase \in DOMAIN Kind /\ op.pending.kind = Kind[op.phase]
           /\ op.pending.id[1] = op.prev /\ op.pending.id[3] = op.pending.kind
           /\ op.prev = stable.epoch /\ op.next = stable.epoch + 1 /\ stable.epoch \in Nat
           /\ op.old \in Replica /\ op.target \in Replica /\ op.old # op.target
           /\ op.index \in Nat
           /\ op.phase \in Configures => op.pending.target = Chosen /\ op.pending.kind = op.phase
           /\ op.phase = "DemoteOldPrimary" => op.pending.target = op.old
           /\ op.phase = "PromoteTarget" => op.pending.target = op.target
           /\ op.phase = "CompensatePromoteOldPrimary" => op.pending.target = op.old
           /\ op.phase = "CompensateDistributeEpoch" =>
                 op.pending.target = MemberAt(Others(op.old), op.index)
<1>1. op.phase \notin Settled /\ op.phase # "Poisoned"
  BY DEF Terminal, Settled
<1>2. OperationInv /\ MemberInv
  BY DEF SurviveInv, IInv
<1>3. op.phase \in Configures => op.pending.target = Chosen /\ op.pending.kind = op.phase
  BY <1>1, <1>2 DEF OperationInv, Configures, OldConfigures, TargetConfigures, Chosen, After, Kind
<1>4. op.phase = "DemoteOldPrimary" => op.pending.target = op.old
  BY <1>1, <1>2 DEF OperationInv, Kind
<1> QED
  BY <1>1, <1>2, <1>3, <1>4 DEF OperationInv, MemberInv, Settled

LEMMA SeenOnRecord ==
    ASSUME Record(P, op.pending.id) = "Completed"
    PROVE  DoneAt(op.pending.target, op.pending.id)
  BY DEF Record, DoneAt, P

\* An installation that was seen to happen is on record.
LEMMA InstallationSeen ==
    ASSUME SurviveInv, op.phase \notin Terminal, op.pending # NoAction, op.phase \in Configures,
           Observation = "Postcondition"
    PROVE  Seen
<1>1. /\ op.pending.target = Chosen /\ op.pending.kind = op.phase /\ Chosen \in Replica
  BY HandFacts DEF Chosen
<1>2. P = rep[Chosen] /\ ModeInv
  BY <1>1 DEF P, SurviveInv
<1>3. CASE Record(P, op.pending.id) = "Completed"
  BY <1>3, SeenOnRecord DEF Seen
<1>4. CASE DirectObservation = "Postcondition"
  <2>1. /\ op.phase \in CatchUpKinds => rep[Chosen].cfg.mode = "CatchUp"
        /\ op.phase \in CurrentKinds => rep[Chosen].role = "Primary" /\ rep[Chosen].cfg.mode # "CatchUp"
        /\ op.phase = "RestorePreviousConfiguration" => rep[Chosen].write = "Granted"
    BY <1>1, <1>2, <1>4, PostconditionOfKind
  <2>2. op.phase = "RestorePreviousConfiguration" => Chosen = op.old
    BY DEF Chosen, After
  <2> QED
    BY <1>2, <2>1, <2>2 DEF ModeInv, Configures, OldConfigures, TargetConfigures, CatchUpKinds,
                            CurrentKinds
<1> QED
  BY <1>1, <1>3, <1>4, PostconditionSeen DEF SurviveInv

\* A promotion that was seen to happen has happened, and nothing since.
LEMMA PromotionSeen ==
    ASSUME SurviveInv, op.phase \in PromoteKinds, op.pending # NoAction,
           Observation = "Postcondition"
    PROVE  rep[op.pending.target].role = "Primary"
<1>1. op.phase \notin Terminal
  BY DEF PromoteKinds, Terminal
<1>2. /\ op.pending.target \in Replica /\ op.pending.kind \in PromoteKinds
      /\ op.pending.id[1] = stable.epoch /\ op.pending.id[3] \in PromoteKinds
      /\ stable.epoch \in Nat
  BY <1>1, HandFacts DEF PromoteKinds, Kind
<1>3. CASE Record(P, op.pending.id) = "Completed"
  <2>1. DoneAt(op.pending.target, op.pending.id)
    BY <1>3, SeenOnRecord
  <2>2. RecordInv(op.pending.target) /\ rep[op.pending.target].epoch \in Nat
    BY <1>2 DEF SurviveInv, IInv, ProcessInv
  <2> QED
    BY <1>2, <2>1, <2>2 DEF RecordInv, DoneAt
<1>4. CASE DirectObservation = "Postcondition"
  BY <1>2, <1>4, PostconditionOfKind DEF Is, P
<1> QED
  BY <1>2, <1>3, <1>4, PostconditionSeen DEF SurviveInv

\* Nobody leads when the demotion was seen to happen.
LEMMA DemotionSeen ==
    ASSUME SurviveInv, op.phase = "DemoteOldPrimary", op.pending # NoAction,
           Observation = "Postcondition", NEW r \in Replica
    PROVE  ~MayLead(r)
<1> SUFFICES ASSUME MayLead(r) PROVE FALSE
  OBVIOUS
<1>1. op.phase \notin Terminal
  BY DEF Terminal
<1>2. /\ op.pending.target = op.old /\ op.old \in Replica
      /\ op.prev = stable.epoch /\ stable.epoch \in Nat /\ op.next = stable.epoch + 1
      /\ op.pending.id[1] = op.prev /\ op.pending.id[3] = "DemoteOldPrimary"
      /\ op.pending.kind = "DemoteOldPrimary"
  BY <1>1, HandFacts DEF Kind
<1>3. r = op.old
  BY DEF SurviveInv, LeadInv, Leading, Settled, After, Compensating
<1>4. ProcessInv(rep[r], Top) /\ Top = stable.epoch /\ P = rep[r] /\ rep[r].epoch \in Nat
  BY <1>2, <1>3 DEF SurviveInv, IInv, ProcessInv, Top, Before, P
<1>5. rep[r].epoch > stable.epoch
  <2>1. CASE Record(P, op.pending.id) = "Completed"
    BY <1>2, <1>3, <1>4, <2>1, SeenOnRecord DEF DoneAt, ProcessInv
  <2>2. CASE DirectObservation = "Postcondition"
    <3>1. DirectObservation = Either(Is("ActiveSecondary", op.next),
                                     Is("Primary", op.prev) /\ P.write = "Pending")
      BY <1>2, DirectOfKind
    <3> QED
      BY <1>2, <1>4, <2>2, <3>1 DEF Is, Either
  <2> QED
    BY <1>2, <2>1, <2>2, PostconditionSeen DEF SurviveInv
<1>6. rep[r].role # "Primary"
  BY <1>2, <1>4, <1>5 DEF ProcessInv
<1>7. PICK a \in Actions(r) : Promoting(a.act)
  BY <1>6 DEF MayLead
<1>8. a.act.epoch \in Nat /\ a.act.epoch >= rep[r].epoch /\ a.act.epoch <= Top
  BY <1>7, ActionFacts DEF SurviveInv, ActionInv, Promoting
<1> QED
  BY <1>2, <1>4, <1>5, <1>8

\* The target is known to be a secondary of the new epoch.
LEMMA DistributionSeen ==
    ASSUME SurviveInv, op.phase = "CompensateDistributeEpoch", op.pending # NoAction,
           Observation = "Postcondition", op.pending.target = op.target
    PROVE  ~MayLead(op.target)
<1> SUFFICES ASSUME MayLead(op.target) PROVE FALSE
  OBVIOUS
<1>1. op.phase \notin Terminal
  BY DEF Terminal
<1>2. /\ op.target \in Replica /\ op.next \in Nat
      /\ op.pending.id[1] = op.prev /\ op.pending.id[3] = "CompensateUpdateSecondaryEpoch"
      /\ op.pending.kind = "CompensateUpdateSecondaryEpoch" /\ P = rep[op.target]
  BY <1>1, HandFacts DEF Kind, P
<1>3. CASE Record(P, op.pending.id) = "Completed"
  <2>1. DoneAt(op.target, op.pending.id)
    BY <1>3, SeenOnRecord
  <2> QED
    BY <1>2, <2>1 DEF DoneAt, SurviveInv, LeadInv
<1>4. CASE DirectObservation = "Postcondition"
  <2>1. rep[op.target].role = "ActiveSecondary" /\ rep[op.target].epoch = op.next
    BY <1>2, <1>4, PostconditionOfKind DEF Counting, Is
  <2>2. PICK a \in Actions(op.target) : Promoting(a.act)
    BY <2>1 DEF MayLead
  <2>3. a.act.epoch > rep[op.target].epoch /\ a.act.epoch = op.next
    BY <1>2, <2>2 DEF SurviveInv, LeadInv, Settled, Compensating
  <2> QED
    BY <1>2, <2>1, <2>3
<1> QED
  BY <1>2, <1>3, <1>4, PostconditionSeen DEF SurviveInv

LEMMA ActionDoneSurvive ==
    ASSUME SurviveInv, IInv', ActionDone
    PROVE  SurviveInv'
<1>1. op.phase \notin Terminal /\ op.pending # NoAction /\ Observation = "Postcondition"
  BY DEF ActionDone, Pending, Running
<1>2. /\ op.phase \notin Settled /\ op.phase # "Poisoned"
      /\ op.phase \in DOMAIN Kind /\ op.pending.kind = Kind[op.phase]
      /\ op.old \in Replica /\ op.target \in Replica /\ op.old # op.target /\ op.index \in Nat
  BY <1>1, HandFacts
<1>3. IsRecord(op, OperationFields) /\ UNCHANGED <<stable, rep, net, lsn, acked, granted>>
  BY <1>2 DEF SurviveInv, IInv, OperationInv, Settled, ActionDone, Persist, dataVars
<1>4. op.phase \in Configures => Seen
  BY <1>1, InstallationSeen
<1>5. NoInstallation
  <2>1. op.pending.kind \in Configures => op.phase \in Configures
    BY <1>2 DEF Kind, Configures, OldConfigures, TargetConfigures
  <2> QED
    BY <1>2, <1>4, <2>1, NoneInstalls
<1>6. CASE op.pending.kind \in Counting
  <2>1. op' = [[op EXCEPT !.phase = op.phase, !.pending = NoAction, !.late = FALSE]
                  EXCEPT !.index = op.index + 1]
    BY <1>6 DEF ActionDone, Persist, WithPhase
  <2>2. /\ op'.phase = op.phase /\ op'.pending = NoAction /\ op'.index = op.index + 1
        /\ op'.old = op.old /\ op'.target = op.target /\ op'.prev = op.prev /\ op'.next = op.next
    BY <1>3, <2>1 DEF IsRecord, OperationFields
  <2>3. op.phase \in {"DistributeEpoch", "CompensateDistributeEpoch"}
    BY <1>2, <1>6 DEF Kind, Counting
  <2>4. Turns /\ Moves(op.phase, op'.phase)
    BY <1>1, <1>2, <1>3, <2>2, <2>3 DEF Turns, Moves, Terminal
  <2>5. op.phase = "CompensateDistributeEpoch" /\ MayLead(op.target) =>
            op'.index <= Place(Others(op.old), op.target)
    <3> SUFFICES ASSUME op.phase = "CompensateDistributeEpoch", MayLead(op.target)
                 PROVE  op'.index <= Place(Others(op.old), op.target)
      OBVIOUS
    <3>1. Leading(op.target)
      BY <1>2 DEF SurviveInv, LeadInv
    <3>2. op.index <= Place(Others(op.old), op.target)
      BY <1>2, <3>1 DEF Leading, Settled, After, Compensating, Before
    <3>3. Place(Others(op.old), op.target) \in Nat
      BY <1>2, PlaceIsNat
    <3>4. op.pending.target # op.target
      BY <1>1, DistributionSeen
    <3>5. op.pending.target = MemberAt(Others(op.old), op.index)
      BY <1>1, HandFacts
    <3>6. op.index # Place(Others(op.old), op.target)
      BY <1>2, <3>4, <3>5, MemberAtPlace
    <3> QED
      BY <1>2, <2>2, <3>2, <3>3, <3>6
  <2>6. LeadInv'
    BY <2>2, <2>3, <2>4, <2>5, MoveLead
  <2>7. QuietInv' /\ LsnInv'
    BY <2>2, <2>3, <2>4, MoveQuiet, MoveLsn
  <2>8. ModeInv'
    BY <1>4, <2>4, MoveMode
  <2> QED
    BY <1>5, <2>4, <2>6, <2>7, <2>8, MoveSurvive
<1>7. CASE op.pending.kind \notin Counting
  <2> DEFINE phase == Advance[op.pending.kind]
             index == IF op.pending.kind \in {"PromoteTarget", "CompensatePromoteOldPrimary"}
                      THEN 0 ELSE op.index
  <2>1. op' = [[op EXCEPT !.phase = phase, !.pending = NoAction, !.late = FALSE]
                  EXCEPT !.index = index]
    BY <1>7 DEF ActionDone, Persist, WithPhase
  <2>2. index \in Nat /\ (op.phase = "CompensatePromoteOldPrimary" => index = 0)
    BY <1>2 DEF Kind
  <2> HIDE DEF phase, index
  <2>3. /\ op'.phase = phase /\ op'.pending = NoAction /\ op'.index = index
        /\ op'.old = op.old /\ op'.target = op.target /\ op'.prev = op.prev /\ op'.next = op.next
    BY <1>3, <2>1 DEF IsRecord, OperationFields
  <2>4. /\ Moves(op.phase, phase) /\ phase \notin Terminal
        /\ phase = "PromoteTarget" => op.phase = "DemoteOldPrimary"
        /\ phase \notin {"PreCatchUp", "DemoteOldPrimary", "CompensateCatchUpConfiguration"}
        /\ phase = "CompensateDistributeEpoch" => op.phase # phase
    BY <1>2, <1>7 DEF Kind, Advance, Counting, phase, Moves, Terminal
  <2>5. Turns /\ Moves(op.phase, op'.phase)
    BY <1>1, <1>3, <2>2, <2>3, <2>4 DEF Turns
  <2>6. op'.phase = "PromoteTarget" => \A r \in Replica : ~MayLead(r)
    BY <1>1, <2>3, <2>4, DemotionSeen
  <2>7. /\ op.phase = "PromoteTarget" => rep[op.target].role = "Primary"
        /\ op.phase = "CompensatePromoteOldPrimary" => rep[op.old].role = "Primary"
    BY <1>1, HandFacts, PromotionSeen DEF PromoteKinds
  <2>8. LeadInv'
    BY <2>2, <2>3, <2>4, <2>5, <2>6, <2>7, MoveLead
  <2>9. QuietInv' /\ LsnInv'
    BY <2>3, <2>4, <2>5, MoveQuiet, MoveLsn
  <2>10. ModeInv'
    BY <1>4, <2>5, MoveMode
  <2> QED
    BY <1>5, <2>5, <2>8, <2>9, <2>10, MoveSurvive
<1> QED
  BY <1>6, <1>7

LEMMA ActionGivenUpSurvive ==
    ASSUME SurviveInv, IInv', ActionGivenUp
    PROVE  SurviveInv'
<1> DEFINE kind == op.pending.kind
<1>1. op.phase \notin Terminal /\ op.pending # NoAction /\ Persist(WithPhase(OnTimeout(kind)))
  BY DEF ActionGivenUp, Pending, Running
<1>2. op.phase # "Poisoned" /\ op.phase \in DOMAIN Kind /\ kind = Kind[op.phase]
  BY <1>1, HandFacts
<1> HIDE DEF kind
<1>3. \/ kind = "RevokeWrite" /\ OnTimeout(kind) = "Failing"
      \/ kind = "DemoteOldPrimary" /\ OnTimeout(kind) = "RestorePreviousConfiguration"
      \/ kind = "PromoteTarget" /\ OnTimeout(kind) = "CompensatePromoteOldPrimary"
      \/ OnTimeout(kind) = "Poisoned"
  BY TimeoutOf
<1>4. CASE OnTimeout(kind) = "Poisoned"
  BY <1>1, <1>4, PoisonStepSurvive
<1>5. ASSUME NEW phase, Persist(WithPhase(phase)), Moves(op.phase, phase),
             phase \in {"Failing", "RestorePreviousConfiguration", "CompensatePromoteOldPrimary"},
             kind \in {"RevokeWrite", "DemoteOldPrimary", "PromoteTarget"}
      PROVE  SurviveInv'
  <2>1. Turns /\ op'.phase = phase /\ Moves(op.phase, op'.phase)
    BY <1>1, <1>5, PersistTurns DEF Terminal
  <2>2. NoInstallation
    BY <1>2, <1>5, NoneInstalls DEF kind, Configures, OldConfigures, TargetConfigures
  <2>3. op.phase \in {"Revoke", "DemoteOldPrimary", "PromoteTarget"}
    BY <1>2, <1>5 DEF Kind
  <2>4. LeadInv'
    BY <1>5, <2>1, <2>3, MoveLead
  <2>5. QuietInv' /\ LsnInv'
    BY <1>5, <2>1, MoveQuiet, MoveLsn
  <2>6. ModeInv'
    BY <2>1, <2>3, MoveMode DEF Configures, OldConfigures, TargetConfigures
  <2> QED
    BY <2>1, <2>2, <2>4, <2>5, <2>6, MoveSurvive
<1>6. /\ kind = "RevokeWrite" => Moves(op.phase, "Failing")
      /\ kind = "DemoteOldPrimary" => Moves(op.phase, "RestorePreviousConfiguration")
      /\ kind = "PromoteTarget" => Moves(op.phase, "CompensatePromoteOldPrimary")
  BY <1>2 DEF Kind, Moves
<1> QED
  BY <1>1, <1>3, <1>4, <1>5, <1>6 DEF kind

-----------------------------------------------------------------------------
(* The dispatch.                                                           *)

\* The action that is dispatched, and the replica that it is dispatched to.
LEMMA DispatchFacts ==
    ASSUME SurviveInv, Dispatchable, op.pending.target \in Replica, NEW act,
           act = ActionFor(op.pending.kind)
    PROVE  /\ KindInv(op.pending.target, [id |-> op.pending.id, act |-> act])
           /\ Granting(act) <=> op.phase \in Configures
           /\ Promoting(act) <=> op.phase \in PromoteKinds
           /\ Promoting(act) => act.epoch = op.next
           /\ op.phase = "PromoteTarget" => act.epoch > P.epoch
           /\ op.pending.id \notin DOMAIN P.done
           /\ P.active # NoAction => P.active.id # op.pending.id
<1> DEFINE kind == op.pending.kind
           id == op.pending.id
<1>1. /\ op.phase \notin Terminal /\ op.pending # NoAction /\ kind \notin Labelling
      /\ Observation = "Precondition"
  BY DEF Dispatchable, Pending, Running
<1>2. /\ op.phase \notin Settled /\ op.phase # "Poisoned"
      /\ op.phase \in DOMAIN Kind /\ kind = Kind[op.phase]
      /\ id[1] = op.prev /\ id[3] = kind
      /\ op.prev = stable.epoch /\ op.next = stable.epoch + 1 /\ stable.epoch \in Nat
  BY <1>1, HandFacts
<1>3. Record(P, id) = "none" /\ DirectObservation = "Precondition"
  BY <1>1, PreconditionSeen DEF SurviveInv
<1>4. id \notin DOMAIN P.done /\ (P.active # NoAction => P.active.id # id)
  <2>1. ProcessInv(P, Top)
    BY DEF SurviveInv, IInv, P
  <2> QED
    BY <1>3, <2>1 DEF Record, ProcessInv
<1>5. kind \in {"PromoteTarget"} \cup Counting => P.epoch = op.prev
  BY <1>3, PreconditionOfKind DEF Is
<1>6. /\ kind = "RevokeWrite" => act.do = "Revoke"
      /\ kind = "DemoteOldPrimary" =>
            act.do = "ChangeRole" /\ act.role = "ActiveSecondary" /\ act.epoch = op.next
      /\ kind \in PromoteKinds =>
            act.do = "ChangeRole" /\ act.role = "Primary" /\ act.epoch = op.next
      /\ kind \in Counting => act.do = "UpdateEpoch" /\ act.epoch = op.next
      /\ kind = "WaitForCatchUpQuorum" => act.do = "Wait"
      /\ kind \in CatchUpKinds => act.do = "CatchUp"
      /\ kind \in CurrentKinds \cup {"RestorePreviousConfiguration"} => act.do = "Current"
  BY ActionOfKind DEF PromoteKinds, CatchUpKinds, CurrentKinds
<1>7. kind \in {"RevokeWrite", "DemoteOldPrimary", "WaitForCatchUpQuorum"} \cup PromoteKinds
               \cup Counting \cup CatchUpKinds \cup CurrentKinds \cup {"RestorePreviousConfiguration"}
  BY <1>1, <1>2 DEF Kind, Labelling, Counting, PromoteKinds, CatchUpKinds, CurrentKinds
<1>8. /\ kind \in Configures <=> op.phase \in Configures
      /\ kind \in PromoteKinds <=> op.phase \in PromoteKinds
      /\ op.phase = "PromoteTarget" => kind = "PromoteTarget"
  BY <1>2 DEF Kind, Configures, OldConfigures, TargetConfigures, PromoteKinds
<1>9. IdInv(id)
  <2>1. Reached(kind)
    BY <1>1, <1>2 DEF Kind, Reached, AfterCompensatePromote, AfterCompensateCatchUp,
                      AfterCompensateCurrent
  <2> QED
    BY <1>2, <2>1 DEF IdInv
<1> HIDE DEF kind, id
<1>10. /\ Granting(act) <=> kind \in Configures
       /\ act.do = "CatchUp" <=> kind \in CatchUpKinds
       /\ kind = "CompensateUpdateSecondaryEpoch" => act.do = "UpdateEpoch"
       /\ Promoting(act) <=> kind \in PromoteKinds
       /\ kind \in PromoteKinds => act.epoch = op.next
       /\ act.do = "UpdateEpoch" => kind \in Counting
       /\ act.do \in {"ChangeRole", "UpdateEpoch"} => act.epoch = op.next
  BY <1>6, <1>7 DEF Granting, Promoting, Configures, OldConfigures, TargetConfigures, PromoteKinds,
                    Counting, CatchUpKinds, CurrentKinds
<1>11. KindInv(op.pending.target, [id |-> id, act |-> act])
  BY <1>2, <1>5, <1>6, <1>9, <1>10 DEF KindInv, P
<1>12. op.phase = "PromoteTarget" => act.epoch > P.epoch
  BY <1>2, <1>5, <1>8, <1>10 DEF PromoteKinds
<1> QED
  BY <1>4, <1>8, <1>10, <1>11, <1>12 DEF id

LEMMA DispatchActionSurvive ==
    ASSUME SurviveInv, IInv', DispatchAction
    PROVE  SurviveInv'
<1>1. PICK act, q :
        /\ act = ActionFor(op.pending.kind)
        /\ q.to = op.pending.target /\ q.id = op.pending.id /\ q.act = act
        /\ q.fences = Fences(P) /\ net' = net \cup {q}
  <2> DEFINE act == ActionFor(op.pending.kind)
             q == [to |-> op.pending.target, id |-> op.pending.id, fences |-> op.pending.fences,
                   act |-> act]
  <2>1. net' = net \cup {q} /\ op.pending.fences = Fences(P)
    BY DEF DispatchAction
  <2>2. q.to = op.pending.target /\ q.id = op.pending.id /\ q.act = act /\ q.fences = op.pending.fences
    OBVIOUS
  <2> QED
    BY <2>1, <2>2
<1>2. Dispatchable /\ UNCHANGED <<op, stable, rep, lsn, acked, granted>>
  BY DEF DispatchAction, dataVars
<1>3. /\ op.phase \notin Terminal /\ op.phase \notin Settled /\ op.phase # "Poisoned"
      /\ op.pending # NoAction /\ op.old \in Replica /\ op.target \in Replica /\ op.old # op.target
      /\ op.next \in Nat
  BY <1>2, HandFacts DEF Dispatchable, Pending, Running
<1> DEFINE t == op.pending.target
           new == [id |-> op.pending.id, act |-> act]
<1>4. \A r \in Replica : \A a \in Actions(r)' : a \in Actions(r) \/ (r = t /\ a = new)
  BY <1>1, <1>2 DEF Actions
<1>5. ASSUME t \in Replica
      PROVE  /\ KindInv(t, new)
             /\ Granting(act) <=> op.phase \in Configures
             /\ Promoting(act) <=> op.phase \in PromoteKinds
             /\ Promoting(act) => act.epoch = op.next
             /\ op.phase = "PromoteTarget" => act.epoch > rep[t].epoch
             /\ op.pending.id \notin DOMAIN rep[t].done
             /\ rep[t].active # NoAction => rep[t].active.id # op.pending.id
  BY <1>1, <1>2, <1>5, DispatchFacts DEF P
<1>6. new.act = act /\ new.id = op.pending.id
  OBVIOUS
<1> HIDE DEF new
<1>7. /\ op.phase = "PromoteTarget" => t = op.target
      /\ op.phase = "CompensatePromoteOldPrimary" => t = op.old
      /\ op.phase \in Configures => t = Chosen
  BY <1>3, HandFacts
<1>8. \A r \in Replica : MayLead(r)' => MayLead(r) \/ (r = t /\ op.phase \in PromoteKinds)
  BY <1>2, <1>4, <1>5, <1>6 DEF MayLead
<1>9. \A id : IdInv(id)' <=> IdInv(id)
  BY <1>2 DEF IdInv, Reached
<1>10. MemberInv'
  BY <1>2 DEF SurviveInv, MemberInv
<1>11. \A r \in Replica : \A a \in Actions(r)' : KindInv(r, a)'
  <2> SUFFICES ASSUME NEW r \in Replica, NEW a \in Actions(r)' PROVE KindInv(r, a)'
    OBVIOUS
  <2>1. KindInv(r, a)
    BY <1>4, <1>5 DEF SurviveInv
  <2> QED
    BY <1>2, <1>9, <2>1 DEF KindInv
<1>12. \A r \in Replica : RecordInv(r)'
  <2> SUFFICES ASSUME NEW r \in Replica PROVE RecordInv(r)'
    OBVIOUS
  <2>1. RecordInv(r)
    BY DEF SurviveInv
  <2>2. ASSUME NEW z \in net', z.to = r, Live(rep[r], z), rep[r].active # NoAction
        PROVE  z.id # rep[r].active.id
    BY <1>1, <1>5, <2>1, <2>2 DEF RecordInv
  <2> QED
    BY <1>2, <1>9, <2>1, <2>2 DEF RecordInv
<1>13. Chosen' = Chosen /\ (Seen' <=> Seen) /\ \A r : Leading(r)' <=> Leading(r)
  BY <1>2 DEF Chosen, Seen, DoneAt, Leading
<1>14. LeadInv'
  <2>0. LeadInv
    BY DEF SurviveInv
  <2>1. \A r \in Replica : MayLead(r)' => Leading(r)
    <3>1. op.phase = "PromoteTarget" => Leading(op.target)
      BY DEF Leading
    <3>2. op.phase = "CompensatePromoteOldPrimary" => Leading(op.old)
      BY DEF Leading, Compensating
    <3> QED
      BY <1>3, <1>7, <1>8, <2>0, <3>1, <3>2 DEF LeadInv, PromoteKinds
  <2>2. \A a \in Actions(op.target)' : Promoting(a.act) => a.act.epoch > rep[op.target].epoch
    <3> SUFFICES ASSUME NEW a \in Actions(op.target)', Promoting(a.act)
                 PROVE  a.act.epoch > rep[op.target].epoch
      OBVIOUS
    <3>1. a \in Actions(op.target) \/ (op.target = t /\ a = new)
      BY <1>2, <1>3, <1>4
    <3>2. CASE a \in Actions(op.target)
      BY <1>3, <2>0, <3>2 DEF LeadInv
    <3>3. CASE op.target = t /\ a = new
      BY <1>3, <1>5, <1>6, <1>7, <3>3 DEF PromoteKinds
    <3> QED
      BY <3>1, <3>2, <3>3
  <2>3. ASSUME op.phase \in After \cup Compensating \cup {"PromoteTarget"}, NEW r \in Replica
        PROVE  /\ rep[r].role = "Primary" => rep[r].epoch = op.next
               /\ \A a \in Actions(r)' : Promoting(a.act) => a.act.epoch = op.next
    BY <1>3, <1>4, <1>5, <1>6, <2>0, <2>3 DEF LeadInv
  <2>4. ASSUME op.phase \in After \cup AfterCompensatePromote
        PROVE  rep[Chosen].role = "Primary" \/ \A a \in Actions(Chosen)' : ~Promoting(a.act)
    <3>1. op.phase \notin PromoteKinds /\ Chosen \in Replica
      BY <1>3, <2>4 DEF PromoteKinds, Chosen, After, AfterCompensatePromote, AfterCompensateCatchUp,
                        AfterCompensateCurrent
    <3>2. \A a \in Actions(Chosen)' : a \in Actions(Chosen) \/ (Chosen = t /\ a = new)
      BY <1>4, <1>13, <3>1
    <3> QED
      BY <1>3, <1>5, <1>6, <2>0, <2>4, <3>1, <3>2 DEF LeadInv
  <2>5. op.phase = "CompensateDistributeEpoch" => (MayLead(op.target)' => MayLead(op.target))
    BY <1>2, <1>3, <1>8 DEF PromoteKinds
  <2> QED
    BY <1>2, <1>3, <1>13, <2>0, <2>1, <2>2, <2>3, <2>4, <2>5 DEF LeadInv
<1>15. QuietInv'
  BY <1>2 DEF SurviveInv, QuietInv
<1>16. GrantInv'
  <2> SUFFICES ASSUME NEW r \in Replica, NEW a \in Actions(r)', Granting(a.act)
               PROVE  a.id = op.pending.id /\ r = op.pending.target /\ a.id \notin DOMAIN rep[r].done
    BY <1>2, <1>3 DEF GrantInv
  <2>1. CASE a \in Actions(r)
    BY <1>3, <2>1 DEF SurviveInv, GrantInv
  <2>2. CASE r = t /\ a = new
    BY <1>5, <1>6, <2>2
  <2> QED
    BY <1>4, <2>1, <2>2
<1>17. ModeInv'
  BY <1>2, <1>13 DEF SurviveInv, ModeInv
<1>18. LsnInv'
  <2>1. LsnInv
    BY DEF SurviveInv
  <2>2. op.phase \in PromoteKinds => lsn[t] >= granted
    BY <1>7, <2>1 DEF LsnInv, PromoteKinds, Compensating
  <2>3. \A r \in Replica : MayLead(r)' => lsn[r] >= granted
    BY <1>8, <2>1, <2>2 DEF LsnInv
  <2> QED
    BY <1>2, <2>1, <2>3 DEF LsnInv
<1>19. ApartInv'
  <2> SUFFICES ASSUME NEW r \in Replica, NEW s \in Replica, MayGrant(r)', MayLead(s)'
               PROVE  r = s
    BY DEF ApartInv
  <2>1. rep[r].write = "Granted" \/ \E a \in Actions(r)' : Granting(a.act)
    BY <1>2, GrantOfNext
  <2>2. MayGrant(r) \/ (r = t /\ Granting(act))
    BY <1>4, <1>6, <2>1, GrantOf
  <2>3. CASE op.phase \in PromoteKinds
    <3>1. op.phase \notin Configures /\ op.pending.kind \notin Configures
      BY <1>3, <2>3, HandFacts DEF PromoteKinds, Configures, OldConfigures, TargetConfigures, Kind
    <3>2. NoInstallation
      BY <1>3, <3>1, NoneInstalls
    <3>3. rep[r].write # "Granted"
      BY <2>3 DEF SurviveInv, QuietInv, PromoteKinds
    <3>4. ~MayGrant(r)
      BY <3>2, <3>3, GrantOf DEF NoInstallation
    <3> QED
      BY <1>5, <2>2, <3>1, <3>4
  <2>4. CASE op.phase \notin PromoteKinds
    <3>1. MayLead(s)
      BY <1>8, <2>4
    <3>2. CASE MayGrant(r)
      BY <3>1, <3>2 DEF SurviveInv, ApartInv
    <3>3. CASE r = t /\ Granting(act)
      <4>1. op.phase \in Configures /\ r = Chosen
        BY <1>5, <1>7, <3>3
      <4>2. Leading(s)
        BY <1>3, <3>1 DEF SurviveInv, LeadInv
      <4>3. s = Chosen
        BY <4>1, <4>2 DEF Leading, Chosen, Configures, OldConfigures, TargetConfigures, Settled,
                          Before, After, Compensating
      <4> QED
        BY <4>1, <4>3
    <3> QED
      BY <2>2, <3>2, <3>3
  <2> QED
    BY <2>3, <2>4
<1> QED
  BY <1>10, <1>11, <1>12, <1>14, <1>15, <1>16, <1>17, <1>18, <1>19 DEF SurviveInv

-----------------------------------------------------------------------------
(* The granted writes last.                                                *)

LEMMA InitSurvive == Init => SurviveInv
<1> SUFFICES ASSUME Init PROVE SurviveInv
  OBVIOUS
<1>1. First \in Replica
  <2>1. Replica \in SUBSET Nat /\ Replica # {}
    <3>1. Replica # {}
      BY SwitchoverAssumption, FS_EmptySet
    <3> QED
      BY <3>1, SwitchoverAssumption
  <2> QED
    BY <2>1, LeastNat DEF First
<1>2. /\ op.phase = "Idle" /\ stable.epoch = 1 /\ stable.primary = First /\ net = {}
      /\ lsn = [r \in Replica |-> 0] /\ granted = 0 /\ acked = 0
  BY DEF Init, Idle, StartEpoch
<1>3. ASSUME NEW r \in Replica
      PROVE  /\ rep[r].epoch = 1 /\ rep[r].active = NoAction /\ DOMAIN rep[r].done = {}
             /\ rep[r].role = IF r = First THEN "Primary" ELSE "ActiveSecondary"
             /\ rep[r].write = IF r = First THEN "Granted" ELSE "NotPrimary"
             /\ rep[r].cfg.mode # "CatchUp"
  <2> DEFINE blank == BlankProcess(0, 0)
             cfg == IF r = First THEN ConfigOf("Current", First) ELSE NoConfig
  <2>1. IsRecord(blank, ProcessFields) /\ blank.active = NoAction /\ DOMAIN blank.done = {}
    BY DEF BlankProcess, IsRecord, ProcessFields
  <2>2. cfg.mode # "CatchUp"
    BY DEF ConfigOf, NoConfig
  <2>3. rep[r] = [blank EXCEPT
                    !.open = TRUE, !.epoch = StartEpoch,
                    !.role = IF r = First THEN "Primary" ELSE "ActiveSecondary",
                    !.wal = IF r = First THEN "Primary" ELSE "ActiveSecondary",
                    !.write = IF r = First THEN "Granted" ELSE "NotPrimary",
                    !.cfg = cfg]
    BY DEF Init
  <2> HIDE DEF blank, cfg
  <2> QED
    BY <2>1, <2>2, <2>3 DEF IsRecord, ProcessFields, StartEpoch
<1>4. \A r \in Replica : Actions(r) = {}
  BY <1>2, <1>3 DEF Actions
<1>5. \A r \in Replica : /\ MayLead(r) => r = First
                         /\ MayGrant(r) => r = First
  BY <1>2, <1>3, <1>4 DEF MayLead, MayGrant
<1>6. MemberInv
  BY <1>1, <1>2 DEF MemberInv, Settled
<1>7. \A r \in Replica : RecordInv(r) /\ \A a \in Actions(r) : KindInv(r, a)
  BY <1>2, <1>3, <1>4 DEF RecordInv
<1>8. LeadInv
  BY <1>2, <1>5 DEF LeadInv, Leading, Settled, After, Compensating, AfterCompensatePromote,
                    AfterCompensateCatchUp, AfterCompensateCurrent
<1>9. QuietInv /\ GrantInv
  BY <1>2, <1>4 DEF QuietInv, GrantInv
<1>10. ModeInv
  BY <1>2, <1>3 DEF ModeInv, CatchUpKinds, CurrentKinds
<1>11. LsnInv
  BY <1>1, <1>2 DEF LsnInv, Settled, Before, Compensating
<1>12. ApartInv
  BY <1>5 DEF ApartInv
<1> QED
  BY <1>6, <1>7, <1>8, <1>9, <1>10, <1>11, <1>12, InitInv DEF SurviveInv

LEMMA NextSurvive == SurviveInv /\ [Next]_vars => SurviveInv'
<1> SUFFICES ASSUME SurviveInv, [Next]_vars PROVE SurviveInv'
  OBVIOUS
<1>1. IInv'
  BY NextInv DEF SurviveInv
<1>2. ASSUME UNCHANGED <<op, stable, rep, net, lsn, acked, granted>>
      PROVE  SurviveInv'
  <2>1. acked \in Nat /\ lsn \in [Replica -> Nat]
    BY DEF SurviveInv, LsnInv
  <2>2. \A r \in Replica : lsn'[r] >= lsn[r]
    BY <1>2, <2>1
  <2> QED
    BY <1>1, <1>2, <2>1, <2>2, LsnGrows, OtherSurvive
<1>3. CASE Reconcile
  <2>1. CASE FailClosed
    BY <1>1, <2>1, PoisonStepSurvive DEF FailClosed
  <2>2. CASE ActionPoisons
    BY <1>1, <2>2, PoisonStepSurvive DEF ActionPoisons, Pending, Running
  <2>3. CASE PatchLabel
    BY <1>2, <2>3 DEF PatchLabel, dataVars
  <2> QED
    BY <1>1, <1>3, <2>1, <2>2, <2>3, CaptureLsnSurvive, PreCatchUpSurvive, DistributionDoneSurvive,
       FinalizeSurvive, CompleteFailedSurvive, BeginActionSurvive, ActionDoneSurvive,
       ActionGivenUpSurvive, PlanDispatchSurvive, DispatchActionSurvive DEF Reconcile
<1>4. CASE DeadlinePasses
  BY <1>1, <1>4, DeadlinePassesSurvive
<1>5. CASE Clients
  BY <1>1, <1>5, ClientsSurvive
<1>6. ASSUME NEW r \in Replica, StartSwitchover(r) \/ Agent(r) \/ Fault(r) \/ Reconnect(r)
      PROVE  SurviveInv'
  <2>1. CASE Disconnect(r) \/ Reconnect(r)
    BY <1>2, <2>1 DEF Disconnect, Reconnect, dataVars
  <2> QED
    BY <1>1, <1>6, <2>1, StartSwitchoverSurvive, HandleRequestSurvive, CompleteActionSurvive,
       FailActionSurvive, FaultSurvive DEF Agent, Fault
<1>7. CASE UNCHANGED vars
  BY <1>2, <1>7 DEF vars
<1> QED
  BY <1>3, <1>4, <1>5, <1>6, <1>7 DEF Next

-----------------------------------------------------------------------------
(* When an LSN names a write.                                              *)

\* The actor takes no write after the access was revoked.  The code does not
\* ensure this (AcknowledgedWritesSurvive); it is a hypothesis of what follows.
TakenWhileGranted ==
    \A r \in Replica : TakeWrite(r) /\ rep[r].wal = "Primary" => rep[r].write = "Granted"

\* A write gets an LSN that nobody holds.
LsnIsFresh ==
    \A r \in Replica : TakeWrite(r) /\ rep[r].wal = "Primary" =>
        \A s \in Replica : lsn'[r] > lsn[s]

\* Nobody is ahead of the last write that was taken while writes were granted.
OneHistory == \A r \in Replica : lsn[r] <= granted

\* Only the actor and the receivers change an LSN.
LEMMA LsnSteps ==
    ASSUME Next,
           \A r \in Replica : ~TakeWrite(r) /\ \A s \in Replica : ~ReceiveItem(r, s)
    PROVE  UNCHANGED <<lsn, granted>>
<1>1. CASE Reconcile
  <2>1. CASE FailClosed \/ CaptureLsn \/ PreCatchUp \/ DistributionDone \/ BeginAction \/ ActionDone
    BY <2>1 DEF FailClosed, CaptureLsn, PreCatchUp, DistributionDone, BeginAction, ActionDone,
                Persist, dataVars
  <2>2. CASE ActionGivenUp \/ ActionPoisons \/ PatchLabel \/ PlanDispatch \/ DispatchAction
    BY <2>2 DEF ActionGivenUp, ActionPoisons, PatchLabel, PlanDispatch, DispatchAction,
                Persist, dataVars
  <2>3. CASE Finalize \/ CompleteFailed
    BY <2>3 DEF Finalize, CompleteFailed, Publish, Persist, dataVars
  <2> QED
    BY <1>1, <2>1, <2>2, <2>3 DEF Reconcile
<1>2. CASE DeadlinePasses
  BY <1>2 DEF DeadlinePasses, dataVars
<1>3. CASE Clients
  BY <1>3 DEF Clients, SubmitWrite, AnswerOk
<1>4. ASSUME NEW r \in Replica, StartSwitchover(r) \/ Agent(r) \/ Fault(r) \/ Reconnect(r)
      PROVE  UNCHANGED <<lsn, granted>>
  BY <1>4 DEF StartSwitchover, Agent, HandleRequest, CompleteAction, FailAction,
              Fault, Disconnect, Restart, ReplacePod, Reconnect, dataVars
<1> QED
  BY <1>1, <1>2, <1>3, <1>4 DEF Next

\* Whoever takes a granted write holds all granted ones before it.
LEMMA GrantedIsAhead ==
    ASSUME SurviveInv, OneHistory, NEW r \in Replica, rep[r].write = "Granted"
    PROVE  \A s \in Replica : lsn[r] >= lsn[s]
<1>1. rep[r].role = "Primary"
  BY DEF SurviveInv, IInv, ProcessInv
<1>2. lsn[r] >= granted
  BY <1>1 DEF SurviveInv, LsnInv, MayLead
<1>3. granted \in Nat /\ \A s \in Replica : lsn[s] \in Nat
  BY DEF SurviveInv, LsnInv
<1> QED
  BY <1>2, <1>3 DEF OneHistory

LEMMA HistoryStep ==
    ASSUME SurviveInv, OneHistory, Next, TakenWhileGranted
    PROVE  OneHistory' /\ LsnIsFresh
<1>1. lsn \in [Replica -> Nat] /\ granted \in Nat
  BY DEF SurviveInv, LsnInv
<1>2. ASSUME NEW r \in Replica, TakeWrite(r), rep[r].wal = "Primary"
      PROVE  /\ lsn' = [lsn EXCEPT ![r] = @ + 1] /\ granted' = lsn[r] + 1
             /\ \A s \in Replica : lsn[r] >= lsn[s]
  <2>1. rep[r].write = "Granted"
    BY <1>2 DEF TakenWhileGranted
  <2>2. \A s \in Replica : lsn[r] >= lsn[s]
    BY <2>1, GrantedIsAhead
  <2> QED
    BY <1>1, <1>2, <2>1, <2>2 DEF TakeWrite
<1>3. LsnIsFresh
  BY <1>1, <1>2 DEF LsnIsFresh
<1>4. ASSUME NEW r \in Replica, TakeWrite(r)
      PROVE  OneHistory'
  <2>1. CASE rep[r].wal = "Primary"
    BY <1>1, <1>2, <1>4, <2>1 DEF OneHistory
  <2>2. CASE rep[r].wal # "Primary"
    BY <1>4, <2>2 DEF OneHistory, TakeWrite
  <2> QED
    BY <2>1, <2>2
<1>5. ASSUME NEW r \in Replica, NEW s \in Replica, ReceiveItem(r, s)
      PROVE  OneHistory'
  BY <1>1, <1>5 DEF OneHistory, ReceiveItem
<1>6. ASSUME \A r \in Replica : ~TakeWrite(r) /\ \A s \in Replica : ~ReceiveItem(r, s)
      PROVE  OneHistory'
  BY <1>6, LsnSteps DEF OneHistory
<1>7. OneHistory'
  BY <1>4, <1>5, <1>6, Zenon
<1> QED
  BY <1>3, <1>7

\* What the frozen LSN is for (capture_lsn, pre_catch_up), in every behaviour in
\* which the actor takes no write after the access was revoked: a write that was
\* answered Ok is on the newest primary, through any sequence of switchovers,
\* compensated or poisoned ones and late promotions included; and no LSN is
\* assigned twice, so that a replica that has reached the LSN of a write has that
\* write and not another one.
THEOREM GrantedWritesLast ==
    Spec /\ [][TakenWhileGranted]_vars =>
        []GrantedWritesSurvive /\ []OneHistory /\ [][LsnIsFresh]_vars
<1>1. SurviveInv => GrantedWritesSurvive
  <2> SUFFICES ASSUME SurviveInv, NEW r \in Replica, Leads(r)
               PROVE  lsn[r] >= Min({acked, granted})
    BY DEF GrantedWritesSurvive
  <2>1. MayLead(r)
    BY DEF Leads, MayLead
  <2>2. lsn[r] >= granted /\ lsn[r] \in Nat /\ granted \in Nat /\ acked \in Nat
    BY <2>1 DEF SurviveInv, LsnInv
  <2>3. Min({acked, granted}) \in Nat /\ Min({acked, granted}) <= granted
    <3>1. {acked, granted} \in SUBSET Nat
      BY <2>2
    <3> QED
      BY <3>1, LeastNat
  <2> QED
    BY <2>2, <2>3
<1>2. Init => OneHistory
  <2> SUFFICES ASSUME Init PROVE OneHistory
    OBVIOUS
  <2>1. lsn = [r \in Replica |-> 0] /\ granted = 0
    BY DEF Init
  <2> QED
    BY <2>1 DEF OneHistory
<1>3. /\ SurviveInv /\ OneHistory /\ [Next]_vars /\ [TakenWhileGranted]_vars => OneHistory'
      /\ SurviveInv /\ OneHistory /\ [Next]_vars /\ [TakenWhileGranted]_vars => [LsnIsFresh]_vars
  <2> SUFFICES ASSUME SurviveInv, OneHistory, [Next]_vars, [TakenWhileGranted]_vars
               PROVE  OneHistory' /\ [LsnIsFresh]_vars
    OBVIOUS
  <2>1. CASE UNCHANGED vars
    BY <2>1 DEF vars, OneHistory
  <2>2. CASE Next /\ TakenWhileGranted
    BY <2>2, HistoryStep
  <2> QED
    BY <2>1, <2>2
<1> QED
  BY <1>1, <1>2, <1>3, InitSurvive, NextSurvive, PTL DEF Spec
=============================================================================
