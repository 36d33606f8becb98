---------------------------- MODULE FailoverProofs ----------------------------
(***************************************************************************)
(* What a failover's correlated actions may do, for every set of replicas, *)
(* every number of faults and every schedule: an action has one effect in  *)
(* a process, one replica is promoted, once, and the election keeps what   *)
(* was acknowledged: a failover that claims no data loss has chosen a      *)
(* candidate with every acknowledged write, and no silence leads to data   *)
(* loss as long as no process is lost.                                     *)
(***************************************************************************)
EXTENDS Failover, FiniteSetTheorems, WellFoundedInduction, TLAPS

IsRecord(f, fields) == f = [x \in fields |-> f[x]]

ProcessFields ==
    {"up", "inst", "gen", "ver", "active", "done", "role", "epoch", "healthy", "lsn",
     "committed", "retained", "deact", "catchUp", "ecfg", "cfg", "label"}

OperationFields ==
    {"phase", "current", "obs", "unavailable", "attested", "confirmed", "dataLoss", "promoted",
     "primary", "insts", "epoch", "cfgIndex", "secIndex", "labelIndex", "waitIndex", "pending"}

PendingFields ==
    {"kind", "target", "inst", "id", "epoch", "config", "authorized", "late", "evidence"}

IsProcess(p) == IsRecord(p, ProcessFields)

IsOperation(o) ==
    /\ IsRecord(o, OperationFields)
    /\ o.pending = NoAction \/ IsRecord(o.pending, PendingFields)

\* The status and the pods are the records that the actions update.
ShapeInv ==
    /\ IsOperation(op)
    /\ IsRecord(rep, Replica)
    /\ \A r \in Replica : IsProcess(rep[r]) /\ rep[r].gen \in Nat

\* The phases before the election is decided, and those before the candidate's
\* epoch is final.
Undecided ==
    {"RecordStartingConfiguration", "Collect", "Assess", "WaitForBestCandidate",
     "WaitForReadQuorum"}

Early == Undecided \cup {"PersistConfigurationEpoch", "PersistDataLossEpoch"}

Elected(o) == o.confirmed /\ o.phase \notin Early

\* The action of a phase: its kind is the phase's, the starting configuration
\* is recorded on members, and a promotion is the candidate's.
PendingInv(o, a) ==
    /\ a.id.kind = a.kind
    /\ \/ o.phase = "LabelMembers" /\ a.kind = "LabelMember"
       \/ o.phase \in DOMAIN ActionKind /\ a.kind = ActionKind[o.phase]
    /\ a.kind = "RecordStartingConfiguration" => a.target \in Replica
    /\ a.kind = "PromoteCandidate" => a.target = o.primary /\ a.epoch = o.epoch

\* An operation that has left the undecided phases was confirmed.
OperationInv(o) ==
    /\ o.phase \notin Undecided \cup {"Poisoned"} \/ o.promoted => o.confirmed
    /\ o.phase = "NotifyDataLoss" => o.dataLoss
    /\ DOMAIN o.current \subseteq Replica /\ o.cfgIndex \in Nat
    /\ o.pending # NoAction => PendingInv(o, o.pending)

\* A request to become primary is for the elected candidate and its epoch.
RequestInv(o, q) ==
    /\ q.id.kind = q.kind
    /\ q.kind = "PromoteCandidate" => Elected(o) /\ q.to = o.primary /\ q.epoch = o.epoch

\* The action under way is not on record, a promotion under way is that of the
\* elected candidate, and only a data loss callback changes the state.
ProcessInv(o, r, p) ==
    /\ p.active # NoAction =>
          /\ p.active.id \notin DOMAIN p.done
          /\ RequestInv(o, p.active) /\ p.active.to = r
    /\ \A id \in DOMAIN p.done : p.done[id] = "StateChanged" => id.kind = "OnDataLoss"

\* What a living process ran is on its record.
RanInv ==
    \A x \in DOMAIN ran :
        /\ ran[x] = 1
        /\ x[1] \in Replica /\ x[3] \in Nat /\ x[3] <= rep[x[1]].gen
        /\ x[3] = rep[x[1]].gen => x[4] \in DOMAIN rep[x[1]].done

\* Who became primary is the elected candidate.
CrownInv(o) == \A x \in crowned : Elected(o) /\ x = <<o.epoch, o.primary>>

IInv ==
    /\ ShapeInv
    /\ OperationInv(op)
    /\ \A q \in net : RequestInv(op, q)
    /\ \A r \in Replica : ProcessInv(op, r, rep[r])
    /\ RanInv
    /\ CrownInv(op)

-----------------------------------------------------------------------------
(* The ascending list of a set of ids.                                     *)

LEMMA NatMin ==
    ASSUME NEW T \in SUBSET Nat, T # {}
    PROVE  \E x \in T : \A y \in T : x <= y
<1>1. PICK x \in T : \A y \in T : ~ (<<y, x>> \in OpToRel(<, Nat))
  BY NatLessThanWellFounded, WFMin
<1>2. \A y \in T : ~(y < x)
  BY <1>1 DEF OpToRel
<1> QED
  BY <1>2

\* A set has an element with i smaller ones for every i below its size: the
\* least i without one would have a predecessor with one, and the next larger
\* element has one smaller element more.
LEMMA RankExists ==
    ASSUME NEW S \in SUBSET Nat, IsFiniteSet(S), NEW i \in Nat, i < Cardinality(S)
    PROVE  \E m \in S : Cardinality({k \in S : k < m}) = i
<1> DEFINE Below(m) == {k \in S : k < m}
           Bad == {j \in Nat : j < Cardinality(S) /\ ~ \E m \in S : Cardinality(Below(m)) = j}
<1> SUFFICES ASSUME Bad # {} PROVE FALSE
  OBVIOUS
<1>1. PICK j \in Bad : \A k \in Bad : j <= k
  BY NatMin
<1>2. Cardinality(S) \in Nat
  BY FS_CardinalityType
<1>3. \A m : IsFiniteSet(Below(m)) /\ Cardinality(Below(m)) \in Nat
  BY FS_Subset, FS_CardinalityType
<1>4. CASE j = 0
  <2>1. S # {}
    BY <1>1, <1>4, FS_EmptySet
  <2>2. PICK m \in S : \A k \in S : m <= k
    BY <2>1, NatMin
  <2>3. \A k \in S : ~(k < m)
    BY <2>2
  <2>4. Below(m) = {} /\ Cardinality({}) = 0
    BY <2>3, FS_EmptySet
  <2> QED
    BY <1>1, <1>4, <2>4
<1>5. CASE j # 0
  <2>1. j - 1 \in Nat /\ j - 1 < Cardinality(S) /\ j - 1 \notin Bad
    BY <1>1, <1>2, <1>5
  <2>2. PICK m \in S : Cardinality(Below(m)) = j - 1
    BY <2>1
  <2> DEFINE upTo == Below(m) \cup {m}
             T == S \ upTo
  <2>3. IsFiniteSet(upTo) /\ Cardinality(upTo) = j
    <3>1. m \notin Below(m)
      OBVIOUS
    <3> HIDE DEF Below
    <3>2. Cardinality(upTo) = Cardinality(Below(m)) + 1 /\ IsFiniteSet(upTo)
      BY <1>3, <3>1, FS_AddElement
    <3> QED
      BY <2>1, <2>2, <3>2
  <2>4. T # {}
    <3> SUFFICES ASSUME T = {} PROVE FALSE
      OBVIOUS
    <3>1. S = upTo
      OBVIOUS
    <3>2. j < Cardinality(S) /\ j \in Nat
      BY <1>1
    <3> HIDE DEF upTo
    <3> QED
      BY <2>3, <3>1, <3>2
  <2>5. PICK n \in T : \A k \in T : n <= k
    BY <2>4, NatMin
  <2>6. \A k \in S : k \in upTo <=> k <= m
    OBVIOUS
  <2>7. n \in S /\ n > m /\ \A k \in S : k <= m \/ n <= k
    BY <2>5, <2>6
  <2>8. \A k \in S : k < n <=> k <= m
    BY <2>7
  <2>9. Below(n) = upTo
    BY <2>6, <2>8
  <2> QED
    BY <1>1, <2>3, <2>7, <2>9
<1> QED
  BY <1>4, <1>5

LEMMA InOrderIn ==
    ASSUME NEW S \in SUBSET Nat, IsFiniteSet(S), NEW i \in 1..Cardinality(S)
    PROVE  InOrder(S)[i] \in S
<1>1. Cardinality(S) \in Nat
  BY FS_CardinalityType
<1>2. i - 1 \in Nat /\ i - 1 < Cardinality(S)
  BY <1>1
<1>3. \E m \in S : Cardinality({k \in S : k < m}) = i - 1
  BY <1>2, RankExists
<1> QED
  BY <1>3 DEF InOrder

-----------------------------------------------------------------------------
(* Processes.                                                              *)

LEMMA WithDomain ==
    ASSUME NEW f, NEW x, NEW v
    PROVE  DOMAIN With(f, x, v) = DOMAIN f \cup {x}
BY DEF With

LEMMA DeactivatedKeeps ==
    ASSUME NEW p, IsProcess(p)
    PROVE  /\ IsProcess(Deactivated(p))
           /\ Deactivated(p).inst = p.inst /\ Deactivated(p).gen = p.gen
           /\ Deactivated(p).done = p.done
BY DEF Deactivated, IsProcess, IsRecord, ProcessFields

\* The process that an effect makes of p, but for the deactivation record.
Effect(p, a, q) ==
    \/ q = p
    \/ q = [p EXCEPT !.ecfg = a.config]
    \/ q = [p EXCEPT !.epoch = a.epoch]
    \/ q = [p EXCEPT !.role = "Primary", !.epoch = a.epoch]
    \/ q = [p EXCEPT !.cfg = [mode |-> "CatchUp", insts |-> a.config.insts]]
    \/ q = [p EXCEPT !.cfg = [mode |-> "Current", insts |-> a.config.insts]]
    \/ \E l \in 0..MaxLsn : q = [p EXCEPT !.lsn = l, !.committed = l, !.retained = l]

LEMMA OutcomeForms ==
    ASSUME NEW p, NEW a, NEW o \in OutcomesOf(p, a)
    PROVE  /\ \E q : Effect(p, a, q) /\ (o.process = q \/ o.process = Deactivated(q))
           /\ o.result = "StateChanged" => a.kind = "OnDataLoss"
<1> DEFINE Done(q) == {[process |-> q, result |-> "Completed"]}
           Changed(l) == [p EXCEPT !.lsn = l, !.committed = l, !.retained = l]
           Lost(l) == [process |-> Deactivated(Changed(l)), result |-> "StateChanged"]
<1>1. \/ o \in Done(p)
      \/ o \in Done([p EXCEPT !.ecfg = a.config])
      \/ o \in Done(Deactivated([p EXCEPT !.epoch = a.epoch]))
      \/ o \in Done(p) \cup {Lost(l) : l \in 0..MaxLsn}
      \/ o \in Done(Deactivated([p EXCEPT !.role = "Primary", !.epoch = a.epoch]))
      \/ o \in Done([p EXCEPT !.cfg = [mode |-> "CatchUp", insts |-> a.config.insts]])
      \/ o \in Done([p EXCEPT !.cfg = [mode |-> "Current", insts |-> a.config.insts]])
  BY Zenon DEF OutcomesOf
<1>2. \A q : o \in Done(q) => o.process = q
  OBVIOUS
<1>3. \A l : Lost(l).process = Deactivated(Changed(l))
  OBVIOUS
<1>4. o \in {Lost(l) : l \in 0..MaxLsn} =>
         \E l \in 0..MaxLsn : o.process = Deactivated(Changed(l))
  BY <1>3
<1>5. o.result = "StateChanged" => a.kind = "OnDataLoss"
  <2>1. a.kind # "OnDataLoss" => \E q : o \in Done(q)
    BY Zenon DEF OutcomesOf
  <2> QED
    BY <2>1
<1> HIDE DEF Done, Lost
<1> QED
  BY <1>1, <1>2, <1>4, <1>5, Zenon DEF Effect

LEMMA OutcomeKeeps ==
    ASSUME NEW p, IsProcess(p), NEW a, NEW o \in OutcomesOf(p, a)
    PROVE  /\ IsProcess(o.process)
           /\ o.process.inst = p.inst /\ o.process.gen = p.gen /\ o.process.done = p.done
           /\ o.result = "StateChanged" => a.kind = "OnDataLoss"
<1>1. PICK q : Effect(p, a, q) /\ (o.process = q \/ o.process = Deactivated(q))
  BY OutcomeForms
<1>2. IsProcess(q) /\ q.inst = p.inst /\ q.gen = p.gen /\ q.done = p.done
  BY <1>1, ZenonT(60) DEF Effect, IsProcess, IsRecord, ProcessFields
<1> QED
  BY <1>1, <1>2, DeactivatedKeeps, OutcomeForms

LEMMA BlankKeeps ==
    ASSUME NEW p, IsProcess(p)
    PROVE  /\ IsProcess(BlankProcess(p))
           /\ BlankProcess(p).gen = p.gen + 1
           /\ BlankProcess(p).active = NoAction /\ BlankProcess(p).done = << >>
BY ZenonT(60) DEF BlankProcess, IsProcess, IsRecord, ProcessFields

-----------------------------------------------------------------------------
(* What the agents and the faults do.                                      *)

\* Updating one process leaves the others.
LEMMA UpdateOne ==
    ASSUME ShapeInv, NEW r \in Replica, NEW p, IsProcess(p), p.gen \in Nat,
           rep' = [rep EXCEPT ![r] = p], IsOperation(op)'
    PROVE  /\ ShapeInv'
           /\ rep'[r] = p
           /\ \A s \in Replica \ {r} : rep'[s] = rep[s]
BY DEF ShapeInv, IsRecord

\* A process that keeps its record, or grows it, keeps what ran on record; a
\* new process starts a new one.
LEMMA RanStep ==
    ASSUME ShapeInv, RanInv, NEW r \in Replica, NEW p,
           rep'[r] = p, \A s \in Replica \ {r} : rep'[s] = rep[s],
           p.gen \in Nat,
           \/ p.gen = rep[r].gen /\ DOMAIN rep[r].done \subseteq DOMAIN p.done
           \/ p.gen > rep[r].gen,
           UNCHANGED ran
    PROVE  RanInv'
<1> SUFFICES ASSUME NEW x \in DOMAIN ran
             PROVE  /\ ran[x] = 1
                    /\ x[1] \in Replica /\ x[3] \in Nat /\ x[3] <= rep'[x[1]].gen
                    /\ x[3] = rep'[x[1]].gen => x[4] \in DOMAIN rep'[x[1]].done
  BY DEF RanInv
<1>1. /\ ran[x] = 1
      /\ x[1] \in Replica /\ x[3] \in Nat /\ x[3] <= rep[x[1]].gen
      /\ x[3] = rep[x[1]].gen => x[4] \in DOMAIN rep[x[1]].done
  BY DEF RanInv
<1>2. rep[r].gen \in Nat
  BY DEF ShapeInv
<1>3. CASE x[1] = r
  BY <1>1, <1>2, <1>3
<1>4. CASE x[1] # r
  BY <1>1, <1>4
<1> QED
  BY <1>3, <1>4

\* A step of one process that leaves the operation, the requests and the
\* histories alone.
LEMMA ProcessStep ==
    ASSUME IInv, NEW r \in Replica, NEW p, IsProcess(p), p.gen \in Nat,
           rep' = [rep EXCEPT ![r] = p],
           ProcessInv(op, r, p),
           \/ p.gen = rep[r].gen /\ DOMAIN rep[r].done \subseteq DOMAIN p.done
           \/ p.gen > rep[r].gen,
           UNCHANGED <<op, net, ran, crowned>>
    PROVE  IInv'
<1>1. IsOperation(op)'
  BY DEF IInv, ShapeInv
<1>2. ShapeInv' /\ rep'[r] = p /\ \A s \in Replica \ {r} : rep'[s] = rep[s]
  BY <1>1, UpdateOne DEF IInv
<1>3. RanInv'
  BY <1>2, RanStep DEF IInv
<1>4. \A s \in Replica : ProcessInv(op, s, rep'[s])
  BY <1>2 DEF IInv
<1>5. (\A s \in Replica : ProcessInv(op, s, rep[s]))'
  BY <1>4
<1>6. (\A q \in net : RequestInv(op, q))' /\ OperationInv(op)' /\ CrownInv(op)'
  BY DEF IInv, CrownInv
<1> QED
  BY <1>2, <1>3, <1>5, <1>6 DEF IInv

LEMMA AdmitStep ==
    ASSUME IInv, NEW r \in Replica, AdmitAction(r)
    PROVE  IInv'
<1>1. PICK q \in net :
         /\ Admissible(r, q)
         /\ rep' = [rep EXCEPT ![r] =
               IF q.kind = "OnDataLoss" /\ q.epoch # rep[r].epoch
               THEN [rep[r] EXCEPT !.ver = @ + 1, !.done = With(@, q.id, "Failed")]
               ELSE [rep[r] EXCEPT !.ver = @ + 1, !.active = q]]
  BY DEF AdmitAction
<1> DEFINE p == rep[r]
           refused == [p EXCEPT !.ver = @ + 1, !.done = With(@, q.id, "Failed")]
           admitted == [p EXCEPT !.ver = @ + 1, !.active = q]
<1>2. IsProcess(p) /\ p.gen \in Nat /\ p.active = NoAction /\ q.id \notin DOMAIN p.done
  BY <1>1 DEF IInv, ShapeInv, Admissible, Known
<1>3. UNCHANGED <<op, net, ran, crowned>>
  BY DEF AdmitAction, histVars
<1>4. ProcessInv(op, r, p) /\ RequestInv(op, q) /\ q.to = r
  BY <1>1 DEF IInv, Admissible
<1>5. CASE q.kind = "OnDataLoss" /\ q.epoch # rep[r].epoch
  <2>1. rep' = [rep EXCEPT ![r] = refused]
    BY <1>1, <1>5
  <2>2. /\ IsProcess(refused) /\ refused.gen = p.gen /\ refused.active = p.active
        /\ refused.done = With(p.done, q.id, "Failed")
    BY <1>2 DEF IsProcess, IsRecord, ProcessFields
  <2> HIDE DEF refused
  <2>3. /\ DOMAIN refused.done = DOMAIN p.done \cup {q.id}
        /\ refused.done[q.id] = "Failed"
        /\ \A id \in DOMAIN p.done : refused.done[id] = p.done[id]
    BY <1>2, <2>2 DEF With
  <2>4. ProcessInv(op, r, refused)
    BY <1>2, <1>4, <2>2, <2>3 DEF ProcessInv
  <2> QED
    BY <1>2, <1>3, <2>1, <2>2, <2>3, <2>4, ProcessStep
<1>6. CASE ~(q.kind = "OnDataLoss" /\ q.epoch # rep[r].epoch)
  <2>1. rep' = [rep EXCEPT ![r] = admitted]
    BY <1>1, <1>6
  <2>2. /\ IsProcess(admitted) /\ admitted.gen = p.gen /\ admitted.active = q
        /\ admitted.done = p.done
    BY <1>2 DEF IsProcess, IsRecord, ProcessFields
  <2> HIDE DEF admitted
  <2>3. ProcessInv(op, r, admitted)
    BY <1>2, <1>4, <2>2 DEF ProcessInv
  <2> QED
    BY <1>2, <1>3, <2>1, <2>2, <2>3, ProcessStep
<1> QED
  BY <1>5, <1>6

LEMMA FailStep ==
    ASSUME IInv, NEW r \in Replica, FailAction(r)
    PROVE  IInv'
<1> DEFINE p == rep[r]
           failed == [p EXCEPT !.active = NoAction, !.done = With(@, p.active.id, "Failed")]
<1>1. IsProcess(p) /\ p.gen \in Nat /\ ProcessInv(op, r, p)
  BY DEF IInv, ShapeInv
<1>2. rep' = [rep EXCEPT ![r] = failed] /\ UNCHANGED <<op, net, ran, crowned>>
  BY DEF FailAction, IInv, ShapeInv, histVars, IsRecord
<1>3. /\ IsProcess(failed) /\ failed.gen = p.gen /\ failed.active = NoAction
      /\ failed.done = With(p.done, p.active.id, "Failed")
  BY <1>1 DEF IsProcess, IsRecord, ProcessFields
<1> HIDE DEF failed
<1>4. /\ DOMAIN failed.done = DOMAIN p.done \cup {p.active.id}
      /\ \A id \in DOMAIN failed.done : failed.done[id] \in {p.done[id], "Failed"}
      /\ \A id \in DOMAIN failed.done : failed.done[id] # "Failed" => id \in DOMAIN p.done
  BY <1>3 DEF With
<1>5. ProcessInv(op, r, failed)
  BY <1>1, <1>3, <1>4 DEF ProcessInv
<1> QED
  BY <1>1, <1>2, <1>3, <1>4, <1>5, ProcessStep

\* The effect of an action enters the history at the latest when it enters the
\* record, so it was in neither before.
LEMMA CompleteStep ==
    ASSUME IInv, NEW r \in Replica, CompleteAction(r)
    PROVE  IInv'
<1> DEFINE p == rep[r]
           a == p.active
           id == a.id
           entry == <<r, p.inst, p.gen, id>>
<1>1. PICK o \in OutcomesOf(p, a) :
         rep' = [rep EXCEPT ![r] = [o.process EXCEPT !.active = NoAction,
                                                     !.done = With(@, id, o.result)]]
  BY DEF CompleteAction
<1> DEFINE q == [o.process EXCEPT !.active = NoAction, !.done = With(@, id, o.result)]
<1>2. /\ a # NoAction /\ UNCHANGED <<op, net>>
      /\ ran' = ran (+) SetToBag({entry})
      /\ crowned' = IF a.kind = "PromoteCandidate" THEN crowned \cup {<<a.epoch, r>>} ELSE crowned
  BY DEF CompleteAction
<1>3. IsProcess(p) /\ p.gen \in Nat /\ ProcessInv(op, r, p)
  BY DEF IInv, ShapeInv
<1>4. /\ IsProcess(o.process)
      /\ o.process.inst = p.inst /\ o.process.gen = p.gen /\ o.process.done = p.done
      /\ o.result = "StateChanged" => a.kind = "OnDataLoss"
  BY <1>3, OutcomeKeeps
<1>5. /\ IsProcess(q) /\ q.gen = p.gen /\ q.active = NoAction
      /\ q.done = With(p.done, id, o.result)
  BY <1>4 DEF IsProcess, IsRecord, ProcessFields
<1>6. id \notin DOMAIN p.done /\ id.kind = a.kind /\ RequestInv(op, a) /\ a.to = r
  BY <1>2, <1>3 DEF ProcessInv, RequestInv
<1> HIDE DEF q
<1>7. /\ DOMAIN q.done = DOMAIN p.done \cup {id}
      /\ q.done[id] = o.result
      /\ \A x \in DOMAIN p.done : q.done[x] = p.done[x]
  BY <1>5, <1>6 DEF With
<1>8. ShapeInv' /\ rep'[r] = q /\ \A s \in Replica \ {r} : rep'[s] = rep[s]
  <2>1. IsOperation(op)'
    BY <1>2 DEF IInv, ShapeInv
  <2> QED
    BY <1>1, <1>3, <1>5, <2>1, UpdateOne DEF q, IInv
<1>9. entry \notin DOMAIN ran
  <2>1. entry[1] = r /\ entry[3] = p.gen /\ entry[4] = id
    OBVIOUS
  <2> QED
    BY <2>1, <1>6 DEF IInv, RanInv
<1>10. /\ DOMAIN ran' = DOMAIN ran \cup {entry}
       /\ ran'[entry] = 1
       /\ \A x \in DOMAIN ran : ran'[x] = ran[x]
  <2>1. \A x \in DOMAIN ran : ran[x] = 1
    BY DEF IInv, RanInv
  <2> HIDE DEF entry
  <2> QED
    BY <1>2, <1>9, <2>1 DEF (+), SetToBag
<1>11. RanInv'
  <2> SUFFICES ASSUME NEW x \in DOMAIN ran'
               PROVE  /\ ran'[x] = 1
                      /\ x[1] \in Replica /\ x[3] \in Nat /\ x[3] <= rep'[x[1]].gen
                      /\ x[3] = rep'[x[1]].gen => x[4] \in DOMAIN rep'[x[1]].done
    BY DEF RanInv
  <2>1. CASE x = entry
    <3>1. x[1] = r /\ x[3] = p.gen /\ x[4] = id
      BY <2>1
    <3> QED
      BY <2>1, <3>1, <1>3, <1>5, <1>7, <1>8, <1>10
  <2>2. CASE x # entry
    <3>1. /\ ran'[x] = 1
          /\ x[1] \in Replica /\ x[3] \in Nat /\ x[3] <= rep[x[1]].gen
          /\ x[3] = rep[x[1]].gen => x[4] \in DOMAIN rep[x[1]].done
      BY <2>2, <1>10 DEF IInv, RanInv
    <3> QED
      BY <3>1, <1>5, <1>7, <1>8
  <2> QED
    BY <2>1, <2>2
<1>12. (\A s \in Replica : ProcessInv(op, s, rep[s]))'
  <2>1. ProcessInv(op, r, q)
    BY <1>3, <1>4, <1>5, <1>6, <1>7 DEF ProcessInv
  <2>2. \A s \in Replica : ProcessInv(op, s, rep'[s])
    BY <2>1, <1>8 DEF IInv
  <2> QED
    BY <2>2, <1>2
<1>13. CrownInv(op)'
  BY <1>2, <1>6 DEF IInv, CrownInv, RequestInv
<1>14. (\A x \in net : RequestInv(op, x))' /\ OperationInv(op)'
  BY <1>2 DEF IInv
<1> QED
  BY <1>8, <1>11, <1>12, <1>13, <1>14 DEF IInv

\* Only the process or the label of a replica changes.
LEMMA FaultStep ==
    ASSUME IInv, NEW r \in Replica, Fault(r) \/ Reconnect(r) \/ (PatchLabel /\ r = op.pending.target)
    PROVE  IInv'
<1> DEFINE p == rep[r]
<1>1. IsProcess(p) /\ p.gen \in Nat /\ ProcessInv(op, r, p)
  BY DEF IInv, ShapeInv
<1>2. UNCHANGED <<op, net, ran, crowned>>
  BY DEF Fault, Disconnect, ReplacePod, RestartContainer, Reconnect, PatchLabel, histVars
<1>3. ASSUME NEW q, IsProcess(q), q.gen = p.gen, q.active = p.active, q.done = p.done,
             rep' = [rep EXCEPT ![r] = q]
      PROVE  IInv'
  <2>1. ProcessInv(op, r, q)
    BY <1>1, <1>3 DEF ProcessInv
  <2> QED
    BY <1>1, <1>2, <1>3, <2>1, ProcessStep
<1>4. ASSUME NEW q, IsProcess(q), q.gen = p.gen + 1, q.active = NoAction, q.done = << >>,
             rep' = [rep EXCEPT ![r] = q]
      PROVE  IInv'
  <2>1. ProcessInv(op, r, q)
    BY <1>4 DEF ProcessInv
  <2>2. q.gen \in Nat /\ q.gen > rep[r].gen
    BY <1>1, <1>4
  <2> QED
    BY <1>2, <1>4, <2>1, <2>2, ProcessStep
<1>5. CASE Disconnect(r)
  <2> DEFINE q == [p EXCEPT !.up = FALSE]
  <2>1. rep' = [rep EXCEPT ![r] = q]
    BY <1>5 DEF Disconnect
  <2>2. IsProcess(q) /\ q.gen = p.gen /\ q.active = p.active /\ q.done = p.done
    BY <1>1 DEF IsProcess, IsRecord, ProcessFields
  <2> QED
    BY <1>3, <2>1, <2>2
<1>6. CASE Reconnect(r)
  <2> DEFINE q == [p EXCEPT !.up = TRUE]
  <2>1. rep' = [rep EXCEPT ![r] = q]
    BY <1>6 DEF Reconnect
  <2>2. IsProcess(q) /\ q.gen = p.gen /\ q.active = p.active /\ q.done = p.done
    BY <1>1 DEF IsProcess, IsRecord, ProcessFields
  <2> QED
    BY <1>3, <2>1, <2>2
<1>7. CASE PatchLabel /\ r = op.pending.target
  <2> DEFINE q == [p EXCEPT !.label = LabelOf(r)]
  <2>1. rep' = [rep EXCEPT ![r] = q]
    BY <1>7 DEF PatchLabel
  <2>2. IsProcess(q) /\ q.gen = p.gen /\ q.active = p.active /\ q.done = p.done
    BY <1>1 DEF IsProcess, IsRecord, ProcessFields
  <2> QED
    BY <1>3, <2>1, <2>2
<1>8. CASE RestartContainer(r)
  <2>1. rep' = [rep EXCEPT ![r] = BlankProcess(p)]
    BY <1>8 DEF RestartContainer
  <2> QED
    BY <1>1, <1>4, <2>1, BlankKeeps
<1>9. CASE ReplacePod(r)
  <2> DEFINE q == [BlankProcess(p) EXCEPT !.inst = @ + 1]
  <2>1. rep' = [rep EXCEPT ![r] = q]
    BY <1>9 DEF ReplacePod
  <2>2. IsProcess(q) /\ q.gen = p.gen + 1 /\ q.active = NoAction /\ q.done = << >>
    BY <1>1, BlankKeeps DEF IsProcess, IsRecord, ProcessFields
  <2> QED
    BY <1>4, <2>1, <2>2
<1> QED
  BY <1>5, <1>6, <1>7, <1>8, <1>9 DEF Fault

-----------------------------------------------------------------------------
(* What the operator persists.                                             *)

\* A step of the operation: an elected candidate stays the candidate, in the
\* same epoch.
OperationNext(n) ==
    /\ IsOperation(n)
    /\ OperationInv(n)
    /\ Elected(op) => Elected(n) /\ n.primary = op.primary /\ n.epoch = op.epoch

LEMMA OperationStep ==
    ASSUME IInv, OperationNext(op'), UNCHANGED <<rep, net, ran, crowned>>
    PROVE  IInv'
<1>1. ShapeInv' /\ OperationInv(op)' /\ RanInv'
  BY DEF IInv, ShapeInv, OperationNext, RanInv
<1>2. \A q : RequestInv(op, q) => RequestInv(op', q)
  BY DEF OperationNext, RequestInv
<1>3. (\A q \in net : RequestInv(op, q))'
  BY <1>2 DEF IInv
<1>4. \A r \in Replica : ProcessInv(op', r, rep[r])
  BY <1>2 DEF IInv, ProcessInv
<1>5. (\A r \in Replica : ProcessInv(op, r, rep[r]))'
  BY <1>4
<1>6. CrownInv(op)'
  BY DEF IInv, CrownInv, OperationNext
<1> QED
  BY <1>1, <1>3, <1>5, <1>6 DEF IInv

\* The operator's steps other than a dispatch and a label only persist.
LEMMA OperatorFrame ==
    ASSUME Reconcile \/ DeadlinePasses, ~DispatchAction, ~PatchLabel
    PROVE  UNCHANGED <<rep, net, acked, ran, crowned>>
<1>1. \A n : Persist(n) => UNCHANGED <<rep, net, acked, ran, crowned>>
  BY DEF Persist, histVars
<1>2. CASE AdoptReplacement \/ RemoveReplaced \/ RejectReplacement
  BY <1>1, <1>2 DEF AdoptReplacement, RemoveReplaced, RejectReplacement
<1>3. CASE CollectObservation \/ CollectDone \/ ProbeWaiting
  BY <1>1, <1>3 DEF CollectObservation, CollectDone, ProbeWaiting
<1>4. CASE Assess
  BY <1>1, <1>4, Zenon DEF Assess, AssessInput
<1>5. CASE PersistConfigurationEpoch \/ PersistDataLossEpoch \/ RefreshCandidate \/ Attest
  BY <1>1, <1>5 DEF PersistConfigurationEpoch, PersistDataLossEpoch, RefreshCandidate, Attest
<1>6. CASE CommitPromotion \/ CompleteFailover
  BY <1>1, <1>6 DEF CommitPromotion, CompleteFailover, histVars
<1>7. CASE BeginAction \/ ActionCompleted \/ DataLossChangedState
  BY <1>1, <1>7 DEF BeginAction, ActionCompleted, DataLossChangedState
<1>8. CASE EndPhase
  BY <1>1, <1>8, Zenon DEF EndPhase
<1>9. CASE ActionFailed \/ AuthorizeDispatch \/ PlanDispatch \/ SkipStartingRecord \/ DeadlinePasses
  BY <1>1, <1>9 DEF ActionFailed, AuthorizeDispatch, PlanDispatch, SkipStartingRecord, DeadlinePasses
<1>10. CASE BeginLabel \/ LabelDone \/ AuthorizeLabel
  BY <1>1, <1>10 DEF BeginLabel, LabelDone, AuthorizeLabel
<1> QED
  BY <1>2, <1>3, <1>4, <1>5, <1>6, <1>7, <1>8, <1>9, <1>10 DEF Reconcile

LEMMA OperationFacts ==
    ASSUME IInv
    PROVE  /\ IsRecord(op, OperationFields) /\ OperationInv(op)
           /\ DOMAIN op.current \subseteq Replica /\ op.cfgIndex \in Nat
           /\ op.phase \notin DOMAIN ActionKind \cup {"LabelMembers"} => op.pending = NoAction
<1>1. IsRecord(op, OperationFields) /\ OperationInv(op)
  BY DEF IInv, ShapeInv, IsOperation
<1>2. op.pending # NoAction => op.phase \in DOMAIN ActionKind \cup {"LabelMembers"}
  BY <1>1 DEF OperationInv, PendingInv
<1> QED
  BY <1>1, <1>2 DEF OperationInv

LEMMA ActionPhases ==
    /\ DOMAIN ActionKind =
         {"RecordStartingConfiguration", "ApplyCandidateEpoch", "NotifyDataLoss",
          "PromoteCandidate", "DistributeEpoch", "CatchUpConfiguration",
          "WaitForCatchUpQuorum", "CurrentConfiguration", "RecordElectionConfiguration"}
    /\ \A phase \in DOMAIN ActionKind :
         /\ ActionKind[phase] = "PromoteCandidate" => phase = "PromoteCandidate"
         /\ ActionKind[phase] = "OnDataLoss" => phase = "NotifyDataLoss"
         /\ ActionKind[phase] = "RecordStartingConfiguration" =>
               phase = "RecordStartingConfiguration"
         /\ ActionKind[phase] # "LabelMember"
BY DEF ActionKind

LEMMA WithPhaseFields ==
    ASSUME NEW o, IsRecord(o, OperationFields), NEW phase
    PROVE  LET n == WithPhase(o, phase)
           IN  /\ IsRecord(n, OperationFields)
               /\ n.phase = phase /\ n.pending = NoAction
               /\ \A f \in OperationFields \ {"phase", "pending"} : n[f] = o[f]
BY DEF WithPhase, IsRecord, OperationFields

\* The operation gives up, keeping who was elected.
LEMMA PoisonStep ==
    ASSUME IInv, NEW n, IsRecord(n, OperationFields), n.phase = "Poisoned", n.pending = NoAction,
           n.confirmed = op.confirmed, n.promoted = op.promoted, n.primary = op.primary,
           n.epoch = op.epoch, n.current = op.current, n.cfgIndex \in Nat
    PROVE  OperationNext(n)
BY OperationFacts DEF OperationNext, IsOperation, OperationInv, Elected, Early, Undecided

LEMMA PoisonNext ==
    ASSUME IInv
    PROVE  OperationNext(Poison(op))
<1>1. IsRecord(op, OperationFields) /\ op.cfgIndex \in Nat
  BY OperationFacts
<1> DEFINE n == Poison(op)
<1>2. /\ IsRecord(n, OperationFields) /\ n.phase = "Poisoned" /\ n.pending = NoAction
      /\ n.confirmed = op.confirmed /\ n.promoted = op.promoted /\ n.primary = op.primary
      /\ n.epoch = op.epoch /\ n.current = op.current /\ n.cfgIndex \in Nat
  BY <1>1 DEF Poison, IsRecord, OperationFields
<1> HIDE DEF n
<1> QED
  BY <1>2, PoisonStep DEF n

\* The operation enters a phase without an action.
LEMMA PhaseStep ==
    ASSUME IInv, NEW n, IsRecord(n, OperationFields), n.pending = NoAction,
           n.confirmed = op.confirmed, n.dataLoss = op.dataLoss, n.primary = op.primary,
           n.epoch = op.epoch, DOMAIN n.current \subseteq Replica, n.cfgIndex \in Nat,
           n.phase \notin Undecided \cup {"Poisoned"} \/ n.promoted => op.confirmed,
           n.phase = "NotifyDataLoss" => op.dataLoss,
           Elected(op) => n.phase \notin Early
    PROVE  OperationNext(n)
BY DEF OperationNext, IsOperation, OperationInv, Elected

LEMMA ReplacementStep ==
    ASSUME IInv, AdoptReplacement \/ RemoveReplaced \/ RejectReplacement
    PROVE  OperationNext(op')
<1> USE OperationFacts
<1>1. CASE AdoptReplacement
  <2> DEFINE m == Min(Drifted)
             o == WithPhase(op, "RecordStartingConfiguration")
  <2>1. /\ ~op.confirmed
        /\ op' = [o EXCEPT !.current[m] = [inst |-> rep[m].inst, dropped |-> FALSE, known |-> Unknown],
                           !.obs = Without(@, m), !.unavailable = @ \ {m},
                           !.cfgIndex = 0, !.waitIndex = 0]
    BY <1>1 DEF AdoptReplacement, Persist
  <2>2. /\ IsRecord(o, OperationFields)
        /\ o.phase = "RecordStartingConfiguration" /\ o.pending = NoAction
        /\ \A f \in OperationFields \ {"phase", "pending"} : o[f] = op[f]
    BY WithPhaseFields
  <2> HIDE DEF o, m
  <2>3. /\ IsRecord(op', OperationFields) /\ op'.phase = o.phase /\ op'.pending = NoAction
        /\ op'.confirmed = o.confirmed /\ op'.promoted = o.promoted /\ op'.dataLoss = o.dataLoss
        /\ op'.primary = o.primary /\ op'.epoch = o.epoch
        /\ DOMAIN op'.current \subseteq DOMAIN o.current /\ op'.cfgIndex = 0
    BY <2>1, <2>2 DEF IsRecord, OperationFields, Without
  <2> QED
    <3>1. o.current = op.current /\ o.confirmed = op.confirmed /\ o.promoted = op.promoted
          /\ o.dataLoss = op.dataLoss /\ o.primary = op.primary /\ o.epoch = op.epoch
      BY <2>2 DEF OperationFields
    <3>2. ~Elected(op) /\ ~op.promoted /\ o.phase \in Undecided
      BY <2>1, <2>2 DEF Elected, OperationInv, Undecided
    <3> QED
      BY <2>2, <2>3, <3>1, <3>2, PhaseStep DEF Undecided
<1>2. CASE RemoveReplaced
  <2> DEFINE m == Min(Drifted)
             o == WithPhase(op, "CatchUpConfiguration")
  <2>1. /\ op.promoted
        /\ op' = [o EXCEPT !.insts = Without(@, m), !.current = Without(@, m),
                           !.obs = Without(@, m), !.attested = Without(@, m),
                           !.secIndex = 0, !.cfgIndex = 0, !.labelIndex = 0]
    BY <1>2 DEF RemoveReplaced, Persist
  <2>2. /\ IsRecord(o, OperationFields)
        /\ o.phase = "CatchUpConfiguration" /\ o.pending = NoAction
        /\ \A f \in OperationFields \ {"phase", "pending"} : o[f] = op[f]
    BY WithPhaseFields
  <2> HIDE DEF o, m
  <2>3. /\ IsRecord(op', OperationFields) /\ op'.phase = o.phase /\ op'.pending = NoAction
        /\ op'.confirmed = o.confirmed /\ op'.promoted = o.promoted /\ op'.dataLoss = o.dataLoss
        /\ op'.primary = o.primary /\ op'.epoch = o.epoch
        /\ DOMAIN op'.current \subseteq DOMAIN o.current /\ op'.cfgIndex = 0
    BY <2>1, <2>2 DEF IsRecord, OperationFields, Without
  <2> QED
    <3>1. o.current = op.current /\ o.confirmed = op.confirmed /\ o.promoted = op.promoted
          /\ o.dataLoss = op.dataLoss /\ o.primary = op.primary /\ o.epoch = op.epoch
      BY <2>2 DEF OperationFields
    <3>2. op.confirmed /\ o.phase \notin Early
      BY <2>1, <2>2 DEF OperationInv, Early, Undecided
    <3>3. /\ op'.confirmed = op.confirmed /\ op'.dataLoss = op.dataLoss
          /\ op'.primary = op.primary /\ op'.epoch = op.epoch
          /\ op'.phase # "NotifyDataLoss" /\ op'.phase \notin Early
          /\ DOMAIN op'.current \subseteq Replica /\ op'.cfgIndex \in Nat
      BY <2>2, <2>3, <3>1, <3>2
    <3> QED
      BY <2>3, <3>2, <3>3, PhaseStep
<1>3. CASE RejectReplacement
  BY <1>3, PoisonNext DEF RejectReplacement, Persist
<1> QED
  BY <1>1, <1>2, <1>3

LEMMA ObservationFields ==
    ASSUME IInv, NEW m
    PROVE  LET n == WithObservation(m)
           IN  /\ IsRecord(n, OperationFields)
               /\ n.phase \in {"Collect", "Assess"}
               /\ \A f \in OperationFields \ {"phase", "obs", "unavailable"} : n[f] = op[f]
<1>1. IsRecord(op, OperationFields)
  BY OperationFacts
<1> DEFINE next == [op EXCEPT !.obs = With(@, m, Observe(m, StartingConfig)), !.unavailable = @ \ {m}]
<1>2. /\ IsRecord(next, OperationFields)
      /\ \A f \in OperationFields \ {"obs", "unavailable"} : next[f] = op[f]
  BY <1>1 DEF IsRecord, OperationFields
<1>3. WithObservation(m) = IF op.phase = "Collect" /\ ~CollectionComplete(next) THEN next
                           ELSE [next EXCEPT !.phase = "Assess"]
  BY DEF WithObservation
<1> HIDE DEF next
<1>4. op.phase = next.phase
  BY <1>2 DEF OperationFields
<1> QED
  BY <1>2, <1>3, <1>4 DEF IsRecord, OperationFields

LEMMA CollectStep ==
    ASSUME IInv, CollectObservation \/ CollectDone \/ ProbeWaiting
    PROVE  OperationNext(op')
<1> USE OperationFacts
<1>1. /\ op.phase \in {"Collect", "WaitForBestCandidate", "WaitForReadQuorum"}
      /\ op.phase \in Early
      /\ op.pending = NoAction
  <2>1. op.phase \in {"Collect", "WaitForBestCandidate", "WaitForReadQuorum"}
    BY DEF CollectObservation, CollectDone, ProbeWaiting, Waiting
  <2> QED
    BY <2>1, ActionPhases DEF Early, Undecided
<1>2. ASSUME NEW n, IsRecord(n, OperationFields), n.phase \in Undecided, n.pending = NoAction,
             n.confirmed = op.confirmed, n.promoted = op.promoted, n.dataLoss = op.dataLoss,
             n.primary = op.primary, n.epoch = op.epoch, n.current = op.current, n.cfgIndex \in Nat
      PROVE  OperationNext(n)
  BY <1>1, <1>2, PhaseStep DEF Elected, Early, Undecided, OperationInv
<1>3. CASE CollectObservation
  <2>1. \/ \E m : op' = WithObservation(m)
        \/ \E m : op' = [op EXCEPT !.unavailable = @ \cup {m}]
    BY <1>3 DEF CollectObservation, Persist
  <2>2. ASSUME NEW m, op' = WithObservation(m)
        PROVE  OperationNext(op')
    <3>1. /\ IsRecord(op', OperationFields) /\ op'.phase \in {"Collect", "Assess"}
          /\ \A f \in OperationFields \ {"phase", "obs", "unavailable"} : op'[f] = op[f]
      BY <2>2, ObservationFields
    <3> QED
      BY <1>1, <1>2, <3>1 DEF Early, Undecided, OperationFields
  <2>3. ASSUME NEW m, op' = [op EXCEPT !.unavailable = @ \cup {m}]
        PROVE  OperationNext(op')
    <3>1. /\ IsRecord(op', OperationFields)
          /\ \A f \in OperationFields \ {"unavailable"} : op'[f] = op[f]
      BY <2>3 DEF IsRecord, OperationFields
    <3> QED
      BY <1>1, <1>2, <3>1 DEF Undecided, OperationFields
  <2> QED
    BY <2>1, <2>2, <2>3
<1>4. CASE CollectDone
  <2>1. op' = WithPhase(op, "Assess")
    BY <1>4 DEF CollectDone, Persist
  <2>2. /\ IsRecord(op', OperationFields) /\ op'.phase = "Assess" /\ op'.pending = NoAction
        /\ \A f \in OperationFields \ {"phase", "pending"} : op'[f] = op[f]
    BY <2>1, WithPhaseFields
  <2> QED
    BY <1>2, <2>2 DEF Early, Undecided, OperationFields
<1>5. CASE ProbeWaiting
  <2> DEFINE o == IF rep[WaitProbe].up THEN WithObservation(WaitProbe) ELSE op
  <2>1. op' = [o EXCEPT !.waitIndex = Rotated]
    BY <1>5 DEF ProbeWaiting, Persist
  <2>2. /\ IsRecord(o, OperationFields) /\ o.phase \in {"Collect", "Assess", op.phase}
        /\ \A f \in OperationFields \ {"phase", "obs", "unavailable"} : o[f] = op[f]
    BY ObservationFields
  <2> HIDE DEF o
  <2>3. /\ IsRecord(op', OperationFields) /\ op'.phase = o.phase
        /\ \A f \in OperationFields \ {"waitIndex"} : op'[f] = o[f]
    BY <2>1, <2>2 DEF IsRecord, OperationFields
  <2> QED
    BY <1>1, <1>2, <2>2, <2>3 DEF Early, Undecided, OperationFields
<1> QED
  BY <1>3, <1>4, <1>5

LEMMA AssessedInput == Assess => AssessInput(ElectionInput)
BY Zenon DEF Assess

\* The forms of an assessment's result, whatever the election decides.
LEMMA AssessForms ==
    ASSUME Assess
    PROVE  \/ op' = Poison(op)
           \/ op' = WithPhase(op, "WaitForBestCandidate")
           \/ op' = WithPhase(op, "WaitForReadQuorum")
           \/ \E candidate, insts, lost :
                 op' = [op EXCEPT !.phase = "PersistConfigurationEpoch", !.primary = candidate,
                                  !.insts = insts, !.confirmed = TRUE, !.dataLoss = lost]
<1> DEFINE d == Evaluate(ElectionInput)
           members == TargetMembers(ElectionInput, d.candidate)
           chosen == [op EXCEPT !.phase = "PersistConfigurationEpoch", !.primary = d.candidate,
                                !.insts = [m \in members |-> op.obs[m].inst],
                                !.confirmed = TRUE, !.dataLoss = (d.kind = "DataLossRequired")]
<1>1. CASE d.kind = "Error"
  BY <1>1, AssessedInput, Zenon DEF AssessInput, Persist
<1>2. CASE d.kind = "WaitForBestCandidate"
  BY <1>2, AssessedInput, Zenon DEF AssessInput, Persist
<1>3. CASE d.kind = "WaitForQuorum"
  BY <1>3, AssessedInput, Zenon DEF AssessInput, Persist
<1>4. CASE d.kind \notin {"Error", "WaitForBestCandidate", "WaitForQuorum"}
  <2>1. op' = IF Cardinality(members) < MinReplicas THEN Poison(op) ELSE chosen
    BY <1>4, AssessedInput, Zenon DEF AssessInput, Persist
  <2> QED
    BY <2>1, Zenon
<1> QED
  BY <1>1, <1>2, <1>3, <1>4

LEMMA AssessStep ==
    ASSUME IInv, Assess
    PROVE  OperationNext(op')
<1> USE OperationFacts
<1>1. op.phase = "Assess" /\ op.phase \in Early /\ op.pending = NoAction
  <2>1. op.phase = "Assess"
    BY DEF Assess
  <2> QED
    BY <2>1, ActionPhases DEF Early, Undecided
<1>2. ASSUME NEW phase \in Waiting, op' = WithPhase(op, phase)
      PROVE  OperationNext(op')
  <2>1. /\ IsRecord(op', OperationFields) /\ op'.phase = phase /\ op'.pending = NoAction
        /\ \A f \in OperationFields \ {"phase", "pending"} : op'[f] = op[f]
    BY <1>2, WithPhaseFields
  <2> QED
    BY <1>1, <2>1, PhaseStep DEF Early, Undecided, OperationFields, Elected, OperationInv, Waiting
<1>3. ASSUME NEW candidate, NEW insts, NEW lost,
             op' = [op EXCEPT !.phase = "PersistConfigurationEpoch", !.primary = candidate,
                              !.insts = insts, !.confirmed = TRUE, !.dataLoss = lost]
      PROVE  OperationNext(op')
  <2>1. /\ IsRecord(op', OperationFields) /\ op'.phase = "PersistConfigurationEpoch"
        /\ op'.confirmed = TRUE /\ op'.pending = NoAction /\ op'.current = op.current /\ op'.cfgIndex \in Nat
    BY <1>1, <1>3 DEF IsRecord, OperationFields
  <2> QED
    BY <1>1, <2>1 DEF OperationNext, IsOperation, OperationInv, Elected, Early, Undecided
<1> QED
  BY <1>2, <1>3, AssessForms, PoisonNext DEF Waiting

\* The steps that are persisted without a dispatch.
LEMMA EpochStep ==
    ASSUME IInv, PersistConfigurationEpoch \/ PersistDataLossEpoch
    PROVE  OperationNext(op')
<1> USE OperationFacts
<1>1. /\ op.phase \in {"PersistConfigurationEpoch", "PersistDataLossEpoch"}
      /\ op.phase \in Early /\ op.pending = NoAction
  <2>1. op.phase \in {"PersistConfigurationEpoch", "PersistDataLossEpoch"}
    BY DEF PersistConfigurationEpoch, PersistDataLossEpoch
  <2> QED
    BY <2>1, ActionPhases DEF Early, Undecided
<1>2. \E epoch, phase :
         /\ phase \in {"PersistDataLossEpoch", "ApplyCandidateEpoch"}
         /\ op' = [op EXCEPT !.epoch = epoch, !.phase = phase]
  BY DEF PersistConfigurationEpoch, PersistDataLossEpoch, Persist
<1>3. PICK epoch, phase :
         /\ phase \in {"PersistDataLossEpoch", "ApplyCandidateEpoch"}
         /\ op' = [op EXCEPT !.epoch = epoch, !.phase = phase]
  BY <1>2
<1>4. /\ IsRecord(op', OperationFields) /\ op'.phase = phase
      /\ op'.confirmed = op.confirmed /\ op'.promoted = op.promoted /\ op'.pending = NoAction
      /\ op'.current = op.current /\ op'.cfgIndex \in Nat
  BY <1>1, <1>3 DEF IsRecord, OperationFields
<1> QED
  BY <1>1, <1>3, <1>4 DEF OperationNext, IsOperation, OperationInv, Elected, Early, Undecided

LEMMA PersistedStep ==
    ASSUME IInv, RefreshCandidate \/ CommitPromotion \/ Attest \/ CompleteFailover
    PROVE  OperationNext(op')
<1> USE OperationFacts
<1>1. /\ op.phase \in {"RefreshCandidate", "CommitPromotion", "Attest"}
      /\ op.phase \notin Early /\ op.pending = NoAction /\ op.confirmed
  <2>1. op.phase \in {"RefreshCandidate", "CommitPromotion", "Attest"}
    BY DEF RefreshCandidate, CommitPromotion, Attest, CompleteFailover
  <2> QED
    BY <2>1, ActionPhases DEF Early, Undecided, OperationInv
<1>2. ASSUME NEW n, IsRecord(n, OperationFields), n.pending = NoAction,
             n.phase \notin Early, n.phase # "NotifyDataLoss",
             n.confirmed = op.confirmed, n.dataLoss = op.dataLoss, n.primary = op.primary,
             n.epoch = op.epoch, n.current = op.current, n.cfgIndex \in Nat
      PROVE  OperationNext(n)
  BY <1>1, <1>2, PhaseStep DEF OperationInv
<1>3. CASE RefreshCandidate
  <2> DEFINE o == WithObservation(op.primary)
             n == [o EXCEPT !.phase = "PromoteCandidate"]
  <2>1. op' = n \/ op' = Poison(op)
    BY <1>3 DEF RefreshCandidate, Persist
  <2>2. /\ IsRecord(o, OperationFields)
        /\ \A f \in OperationFields \ {"phase", "obs", "unavailable"} : o[f] = op[f]
    BY ObservationFields
  <2> HIDE DEF o
  <2>3. /\ IsRecord(n, OperationFields) /\ n.phase = "PromoteCandidate"
        /\ \A f \in OperationFields \ {"phase"} : n[f] = o[f]
    BY <2>2 DEF IsRecord, OperationFields
  <2> HIDE DEF n
  <2>4. OperationNext(n)
    BY <1>1, <1>2, <2>2, <2>3 DEF OperationFields, Early, Undecided
  <2> QED
    BY <2>1, <2>4, PoisonNext
<1>4. CASE CommitPromotion
  <2> DEFINE o == WithPhase(op, "DistributeEpoch")
  <2>1. op' = [o EXCEPT !.promoted = TRUE, !.secIndex = 0]
    BY <1>4 DEF CommitPromotion
  <2>2. /\ IsRecord(o, OperationFields) /\ o.phase = "DistributeEpoch" /\ o.pending = NoAction
        /\ \A f \in OperationFields \ {"phase", "pending"} : o[f] = op[f]
    BY WithPhaseFields
  <2> HIDE DEF o
  <2>3. /\ IsRecord(op', OperationFields)
        /\ \A f \in OperationFields \ {"promoted", "secIndex"} : op'[f] = o[f]
    BY <2>1, <2>2 DEF IsRecord, OperationFields
  <2> QED
    BY <1>2, <2>2, <2>3 DEF OperationFields, Early, Undecided
<1>5. CASE Attest
  <2>1. PICK m : op' = [op EXCEPT !.attested = With(@, m, Observe(m, TargetConfig)),
                                  !.unavailable = @ \ {m}]
    BY <1>5 DEF Attest, Persist
  <2>2. /\ IsRecord(op', OperationFields)
        /\ \A f \in OperationFields \ {"attested", "unavailable"} : op'[f] = op[f]
    BY <2>1 DEF IsRecord, OperationFields
  <2>3. op.phase = "Attest"
    BY <1>5 DEF Attest
  <2> QED
    BY <1>1, <1>2, <2>2, <2>3 DEF OperationFields
<1>6. CASE CompleteFailover
  <2>1. op' = WithPhase(op, "Completed") \/ op' = Poison(op)
    BY <1>6 DEF CompleteFailover, Persist
  <2> DEFINE n == WithPhase(op, "Completed")
  <2>2. /\ IsRecord(n, OperationFields) /\ n.phase = "Completed" /\ n.pending = NoAction
        /\ \A f \in OperationFields \ {"phase", "pending"} : n[f] = op[f]
    BY WithPhaseFields
  <2> HIDE DEF n
  <2>3. OperationNext(n)
    BY <1>2, <2>2 DEF OperationFields, Early, Undecided
  <2> QED
    BY <2>1, <2>3, PoisonNext DEF n
<1> QED
  BY <1>3, <1>4, <1>5, <1>6

-----------------------------------------------------------------------------
(* The actions of a phase.                                                 *)

\* Only the pending action changes.
LEMMA PendingStep ==
    ASSUME IInv, NEW n, IsRecord(n, OperationFields), IsRecord(n.pending, PendingFields),
           n.phase = op.phase, n.confirmed = op.confirmed, n.dataLoss = op.dataLoss,
           n.promoted = op.promoted, n.primary = op.primary, n.epoch = op.epoch,
           n.current = op.current, n.cfgIndex \in Nat, PendingInv(op, n.pending)
    PROVE  OperationNext(n)
BY OperationFacts DEF OperationNext, IsOperation, OperationInv, Elected, PendingInv

\* Nothing but positions changes, and the action is over.
LEMMA PositionStep ==
    ASSUME IInv, NEW n, IsRecord(n, OperationFields), n.pending = NoAction,
           n.phase = op.phase, n.confirmed = op.confirmed, n.dataLoss = op.dataLoss,
           n.promoted = op.promoted, n.primary = op.primary, n.epoch = op.epoch,
           n.current = op.current, n.cfgIndex \in Nat
    PROVE  OperationNext(n)
BY OperationFacts DEF OperationNext, IsOperation, OperationInv, Elected

\* The operator notes its authorization, its evidence or a passed deadline.
LEMMA PendingField ==
    ASSUME IInv, op.pending # NoAction, NEW v,
           \/ op' = [op EXCEPT !.pending.authorized = v]
           \/ op' = [op EXCEPT !.pending.evidence = v]
           \/ op' = [op EXCEPT !.pending.late = v]
    PROVE  OperationNext(op')
<1> DEFINE a == op'.pending
<1>1. IsRecord(op.pending, PendingFields) /\ PendingInv(op, op.pending)
  BY DEF IInv, ShapeInv, IsOperation, OperationInv
<1>2. /\ IsRecord(op', OperationFields)
      /\ \A f \in OperationFields \ {"pending"} : op'[f] = op[f]
      /\ \/ a = [op.pending EXCEPT !.authorized = v]
         \/ a = [op.pending EXCEPT !.evidence = v]
         \/ a = [op.pending EXCEPT !.late = v]
  BY OperationFacts DEF IsRecord, OperationFields
<1>3. /\ IsRecord(a, PendingFields)
      /\ a.kind = op.pending.kind /\ a.id = op.pending.id
      /\ a.target = op.pending.target /\ a.epoch = op.pending.epoch
  BY <1>1, <1>2 DEF IsRecord, PendingFields
<1>4. PendingInv(op, a)
  BY <1>1, <1>3 DEF PendingInv
<1> QED
  BY <1>2, <1>3, <1>4, PendingStep, OperationFacts DEF OperationFields

\* The recording addresses the members that are not dropped.
LEMMA RecordingTarget ==
    ASSUME IInv, op.phase = "RecordStartingConfiguration", Index < Len(Targets)
    PROVE  Targets[Index + 1] \in Replica
<1>1. Targets = InOrder(Configured) /\ Index = op.cfgIndex
  BY Zenon DEF Targets, Index
<1>2. Configured \subseteq Replica
  BY OperationFacts DEF Configured, OperationInv
<1>3. Configured \in SUBSET Nat /\ IsFiniteSet(Configured)
  BY <1>2, ReplicaAssumption, FS_Subset
<1>4. op.cfgIndex \in Nat
  BY OperationFacts DEF OperationInv
<1>5. Len(Targets) = Cardinality(Configured) /\ Cardinality(Configured) \in Nat
  BY <1>1, <1>3, FS_CardinalityType DEF InOrder
<1>6. op.cfgIndex + 1 \in 1..Cardinality(Configured)
  BY <1>1, <1>4, <1>5
<1> QED
  BY <1>1, <1>2, <1>3, <1>6, InOrderIn

LEMMA PromoteTarget ==
    ASSUME op.phase = "PromoteCandidate"
    PROVE  Targets = <<op.primary>> /\ Index = 0
BY Zenon DEF Targets, Index

LEMMA MadePending ==
    ASSUME NEW kind, NEW m
    PROVE  LET a == MakePending(kind, m)
           IN  /\ IsRecord(a, PendingFields)
               /\ a.kind = kind /\ a.target = m /\ a.epoch = op.epoch /\ a.id.kind = kind
BY DEF MakePending, IsRecord, PendingFields

LEMMA BeginStep ==
    ASSUME IInv, BeginAction
    PROVE  OperationNext(op')
<1> DEFINE a == MakePending(ActionKind[op.phase], Targets[Index + 1])
<1>1. op' = [op EXCEPT !.pending = a] /\ op.phase \in DOMAIN ActionKind
  BY DEF BeginAction, Persist
<1>2. /\ IsRecord(a, PendingFields)
      /\ a.kind = ActionKind[op.phase] /\ a.target = Targets[Index + 1]
      /\ a.epoch = op.epoch /\ a.id.kind = a.kind
  BY MadePending
<1> HIDE DEF a
<1>3. a.kind = "PromoteCandidate" => a.target = op.primary
  <2> SUFFICES ASSUME a.kind = "PromoteCandidate" PROVE a.target = op.primary
    OBVIOUS
  <2>1. op.phase = "PromoteCandidate"
    BY <1>1, <1>2, ActionPhases
  <2>2. Targets = <<op.primary>> /\ Index + 1 = 1
    BY <2>1, PromoteTarget
  <2> QED
    BY <1>2, <2>2
<1>4. PendingInv(op, a)
  <2>1. a.kind = "RecordStartingConfiguration" => a.target \in Replica
    BY <1>1, <1>2, ActionPhases, RecordingTarget DEF BeginAction
  <2> QED
    BY <1>1, <1>2, <1>3, <2>1 DEF PendingInv
<1>5. /\ IsRecord(op', OperationFields) /\ op'.pending = a
      /\ \A f \in OperationFields \ {"pending"} : op'[f] = op[f]
  BY <1>1, OperationFacts DEF IsRecord, OperationFields
<1> QED
  BY <1>2, <1>4, <1>5, PendingStep, OperationFacts DEF OperationFields

LEMMA LabelStep ==
    ASSUME IInv, BeginLabel \/ LabelDone \/ AuthorizeLabel
    PROVE  OperationNext(op')
<1> USE OperationFacts
<1>1. op.phase = "LabelMembers" /\ op.phase \notin Early /\ op.confirmed
  <2>1. op.phase = "LabelMembers"
    BY DEF BeginLabel, LabelDone, AuthorizeLabel
  <2> QED
    BY <2>1 DEF Early, Undecided, OperationInv
<1>2. CASE BeginLabel
  <2> DEFINE n == WithPhase(op, "Attest")
             a == MakePending("LabelMember", LabelTargets[op.labelIndex + 1])
  <2>1. op' = n \/ op' = [op EXCEPT !.pending = a]
    BY <1>2 DEF BeginLabel, Persist
  <2>2. OperationNext(n)
    <3>1. /\ IsRecord(n, OperationFields) /\ n.phase = "Attest" /\ n.pending = NoAction
          /\ \A f \in OperationFields \ {"phase", "pending"} : n[f] = op[f]
      BY WithPhaseFields
    <3> HIDE DEF n
    <3> QED
      BY <1>1, <3>1, PhaseStep DEF OperationFields, Early, Undecided, OperationInv
  <2>3. CASE op' = [op EXCEPT !.pending = a]
    <3>1. IsRecord(a, PendingFields) /\ a.kind = "LabelMember" /\ a.id.kind = a.kind
      BY MadePending
    <3> HIDE DEF a
    <3>2. PendingInv(op, a)
      BY <1>1, <3>1 DEF PendingInv
    <3>3. /\ IsRecord(op', OperationFields) /\ op'.pending = a
          /\ \A f \in OperationFields \ {"pending"} : op'[f] = op[f]
      BY <2>3 DEF IsRecord, OperationFields
    <3> QED
      BY <3>1, <3>2, <3>3, PendingStep DEF OperationFields
  <2> QED
    BY <2>1, <2>2, <2>3
<1>3. CASE LabelDone
  <2>1. op' = [op EXCEPT !.pending = NoAction, !.labelIndex = @ + 1]
    BY <1>3 DEF LabelDone, Persist
  <2>2. /\ IsRecord(op', OperationFields) /\ op'.pending = NoAction
        /\ \A f \in OperationFields \ {"pending", "labelIndex"} : op'[f] = op[f]
    BY <2>1 DEF IsRecord, OperationFields
  <2> QED
    BY <2>2, PositionStep DEF OperationFields
<1>4. CASE AuthorizeLabel
  <2>1. op.pending # NoAction /\ op' = [op EXCEPT !.pending.authorized = TRUE]
    BY <1>4 DEF AuthorizeLabel, Persist
  <2> QED
    BY <2>1, PendingField
<1> QED
  BY <1>2, <1>3, <1>4

\* A phase follows another: before the election only positions and the end of
\* the recording, after it only phases after it.
LEMMA NextPhaseFacts ==
    ASSUME op.phase \in DOMAIN ActionKind
    PROVE  /\ op.phase = "RecordStartingConfiguration" => NextPhase = op.phase
           /\ op.phase # "RecordStartingConfiguration" =>
                 NextPhase \in {"NotifyDataLoss", "PromoteCandidate", "CommitPromotion",
                                "DistributeEpoch", "WaitForCatchUpQuorum", "CurrentConfiguration",
                                "RecordElectionConfiguration"}
           /\ NextPhase = "NotifyDataLoss" => op.dataLoss
<1> USE ActionPhases
<1>1. CASE op.phase = "ApplyCandidateEpoch"
  <2>1. NextPhase = IF op.dataLoss THEN "NotifyDataLoss" ELSE "PromoteCandidate"
    BY <1>1, Zenon DEF NextPhase
  <2> QED
    BY <1>1, <2>1
<1>2. CASE op.phase = "NotifyDataLoss"
  <2>1. NextPhase = "PromoteCandidate"
    BY <1>2, Zenon DEF NextPhase
  <2> QED
    BY <1>2, <2>1
<1>3. CASE op.phase = "PromoteCandidate"
  <2>1. NextPhase = "CommitPromotion"
    BY <1>3, Zenon DEF NextPhase
  <2> QED
    BY <1>3, <2>1
<1>4. CASE op.phase = "CatchUpConfiguration"
  <2>1. NextPhase = "WaitForCatchUpQuorum"
    BY <1>4, Zenon DEF NextPhase
  <2> QED
    BY <1>4, <2>1
<1>5. CASE op.phase = "WaitForCatchUpQuorum"
  <2>1. NextPhase = "CurrentConfiguration"
    BY <1>5, Zenon DEF NextPhase
  <2> QED
    BY <1>5, <2>1
<1>6. CASE op.phase = "CurrentConfiguration"
  <2>1. NextPhase = "RecordElectionConfiguration"
    BY <1>6, Zenon DEF NextPhase
  <2> QED
    BY <1>6, <2>1
<1>7. CASE op.phase \in {"RecordStartingConfiguration", "DistributeEpoch",
                         "RecordElectionConfiguration"}
  <2>1. op.phase \notin {"ApplyCandidateEpoch", "NotifyDataLoss", "PromoteCandidate",
                         "CatchUpConfiguration", "WaitForCatchUpQuorum", "CurrentConfiguration"}
    BY <1>7
  <2>2. NextPhase = op.phase
    BY <2>1, Zenon DEF NextPhase
  <2> QED
    BY <1>7, <2>2
<1> QED
  BY <1>1, <1>2, <1>3, <1>4, <1>5, <1>6, <1>7

LEMMA EndStep ==
    ASSUME IInv, EndPhase
    PROVE  OperationNext(op')
<1> USE OperationFacts
<1>1. op.phase \in DOMAIN ActionKind
  BY DEF EndPhase
<1>2. \/ op' = [WithPhase(op, "Collect") EXCEPT !.cfgIndex = 0]
         /\ op.phase = "RecordStartingConfiguration"
      \/ op' = [WithPhase(op, "LabelMembers") EXCEPT !.cfgIndex = 0]
         /\ op.phase # "RecordStartingConfiguration"
      \/ op' = WithPhase(op, "CatchUpConfiguration")
         /\ op.phase # "RecordStartingConfiguration"
  <2>1. CASE op.phase = "RecordStartingConfiguration"
    BY <2>1, Zenon DEF EndPhase, Persist
  <2>2. CASE op.phase = "RecordElectionConfiguration"
    BY <2>2, Zenon DEF EndPhase, Persist
  <2>3. CASE op.phase \notin {"RecordStartingConfiguration", "RecordElectionConfiguration"}
    BY <2>3, Zenon DEF EndPhase, Persist
  <2> QED
    BY <2>1, <2>2, <2>3
<1>3. PICK phase \in {"Collect", "LabelMembers", "CatchUpConfiguration"} :
         /\ op' = [WithPhase(op, phase) EXCEPT !.cfgIndex = 0] \/ op' = WithPhase(op, phase)
         /\ phase = "Collect" <=> op.phase = "RecordStartingConfiguration"
  BY <1>2
<1> DEFINE o == WithPhase(op, phase)
<1>4. /\ IsRecord(o, OperationFields) /\ o.phase = phase /\ o.pending = NoAction
      /\ \A f \in OperationFields \ {"phase", "pending"} : o[f] = op[f]
  BY WithPhaseFields
<1>5. op' = [o EXCEPT !.cfgIndex = 0] \/ op' = o
  BY <1>3
<1> HIDE DEF o
<1>6. /\ IsRecord(op', OperationFields)
      /\ \A f \in OperationFields \ {"cfgIndex"} : op'[f] = o[f]
      /\ op'.cfgIndex \in {0, o.cfgIndex}
  BY <1>4, <1>5 DEF IsRecord, OperationFields
<1>7. op.phase # "RecordStartingConfiguration" => op.confirmed
  BY <1>1, ActionPhases DEF OperationInv, Undecided
<1>8. /\ op'.phase = phase /\ op'.pending = NoAction
      /\ op'.confirmed = op.confirmed /\ op'.promoted = op.promoted
      /\ op'.dataLoss = op.dataLoss /\ op'.primary = op.primary /\ op'.epoch = op.epoch
      /\ op'.current = op.current /\ op'.cfgIndex \in Nat
  BY <1>4, <1>6 DEF OperationFields
<1> QED
  BY <1>3, <1>6, <1>7, <1>8, PhaseStep DEF Early, Undecided, OperationInv, Elected

LEMMA CompletedStep ==
    ASSUME IInv, ActionCompleted
    PROVE  OperationNext(op')
<1> USE OperationFacts
<1>1. op.phase \in DOMAIN ActionKind
  BY DEF ActionCompleted, Probing, OperationInv, PendingInv
<1> DEFINE o == WithPhase(op, NextPhase)
<1>2. \E i \in Nat : \E j : op' = [o EXCEPT !.cfgIndex = i, !.secIndex = j]
  <2> DEFINE i == IF op.phase \in {"RecordStartingConfiguration", "RecordElectionConfiguration"}
                  THEN o.cfgIndex + 1 ELSE o.cfgIndex
             j == IF op.phase = "DistributeEpoch" THEN o.secIndex + 1 ELSE o.secIndex
  <2>1. op' = [o EXCEPT !.cfgIndex = i, !.secIndex = j]
    BY WithPhaseFields DEF ActionCompleted, Persist, IsRecord, OperationFields
  <2>2. o.cfgIndex = op.cfgIndex
    BY WithPhaseFields DEF OperationFields
  <2>3. i \in Nat
    BY <2>2
  <2> QED
    BY <2>1, <2>3
<1>3. /\ IsRecord(o, OperationFields) /\ o.phase = NextPhase /\ o.pending = NoAction
      /\ \A f \in OperationFields \ {"phase", "pending"} : o[f] = op[f]
  BY WithPhaseFields
<1> HIDE DEF o
<1>4. /\ IsRecord(op', OperationFields)
      /\ \A f \in OperationFields \ {"cfgIndex", "secIndex"} : op'[f] = o[f]
      /\ op'.cfgIndex \in Nat
  BY <1>2, <1>3 DEF IsRecord, OperationFields
<1>5. op.phase # "RecordStartingConfiguration" => op.confirmed
  BY <1>1, ActionPhases DEF OperationInv, Undecided
<1>6. /\ op'.phase = NextPhase /\ op'.pending = NoAction
      /\ op'.confirmed = op.confirmed /\ op'.promoted = op.promoted
      /\ op'.dataLoss = op.dataLoss /\ op'.primary = op.primary /\ op'.epoch = op.epoch
      /\ op'.current = op.current /\ op'.cfgIndex \in Nat
  BY <1>3, <1>4 DEF OperationFields
<1>7. CASE op.phase = "RecordStartingConfiguration"
  <2>1. op'.phase = op.phase
    BY <1>1, <1>6, <1>7, NextPhaseFacts
  <2> QED
    BY <1>4, <1>6, <2>1, PositionStep
<1>8. CASE op.phase # "RecordStartingConfiguration"
  <2>1. op.confirmed
    BY <1>5, <1>8
  <2>2. /\ op'.phase \in {"NotifyDataLoss", "PromoteCandidate", "CommitPromotion",
                          "DistributeEpoch", "WaitForCatchUpQuorum", "CurrentConfiguration",
                          "RecordElectionConfiguration"}
        /\ op'.phase = "NotifyDataLoss" => op.dataLoss
    BY <1>1, <1>6, <1>8, NextPhaseFacts
  <2>3. op'.phase \notin Early
    BY <2>2 DEF Early, Undecided
  <2> QED
    BY <1>4, <1>6, <2>1, <2>2, <2>3, PhaseStep DEF OperationInv
<1> QED
  BY <1>7, <1>8

\* Only the data loss callback can report a changed state.
LEMMA StateChangedKind ==
    ASSUME IInv, DataLossChangedState, op.pending.target \in Replica
    PROVE  op.phase = "NotifyDataLoss" /\ op.pending.kind = "OnDataLoss"
<1>1. op.pending # NoAction /\ op.pending.kind # "LabelMember" /\ ActionState = "StateChanged"
  BY DEF DataLossChangedState, Probing
<1>2. op.pending.id \in DOMAIN Target.done /\ Target.done[op.pending.id] = "StateChanged"
  BY <1>1 DEF ActionState
<1>3. ProcessInv(op, op.pending.target, Target)
  BY DEF IInv, Target
<1>4. op.pending.id.kind = "OnDataLoss"
  BY <1>2, <1>3 DEF ProcessInv
<1>5. PendingInv(op, op.pending)
  BY <1>1 DEF IInv, OperationInv
<1> QED
  BY <1>1, <1>4, <1>5, ActionPhases DEF PendingInv

\* The candidate whose callback changed the state stays the candidate.
LEMMA StateChangedStep ==
    ASSUME IInv, DataLossChangedState
    PROVE  OperationNext(op')
<1> USE OperationFacts
<1>1. op.pending # NoAction /\ op.pending.kind # "LabelMember"
  BY DEF DataLossChangedState, Probing
<1>2. op.phase \in DOMAIN ActionKind /\ op.phase # "RecordStartingConfiguration"
  <2>1. PendingInv(op, op.pending)
    BY <1>1 DEF OperationInv
  <2>2. op.phase \in DOMAIN ActionKind /\ op.pending.kind = ActionKind[op.phase]
    BY <1>1, <2>1 DEF PendingInv
  <2>3. CASE op.phase = "RecordStartingConfiguration"
    <3>1. op.pending.kind = "RecordStartingConfiguration"
      BY <2>2, <2>3 DEF ActionKind
    <3>2. op.pending.target \in Replica
      BY <2>1, <3>1 DEF PendingInv
    <3> QED
      BY <2>3, <3>2, StateChangedKind
  <2> QED
    BY <2>2, <2>3
<1>3. op.phase \notin Early /\ op.confirmed
  BY <1>2, ActionPhases DEF OperationInv, Early, Undecided
<1> DEFINE o == WithPhase(op, "RefreshCandidate")
           n == [o EXCEPT !.insts = [m \in {op.primary} |-> @[m]]]
<1>4. op' = n \/ op' = Poison(n)
  BY DEF DataLossChangedState, Persist
<1>5. /\ IsRecord(o, OperationFields) /\ o.phase = "RefreshCandidate" /\ o.pending = NoAction
      /\ \A f \in OperationFields \ {"phase", "pending"} : o[f] = op[f]
  BY WithPhaseFields
<1> HIDE DEF o
<1>6. /\ IsRecord(n, OperationFields)
      /\ \A f \in OperationFields \ {"insts"} : n[f] = o[f]
  BY <1>5 DEF IsRecord, OperationFields
<1> HIDE DEF n
<1>7. /\ n.phase = "RefreshCandidate" /\ n.pending = NoAction
      /\ n.confirmed = op.confirmed /\ n.dataLoss = op.dataLoss /\ n.promoted = op.promoted
      /\ n.primary = op.primary /\ n.epoch = op.epoch
      /\ n.current = op.current /\ n.cfgIndex = op.cfgIndex
  BY <1>5, <1>6 DEF OperationFields
<1>8. OperationNext(n)
  <2>1. n.phase \notin Early /\ n.phase # "NotifyDataLoss"
    BY <1>7 DEF Early, Undecided
  <2> QED
    BY <1>3, <1>6, <1>7, <2>1, PhaseStep
<1>9. OperationNext(Poison(n))
  <2>1. /\ IsRecord(Poison(n), OperationFields) /\ Poison(n).phase = "Poisoned"
        /\ Poison(n).pending = NoAction
        /\ \A f \in OperationFields \ {"phase", "pending"} : Poison(n)[f] = n[f]
    BY <1>6 DEF Poison, IsRecord, OperationFields
  <2>2. /\ Poison(n).confirmed = op.confirmed /\ Poison(n).promoted = op.promoted
        /\ Poison(n).primary = op.primary /\ Poison(n).epoch = op.epoch
        /\ Poison(n).current = op.current /\ Poison(n).cfgIndex = op.cfgIndex
    BY <1>7, <2>1 DEF OperationFields
  <2> QED
    BY <2>1, <2>2, PoisonStep
<1> QED
  BY <1>4, <1>8, <1>9

LEMMA ProbeStep ==
    ASSUME IInv, ActionFailed \/ AuthorizeDispatch \/ PlanDispatch \/ SkipStartingRecord
                 \/ DeadlinePasses
    PROVE  OperationNext(op')
<1>1. CASE ActionFailed
  BY <1>1, PoisonNext DEF ActionFailed, Persist
<1>2. CASE AuthorizeDispatch
  <2>1. op.pending # NoAction /\ op' = [op EXCEPT !.pending.authorized = TRUE]
    BY <1>2 DEF AuthorizeDispatch, Probing, Persist
  <2> QED
    BY <2>1, PendingField
<1>3. CASE PlanDispatch
  <2>1. op.pending # NoAction /\ op' = [op EXCEPT !.pending.evidence = Evidence]
    BY <1>3 DEF PlanDispatch, Dispatchable, Probing, Persist
  <2> QED
    BY <2>1, PendingField
<1>4. CASE SkipStartingRecord
  <2>1. op' = [op EXCEPT !.pending = NoAction, !.cfgIndex = @ + 1]
    BY <1>4 DEF SkipStartingRecord, Persist
  <2>2. /\ IsRecord(op', OperationFields) /\ op'.pending = NoAction
        /\ op'.cfgIndex = op.cfgIndex + 1
        /\ \A f \in OperationFields \ {"pending", "cfgIndex"} : op'[f] = op[f]
    BY <2>1, OperationFacts DEF IsRecord, OperationFields
  <2>3. op'.cfgIndex \in Nat
    BY <2>2, OperationFacts
  <2> QED
    BY <2>2, <2>3, PositionStep DEF OperationFields
<1>5. CASE DeadlinePasses
  <2>1. op.pending # NoAction /\ op' = [op EXCEPT !.pending.late = TRUE]
    BY <1>5 DEF DeadlinePasses, Persist
  <2> QED
    BY <2>1, PendingField
<1> QED
  BY <1>1, <1>2, <1>3, <1>4, <1>5

\* A request asks what the pending action says, in the phase it belongs to.
LEMMA DispatchStep ==
    ASSUME IInv, DispatchAction
    PROVE  IInv'
<1> DEFINE q == [to |-> op.pending.target, inst |-> op.pending.inst,
                 gen |-> Evidence.gen, ver |-> Evidence.ver, seen |-> Evidence.seen,
                 id |-> op.pending.id, kind |-> op.pending.kind,
                 epoch |-> op.pending.epoch, config |-> op.pending.config]
<1>1. net' = net \cup {q} /\ UNCHANGED <<op, rep, ran, crowned>>
  BY DEF DispatchAction, histVars
<1>2. op.pending # NoAction /\ op.pending.kind # "LabelMember"
  BY DEF DispatchAction, Dispatchable, Probing
<1>3. PendingInv(op, op.pending) /\ OperationInv(op)
  BY <1>2 DEF IInv, OperationInv
<1>4. /\ q.id.kind = q.kind /\ q.kind = op.pending.kind
      /\ q.to = op.pending.target /\ q.epoch = op.pending.epoch
  BY <1>3 DEF PendingInv
<1> HIDE DEF q
<1>5. q.kind = "PromoteCandidate" => Elected(op)
  <2> SUFFICES ASSUME q.kind = "PromoteCandidate" PROVE Elected(op)
    OBVIOUS
  <2>1. op.phase = "PromoteCandidate"
    BY <1>2, <1>3, <1>4, ActionPhases DEF PendingInv
  <2> QED
    BY <1>3, <2>1 DEF OperationInv, Elected, Early, Undecided
<1>6. RequestInv(op, q)
  BY <1>3, <1>4, <1>5 DEF RequestInv, PendingInv
<1>7. ShapeInv' /\ OperationInv(op)' /\ RanInv' /\ CrownInv(op)'
  BY <1>1 DEF IInv, ShapeInv, RanInv, CrownInv
<1>8. \A r \in Replica : ProcessInv(op, r, rep[r])
  BY DEF IInv
<1>9. (\A r \in Replica : ProcessInv(op, r, rep[r]))'
  BY <1>1, <1>8
<1>10. (\A x \in net : RequestInv(op, x))'
  BY <1>1, <1>6 DEF IInv
<1> QED
  BY <1>7, <1>9, <1>10 DEF IInv

\* A label is of a replica, or nothing changes.
LEMMA PatchStep ==
    ASSUME IInv, PatchLabel
    PROVE  IInv'
<1>1. CASE op.pending.target \in Replica
  BY <1>1, FaultStep
<1>2. CASE op.pending.target \notin Replica
  <2>1. rep' = rep /\ UNCHANGED <<op, net, ran, crowned>>
    BY <1>2 DEF PatchLabel, histVars, IInv, ShapeInv, IsRecord
  <2>2. OperationNext(op')
    BY <2>1 DEF IInv, ShapeInv, OperationNext
  <2> QED
    BY <2>1, <2>2, OperationStep
<1> QED
  BY <1>1, <1>2

-----------------------------------------------------------------------------
(* The invariant.                                                          *)

LEMMA InitInv == Init => IInv
<1> SUFFICES ASSUME Init PROVE IInv
  OBVIOUS
<1>1. PICK lsn \in [Replica -> 0..MaxLsn], missing \in SUBSET Unrecorded :
         /\ rep = [r \in Replica |-> StartReplica(r, lsn[r], acked, r \notin missing)]
         /\ \E known : op = StartOperation(known)
  BY DEF Init
<1>2. net = {} /\ ran = EmptyBag /\ crowned = {}
  BY DEF Init
<1>3. \A r : /\ IsProcess(StartReplica(r, lsn[r], acked, r \notin missing))
             /\ StartReplica(r, lsn[r], acked, r \notin missing).gen = 0
             /\ StartReplica(r, lsn[r], acked, r \notin missing).active = NoAction
             /\ StartReplica(r, lsn[r], acked, r \notin missing).done = << >>
  BY ZenonT(60) DEF StartReplica, IsProcess, IsRecord, ProcessFields
<1>4. ShapeInv /\ OperationInv(op)
  <2> PICK known : op = StartOperation(known)
    BY <1>1
  <2>1. /\ IsRecord(op, OperationFields) /\ op.pending = NoAction
        /\ op.phase = "RecordStartingConfiguration" /\ ~op.promoted /\ op.cfgIndex = 0
        /\ DOMAIN op.current = Replica
    BY DEF StartOperation, IsRecord, OperationFields
  <2>2. IsRecord(rep, Replica) /\ \A r \in Replica : IsProcess(rep[r]) /\ rep[r].gen \in Nat
    BY <1>1, <1>3 DEF IsRecord
  <2> QED
    BY <2>1, <2>2 DEF ShapeInv, IsOperation, OperationInv, Undecided
<1>5. \A r \in Replica : ProcessInv(op, r, rep[r])
  BY <1>1, <1>3 DEF ProcessInv
<1>6. (\A q \in net : RequestInv(op, q)) /\ RanInv /\ CrownInv(op)
  BY <1>2 DEF RanInv, CrownInv, EmptyBag, SetToBag
<1> QED
  BY <1>4, <1>5, <1>6 DEF IInv

LEMMA NextInv == IInv /\ [Next]_vars => IInv'
<1> SUFFICES ASSUME IInv, [Next]_vars PROVE IInv'
  OBVIOUS
<1>1. CASE UNCHANGED vars
  <2>1. UNCHANGED <<op, rep, net, ran, crowned>>
    BY <1>1 DEF vars
  <2>2. OperationNext(op')
    BY <2>1 DEF IInv, ShapeInv, OperationNext
  <2> QED
    BY <2>1, <2>2, OperationStep
<1>2. CASE Reconcile \/ DeadlinePasses
  <2>1. CASE DispatchAction
    BY <2>1, DispatchStep
  <2>2. CASE PatchLabel
    BY <2>2, PatchStep
  <2>3. CASE ~DispatchAction /\ ~PatchLabel
    <3>1. OperationNext(op')
      BY <1>2, <2>3, ReplacementStep, CollectStep, AssessStep, EpochStep, PersistedStep,
         BeginStep, EndStep, CompletedStep, StateChangedStep, ProbeStep, LabelStep
         DEF Reconcile
    <3>2. UNCHANGED <<rep, net, ran, crowned>>
      BY <1>2, <2>3, OperatorFrame
    <3> QED
      BY <3>1, <3>2, OperationStep
  <2> QED
    BY <2>1, <2>2, <2>3
<1>3. ASSUME NEW r \in Replica, Agent(r) \/ Fault(r) \/ Reconnect(r)
      PROVE  IInv'
  BY <1>3, AdmitStep, CompleteStep, FailStep, FaultStep DEF Agent
<1> QED
  BY <1>1, <1>2, <1>3 DEF Next

\* Every reachable state satisfies the invariant that the agents' records and
\* the operation's phases keep (accept_correlated, handle_completion,
\* reconcile_failover_operation).
THEOREM IInvHolds == Spec => []IInv
<1>1. Init => IInv
  BY InitInv
<1>2. IInv /\ [Next]_vars => IInv'
  BY NextInv
<1> QED
  BY <1>1, <1>2, PTL DEF Spec

\* A correlated action has at most one effect in a process (accept_correlated
\* and handle_completion), however often its request is sent and whenever it
\* arrives: what ran is on the record of the process that ran it, and the
\* record refuses the id.
THEOREM ActionsRunOnce == Spec => []EffectOnce
<1>1. IInv => EffectOnce
  BY DEF IInv, RanInv, EffectOnce, BagToSet
<1> QED
  BY <1>1, IInvHolds, PTL

\* A failover promotes one replica, in one epoch: no request to become primary
\* exists before the candidate and its epoch are final, and nothing after that
\* changes them.
THEOREM OnePromotion == Spec => []AtMostOnePromotion
<1>1. IInv => AtMostOnePromotion
  BY DEF IInv, CrownInv, AtMostOnePromotion
<1> QED
  BY <1>1, IInvHolds, PTL

-----------------------------------------------------------------------------
(* What the election guarantees.                                           *)

Others == Replica \ {Failed}

Roles == {"Primary", "ActiveSecondary"}

\* The progress that the replicas may have had when the primary failed.
Histories ==
    {h \in [Replica -> 0..MaxLsn] :
        Cardinality({r \in Replica : h[r] >= acked}) >= Majority(Replica)}

\* What is known or observed of a replica with a role is its progress when the
\* primary failed.
Kept(p, lsn) ==
    p.role \in Roles =>
        /\ p.epoch = StartEpoch /\ p.deact = StartEpoch /\ p.retained = 0 /\ p.catchUp = 0
        /\ p.lsn = lsn /\ p.committed \in 0..lsn

\* Before the election is decided, o has dropped the failed primary alone, and
\* its observations are of the progress h.
PristineOp(o, h) ==
    /\ DOMAIN o.current = Replica
    /\ \A m \in Replica : o.current[m].dropped <=> m = Failed
    /\ DOMAIN o.obs \subseteq Others /\ o.unavailable \subseteq Others
    /\ \A m \in DOMAIN o.obs : Kept(o.obs[m], h[m])
    /\ o.waitIndex \in Nat

\* And nothing but configurations is recorded by the replicas.
PristineRep(h) ==
    /\ \A q \in net : q.kind = "RecordStartingConfiguration"
    /\ \A r \in Replica :
          /\ rep[r].active # NoAction => rep[r].active.kind = "RecordStartingConfiguration"
          /\ Kept(rep[r], h[r])

\* No process was lost.
Alive == \A r \in Replica : rep[r].gen = 0

\* As long as no process is lost, the election accepts every answer that has
\* the starting configuration.
UntouchedOp(o) ==
    /\ \A m \in Replica : o.current[m].inst = 0
    /\ \A m \in DOMAIN o.obs : o.obs[m].inst = 0 /\ o.obs[m].role \in Roles /\ o.obs[m].healthy

UntouchedProcess(p) == p.inst = 0 /\ p.role \in Roles /\ p.healthy

UntouchedRep == \A r \in Replica : UntouchedProcess(rep[r])

\* A member answered that did not have the starting configuration.
Mismatched(o) == \E m \in DOMAIN o.obs : ~o.obs[m].matches

\* The data loss has just been decided.
LossDecided(o) == o.dataLoss /\ o.phase = "PersistConfigurationEpoch"

\* The operation's members and targets are replicas; once it has decided it
\* does not go back, and without data loss its candidate has what was
\* acknowledged.
ChoiceInv(o) ==
    /\ o.confirmed => o.phase \notin Undecided
    /\ ~o.confirmed => ~o.dataLoss
    /\ o.primary \in Replica /\ DOMAIN o.insts \subseteq Replica /\ o.secIndex \in Nat
    /\ o.pending # NoAction /\ o.pending.kind # "LabelMember" => o.pending.target \in Replica
    /\ o.phase = "RefreshCandidate" => o.dataLoss
    /\ o.confirmed /\ ~o.dataLoss => o.primary \in DOMAIN o.obs /\ o.obs[o.primary].lsn >= acked

SafetyInv ==
    /\ IInv
    /\ acked \in Nat
    /\ ChoiceInv(op)
    /\ LossDecided(op) => ~Alive \/ Mismatched(op)
    /\ ~op.confirmed => \E h \in Histories : PristineOp(op, h) /\ PristineRep(h)
    /\ ~op.confirmed /\ Alive => UntouchedOp(op) /\ UntouchedRep

-----------------------------------------------------------------------------
(* The election.                                                           *)

LEMMA NatMax ==
    ASSUME NEW T \in SUBSET Nat, T # {}, NEW b \in Nat, \A y \in T : y <= b
    PROVE  \E x \in T : \A y \in T : x >= y
<1> DEFINE U == {b - y : y \in T}
<1>1. U \in SUBSET Nat
  OBVIOUS
<1>2. U # {}
  <2>1. PICK y \in T : TRUE
    OBVIOUS
  <2>2. b - y \in U
    OBVIOUS
  <2> QED
    BY <2>2
<1>3. PICK u \in U : \A v \in U : u <= v
  BY <1>1, <1>2, NatMin
<1>4. PICK x \in T : u = b - x
  OBVIOUS
<1>5. \A y \in T : b - y \in U
  OBVIOUS
<1>6. \A y \in T : u <= b - y
  BY <1>3, <1>5
<1> QED
  BY <1>4, <1>6

LEMMA InputFacts ==
    LET in == ElectionInput
    IN  /\ in.expected = StartEpoch /\ in.failed = Failed /\ in.previous = << >>
        /\ in.current = op.current /\ in.obs = op.obs
        /\ Configurations(in) = {op.current}
        /\ DOMAIN AllMembers(in) = DOMAIN op.current
        /\ \A m \in DOMAIN op.current : AllMembers(in)[m] = op.current[m]
<1> DEFINE in == ElectionInput
<1>1. /\ in.expected = StartEpoch /\ in.failed = Failed /\ in.previous = << >>
      /\ in.current = op.current /\ in.obs = op.obs
  BY DEF ElectionInput
<1> HIDE DEF in
<1>2. DOMAIN << >> = {}
  OBVIOUS
<1> QED
  BY <1>1, <1>2 DEF Configurations, AllMembers, in

LEMMA AcceptedFacts ==
    ASSUME NEW h, PristineOp(op, h), NEW m \in AcceptedObservations(ElectionInput)
    PROVE  /\ m \in DOMAIN op.obs /\ m \in Others
           /\ op.obs[m].role \in Roles /\ Kept(op.obs[m], h[m])
<1> DEFINE in == ElectionInput
<1>1. /\ in.obs = op.obs /\ DOMAIN AllMembers(in) = DOMAIN op.current
  BY InputFacts
<1> HIDE DEF in
<1>2. m \in DOMAIN op.obs /\ ExclusionOf(in, m) = "None"
  BY <1>1 DEF AcceptedObservations, in
<1>3. op.obs[m].role \in Roles
  BY <1>1, <1>2 DEF ExclusionOf, Exclusion, Roles
<1> QED
  BY <1>2, <1>3 DEF PristineOp

\* Who can become primary: everybody whose answer is accepted.
LEMMA CandidatesAre ==
    ASSUME NEW h, PristineOp(op, h)
    PROVE  /\ WithDeactivation(ElectionInput) = AcceptedObservations(ElectionInput)
           /\ WithDeactivation(ElectionInput) # {} =>
                 /\ FreshestDeactivation(ElectionInput) = StartEpoch
                 /\ Candidates(ElectionInput) = AcceptedObservations(ElectionInput)
<1> DEFINE in == ElectionInput
           A == AcceptedObservations(in)
<1>1. in.failed = Failed /\ in.obs = op.obs
  BY InputFacts
<1>2. \A m \in A : /\ m \in DOMAIN op.obs /\ m \in Others /\ op.obs[m].role \in Roles
                   /\ Kept(op.obs[m], h[m])
  BY AcceptedFacts
<1>3. \A m \in A : op.obs[m].deact = StartEpoch /\ op.obs[m].retained = 0 /\ op.obs[m].catchUp = 0
  BY <1>2 DEF Kept
<1>4. StartEpoch # Unknown
  BY UnknownAssumption DEF StartEpoch
<1>5. in.catchUp = 0
  <2> DEFINE in0 == [expected |-> StartEpoch, failed |-> Failed, catchUp |-> 0,
                     previous |-> << >>, current |-> op.current, obs |-> op.obs]
  <2>1. in = [in0 EXCEPT !.catchUp = RequiredCatchUp(in0)]
    BY DEF ElectionInput
  <2>2. in.catchUp = RequiredCatchUp(in0)
    BY <2>1
  <2>3. in0.obs = op.obs /\ AcceptedObservations(in0) = A
    <3>1. /\ in.obs = in0.obs /\ in.current = in0.current /\ in.previous = in0.previous
          /\ in.expected = in0.expected
      BY InputFacts
    <3> HIDE DEF in, in0
    <3>2. AllMembers(in) = AllMembers(in0)
      BY <3>1 DEF AllMembers
    <3>3. \A m : ExclusionOf(in, m) = ExclusionOf(in0, m)
      BY <3>1, <3>2 DEF ExclusionOf
    <3> QED
      BY <3>1, <3>2, <3>3 DEF AcceptedObservations, in0
  <2> HIDE DEF in0, in
  <2> DEFINE S == {0} \cup {in0.obs[m].catchUp : m \in {n \in AcceptedObservations(in0) : in0.obs[n].deact # Unknown}}
  <2>4. S = {0}
    BY <2>3, <1>3
  <2>5. RequiredCatchUp(in0) = Max(S)
    BY DEF RequiredCatchUp
  <2> QED
    BY <2>2, <2>4, <2>5 DEF Max
<1> HIDE DEF in
<1>6. WithDeactivation(in) = A
  BY <1>1, <1>2, <1>3, <1>4 DEF WithDeactivation, Others
<1> HIDE DEF A
<1>7. ASSUME WithDeactivation(in) # {}
      PROVE  FreshestDeactivation(in) = StartEpoch /\ Candidates(in) = A
  <2>1. {in.obs[m].deact : m \in WithDeactivation(in)} = {StartEpoch}
    BY <1>1, <1>3, <1>6, <1>7
  <2>2. FreshestDeactivation(in) = StartEpoch
    BY <2>1 DEF FreshestDeactivation, LatestEpoch
  <2>3. {m \in WithDeactivation(in) : in.obs[m].deact = FreshestDeactivation(in)} = A
    BY <1>1, <1>3, <1>6, <2>2
  <2>4. {m \in A : in.obs[m].retained <= in.catchUp} = A
    BY <1>1, <1>3, <1>5
  <2> QED
    BY <2>2, <2>3, <2>4 DEF Candidates
<1> QED
  BY <1>6, <1>7 DEF A, in

\* select_candidate: there is a best candidate, and nobody who answered has
\* more.
LEMMA SelectedIsBest ==
    ASSUME NEW h \in Histories, PristineOp(op, h), WithDeactivation(ElectionInput) # {}
    PROVE  LET c == SelectCandidate(ElectionInput)
           IN  /\ c \in AcceptedObservations(ElectionInput)
               /\ \A m \in AcceptedObservations(ElectionInput) : h[c] >= h[m]
<1> DEFINE in == ElectionInput
           A == AcceptedObservations(in)
<1>1. Candidates(in) = A /\ A # {} /\ in.obs = op.obs
  BY CandidatesAre, InputFacts
<1>2. \A m \in A : m \in Replica /\ op.obs[m].role \in Roles /\ Kept(op.obs[m], h[m])
  BY AcceptedFacts DEF Others
<1>3. \A m \in A : /\ m \in Nat /\ h[m] \in 0..MaxLsn /\ op.obs[m].lsn = h[m]
                   /\ op.obs[m].deact = StartEpoch /\ op.obs[m].retained = 0
  BY <1>2, ReplicaAssumption DEF Kept, Histories
<1> HIDE DEF in, A
<1> DEFINE Beats(m, n) == Outranks(RankOf(m, in.obs[m]), RankOf(n, in.obs[n]))
<1>4. \A m, n \in A : Beats(m, n) <=> h[m] > h[n] \/ (h[m] = h[n] /\ m < n)
  <2> SUFFICES ASSUME NEW m \in A, NEW n \in A
               PROVE  Beats(m, n) <=> h[m] > h[n] \/ (h[m] = h[n] /\ m < n)
    OBVIOUS
  <2>1. ~EpochLess(StartEpoch, StartEpoch)
    BY DEF EpochLess, StartEpoch
  <2>2. h[m] \in Nat /\ h[n] \in Nat
    BY <1>3, FailoverBoundsAssumption
  <2> QED
    BY <1>1, <1>3, <2>1, <2>2 DEF Outranks, RankOf
<1> HIDE DEF Beats
<1>5. \E c \in A : \A n \in A \ {c} : Beats(c, n)
  <2> DEFINE T == {h[m] : m \in A}
  <2>1. T \in SUBSET Nat /\ T # {} /\ \A y \in T : y <= MaxLsn
    BY <1>1, <1>3, FailoverBoundsAssumption
  <2>2. MaxLsn \in Nat
    BY FailoverBoundsAssumption
  <2>3. PICK top \in T : \A y \in T : top >= y
    BY <2>1, <2>2, NatMax
  <2> DEFINE U == {m \in A : h[m] = top}
  <2>4. U \in SUBSET Nat /\ U # {}
    BY <1>3
  <2>5. PICK c \in U : \A m \in U : c <= m
    BY <2>4, NatMin
  <2>6. ASSUME NEW n \in A \ {c}
        PROVE  Beats(c, n)
    <3>1. h[c] = top /\ h[n] \in T /\ h[n] <= top /\ h[n] \in Nat /\ top \in Nat
      BY <2>1, <2>3, <2>5
    <3>2. n \in Nat /\ c \in Nat /\ c \in A /\ n # c
      BY <1>3, <2>5
    <3>3. h[n] = top => c <= n
      BY <2>5
    <3>4. h[c] > h[n] \/ (h[c] = h[n] /\ c < n)
      BY <3>1, <3>2, <3>3
    <3> QED
      BY <1>4, <3>2, <3>4
  <2> QED
    BY <2>5, <2>6
<1> DEFINE c == SelectCandidate(in)
<1>6. c \in A /\ \A n \in A \ {c} : Beats(c, n)
  BY <1>1, <1>5 DEF SelectCandidate, Beats
<1> HIDE DEF c
<1>7. \A m \in A : h[c] >= h[m]
  <2> SUFFICES ASSUME NEW m \in A PROVE h[c] >= h[m]
    OBVIOUS
  <2>1. h[c] \in Nat /\ h[m] \in Nat
    BY <1>3, <1>6, FailoverBoundsAssumption
  <2>2. m # c => h[c] > h[m] \/ (h[c] = h[m] /\ c < m)
    BY <1>4, <1>6
  <2> QED
    BY <2>1, <2>2
<1> QED
  BY <1>6, <1>7 DEF c, in, A

\* A read quorum meets the write quorum of every acknowledged write.
LEMMA QuorumsMeet ==
    ASSUME NEW A \in SUBSET Replica, NEW Q \in SUBSET Replica,
           Cardinality(A) >= (Cardinality(Replica) + 1) \div 2,
           Cardinality(Q) >= Majority(Replica)
    PROVE  A \cap Q # {}
<1> DEFINE n == Cardinality(Replica)
<1>1. IsFiniteSet(Replica) /\ n \in Nat
  BY ReplicaAssumption, FS_CardinalityType
<1>2. IsFiniteSet(A) /\ IsFiniteSet(Q) /\ Cardinality(A) \in Nat /\ Cardinality(Q) \in Nat
  BY <1>1, FS_Subset, FS_CardinalityType
<1>3. Cardinality(A \cup Q) <= n
  BY <1>1, FS_Subset
<1>4. Cardinality(A \cup Q) = Cardinality(A) + Cardinality(Q) - Cardinality(A \cap Q)
  BY <1>2, FS_Union
<1>5. (n + 1) \div 2 + (n \div 2 + 1) > n
  BY <1>1
<1>6. Cardinality(A \cap Q) > 0 \/ A \cap Q # {}
  <2>1. IsFiniteSet(A \cap Q) /\ Cardinality(A \cap Q) \in Nat
    BY <1>2, FS_Intersection, FS_CardinalityType
  <2>2. Cardinality(A) + Cardinality(Q) > n
    <3>1. (n + 1) \div 2 \in Int /\ n \div 2 \in Int
      BY <1>1
    <3> QED
      BY <1>1, <1>2, <1>5, <3>1 DEF Majority
  <2> QED
    BY <1>1, <1>2, <1>3, <1>4, <2>1, <2>2
<1> QED
  BY <1>6, FS_EmptySet

\* evaluate: a decision to proceed is for a candidate with every acknowledged
\* write.
LEMMA ProceedHasAcked ==
    ASSUME NEW h \in Histories, PristineOp(op, h), acked \in Nat,
           Evaluate(ElectionInput).kind = "Proceed"
    PROVE  LET c == Evaluate(ElectionInput).candidate
           IN  c \in DOMAIN op.obs /\ op.obs[c].lsn >= acked
<1> DEFINE in == ElectionInput
           A == AcceptedObservations(in)
           c == SelectCandidate(in)
<1>1. WithDeactivation(in) # {} /\ Evaluate(in).candidate = c /\ \A x \in Configurations(in) : Satisfied(in, x)
  BY DEF Evaluate, Decision
<1>2. c \in A /\ \A m \in A : h[c] >= h[m]
  BY <1>1, SelectedIsBest
<1>3. Configurations(in) = {op.current} /\ DOMAIN op.current = Replica
  BY InputFacts DEF PristineOp
<1>4. \A m \in A : m \in DOMAIN op.obs /\ m \in Replica /\ op.obs[m].role \in Roles /\ Kept(op.obs[m], h[m])
  BY AcceptedFacts DEF Others
<1> HIDE DEF in, A, c
<1>5. Cardinality(A) >= (Cardinality(Replica) + 1) \div 2
  <2>1. Satisfied(in, op.current)
    BY <1>1, <1>3
  <2>2. AcceptedIn(in, op.current) = A
    BY <1>3, <1>4 DEF AcceptedIn, A
  <2> QED
    BY <1>3, <2>1, <2>2 DEF Satisfied, Required
<1>6. A \in SUBSET Replica
  BY <1>4
<1> DEFINE Q == {r \in Replica : h[r] >= acked}
<1>7. PICK m \in A : h[m] >= acked
  <2>1. Cardinality(Q) >= Majority(Replica)
    BY DEF Histories
  <2>2. A \cap Q # {}
    BY <1>5, <1>6, <2>1, QuorumsMeet
  <2> QED
    BY <2>2
<1>8. h[c] >= h[m] /\ h[c] \in 0..MaxLsn /\ h[m] \in 0..MaxLsn /\ op.obs[c].lsn = h[c]
  BY <1>2, <1>4 DEF Histories, Kept
<1>9. op.obs[c].lsn >= acked
  BY <1>7, <1>8, FailoverBoundsAssumption
<1> QED
  BY <1>1, <1>2, <1>4, <1>9 DEF in

\* A silent majority of living processes is never conclusive: whoever has
\* answered is accepted, the others may still answer.
LEMMA AliveKeepsQuorum ==
    ASSUME NEW h \in Histories, PristineOp(op, h), UntouchedOp(op), ~Mismatched(op),
           WithDeactivation(ElectionInput) # {}
    PROVE  CanStillBeSatisfied(ElectionInput, op.current)
<1> DEFINE in == ElectionInput
           A == AcceptedIn(in, op.current)
           O == OutstandingIn(in, op.current)
           n == Cardinality(Replica)
<1>1. /\ in.obs = op.obs /\ in.expected = StartEpoch
      /\ DOMAIN AllMembers(in) = Replica
      /\ \A m \in Replica : AllMembers(in)[m] = op.current[m]
  BY InputFacts DEF PristineOp
<1>2. DOMAIN op.current = Replica /\ DOMAIN op.obs \subseteq Others /\ Failed \in Replica
  BY FailedAssumption DEF PristineOp
<1> HIDE DEF in
<1>3. ASSUME NEW m \in DOMAIN op.obs
      PROVE  m \in A
  <2>1. /\ m \in Replica /\ m # Failed /\ ~op.current[m].dropped /\ op.current[m].inst = 0
        /\ op.obs[m].inst = 0 /\ op.obs[m].role \in Roles /\ op.obs[m].healthy /\ op.obs[m].matches
        /\ Kept(op.obs[m], h[m]) /\ h[m] \in 0..MaxLsn
    BY <1>2 DEF PristineOp, UntouchedOp, Mismatched, Others, Histories
  <2>2. /\ op.obs[m].epoch = StartEpoch /\ op.obs[m].retained = 0
        /\ op.obs[m].lsn = h[m] /\ op.obs[m].committed \in 0..h[m]
    BY <2>1 DEF Kept
  <2>3. 0 # Unknown
    BY UnknownAssumption, FailoverBoundsAssumption
  <2>4. ~(op.obs[m].retained > op.obs[m].committed \/ op.obs[m].committed > op.obs[m].lsn)
    BY <2>1, <2>2, FailoverBoundsAssumption
  <2>5. ExclusionOf(in, m) = "None"
    BY <1>1, <2>1, <2>2, <2>3, <2>4 DEF ExclusionOf, Exclusion, Roles
  <2> QED
    BY <1>1, <1>2, <2>1, <2>5 DEF AcceptedIn, AcceptedObservations
<1>4. ASSUME NEW m \in Others \ DOMAIN op.obs
      PROVE  m \in O
  <2>1. m \in Replica /\ ~op.current[m].dropped
    BY DEF Others, PristineOp
  <2> QED
    BY <1>1, <1>2, <1>4, <2>1 DEF OutstandingIn
<1>5. A \subseteq Replica /\ O \subseteq Replica
  BY <1>2 DEF AcceptedIn, OutstandingIn
<1> HIDE DEF A, O
<1>6. Others \subseteq A \cup O
  BY <1>3, <1>4
<1>7. IsFiniteSet(Replica) /\ n \in Nat /\ IsFiniteSet(Others) /\ Cardinality(Others) = n - 1
  BY ReplicaAssumption, FailedAssumption, FS_CardinalityType, FS_RemoveElement DEF Others
<1>8. /\ IsFiniteSet(A) /\ IsFiniteSet(O) /\ IsFiniteSet(A \cup O)
      /\ Cardinality(A) \in Nat /\ Cardinality(O) \in Nat
  BY <1>5, <1>7, FS_Subset, FS_CardinalityType
<1>9. Cardinality(A) + Cardinality(O) >= n - 1
  <2>1. Cardinality(A \cup O) >= n - 1
    BY <1>6, <1>7, <1>8, FS_Subset, FS_CardinalityType
  <2>2. Cardinality(A \cup O) = Cardinality(A) + Cardinality(O) - Cardinality(A \cap O)
    BY <1>8, FS_Union
  <2>3. Cardinality(A \cap O) \in Nat
    BY <1>8, FS_Intersection, FS_CardinalityType
  <2> QED
    BY <1>7, <1>8, <2>1, <2>2, <2>3
<1>10. n - 1 >= 1
  <2>1. PICK m \in AcceptedObservations(in) : m \in Others
    BY CandidatesAre, AcceptedFacts DEF in
  <2>2. Others # {}
    BY <2>1
  <2>3. Cardinality(Others) # 0 /\ Cardinality(Others) \in Nat
    BY <1>7, <2>2, FS_EmptySet, FS_CardinalityType
  <2> QED
    BY <1>7, <2>3
<1>11. n - 1 >= (n + 1) \div 2
  BY <1>7, <1>10
<1> QED
  BY <1>2, <1>7, <1>8, <1>9, <1>11 DEF CanStillBeSatisfied, Required, A, O, in

\* What a decision of the election is.
LEMMA DecisionFacts ==
    ASSUME NEW h \in Histories, PristineOp(op, h), acked \in Nat,
           Evaluate(ElectionInput).kind
              \notin {"Error", "WaitForBestCandidate", "WaitForQuorum"}
    PROVE  LET d == Evaluate(ElectionInput)
           IN  /\ d.candidate \in Replica /\ d.candidate \in DOMAIN op.obs
               /\ d.kind # "DataLossRequired" => op.obs[d.candidate].lsn >= acked
               /\ d.kind = "DataLossRequired" => ~UntouchedOp(op) \/ Mismatched(op)
               /\ TargetMembers(ElectionInput, d.candidate) \subseteq Replica
<1> DEFINE in == ElectionInput
           d == Evaluate(in)
<1>1. WithDeactivation(in) # {} /\ d.candidate = SelectCandidate(in)
  BY DEF Evaluate, Decision
<1>2. d.kind \in {"Proceed", "DataLossRequired"}
  BY DEF Evaluate, Decision
<1>3. d.candidate \in AcceptedObservations(in)
  BY <1>1, SelectedIsBest
<1>4. d.candidate \in DOMAIN op.obs /\ d.candidate \in Replica
  BY <1>3, AcceptedFacts DEF Others
<1>5. d.kind = "Proceed" => op.obs[d.candidate].lsn >= acked
  BY ProceedHasAcked
<1>6. d.kind = "DataLossRequired" => ~UntouchedOp(op) \/ Mismatched(op)
  <2> SUFFICES ASSUME d.kind = "DataLossRequired", UntouchedOp(op), ~Mismatched(op) PROVE FALSE
    OBVIOUS
  <2>1. ~ \A x \in Configurations(in) : CanStillBeSatisfied(in, x)
    BY <1>1 DEF Evaluate, Decision
  <2>2. Configurations(in) = {op.current}
    BY InputFacts
  <2> QED
    BY <1>1, <2>1, <2>2, AliveKeepsQuorum
<1>7. TargetMembers(in, d.candidate) \subseteq Replica
  BY InputFacts DEF TargetMembers, PristineOp
<1> QED
  BY <1>2, <1>4, <1>5, <1>6, <1>7

-----------------------------------------------------------------------------
(* Steps of a process.                                                     *)

LEMMA SafetyProcess ==
    ASSUME SafetyInv, IInv', UNCHANGED <<op, net, acked>>,
           NEW r \in Replica, NEW p, rep' = [rep EXCEPT ![r] = p],
           p.gen \in Nat, p.gen >= rep[r].gen,
           ~op.confirmed =>
              /\ p.active # NoAction => p.active.kind = "RecordStartingConfiguration"
              /\ \A lsn : Kept(rep[r], lsn) => Kept(p, lsn),
           ~op.confirmed /\ UntouchedRep /\ p.gen = rep[r].gen => UntouchedProcess(p)
    PROVE  SafetyInv'
<1>1. rep'[r] = p /\ \A s \in Replica \ {r} : rep'[s] = rep[s]
  BY DEF SafetyInv, IInv, ShapeInv, IsRecord
<1>2. \A s \in Replica : rep[s].gen \in Nat
  BY DEF SafetyInv, IInv, ShapeInv
<1>3. Alive' => Alive /\ p.gen = rep[r].gen
  <2> SUFFICES ASSUME Alive' PROVE Alive /\ p.gen = rep[r].gen
    OBVIOUS
  <2>1. \A s \in Replica : rep'[s].gen = 0
    BY DEF Alive
  <2>2. p.gen = 0 /\ rep[r].gen = 0
    BY <1>1, <1>2, <2>1
  <2> QED
    BY <1>1, <2>1, <2>2 DEF Alive
<1>4. acked' \in Nat /\ ChoiceInv(op)'
  BY DEF SafetyInv, ChoiceInv
<1>5. (LossDecided(op) => ~Alive \/ Mismatched(op))'
  BY <1>3 DEF SafetyInv, LossDecided, Mismatched
<1>6. (~op.confirmed => \E h \in Histories : PristineOp(op, h) /\ PristineRep(h))'
  <2> SUFFICES ASSUME ~op.confirmed
               PROVE  (\E h \in Histories : PristineOp(op, h) /\ PristineRep(h))'
    OBVIOUS
  <2>1. PICK h \in Histories : PristineOp(op, h) /\ PristineRep(h)
    BY DEF SafetyInv
  <2>2. h \in Histories' /\ PristineOp(op, h)'
    BY <2>1 DEF Histories, PristineOp
  <2>3. PristineRep(h)'
    BY <1>1, <2>1 DEF PristineRep
  <2> QED
    BY <2>2, <2>3
<1>7. (~op.confirmed /\ Alive => UntouchedOp(op) /\ UntouchedRep)'
  <2> SUFFICES ASSUME ~op.confirmed, Alive' PROVE (UntouchedOp(op) /\ UntouchedRep)'
    OBVIOUS
  <2>1. UntouchedOp(op) /\ UntouchedRep
    BY <1>3 DEF SafetyInv
  <2>2. UntouchedProcess(p)
    BY <1>3, <2>1
  <2>3. UntouchedOp(op)'
    BY <2>1 DEF UntouchedOp
  <2>4. \A s \in Replica : UntouchedProcess(rep'[s])
    BY <1>1, <2>1, <2>2 DEF UntouchedRep
  <2>5. (\A s \in Replica : UntouchedProcess(rep[s]))'
    BY <2>4
  <2>6. UntouchedRep'
    BY <2>5 DEF UntouchedRep
  <2> QED
    BY <2>3, <2>6
<1> QED
  BY <1>4, <1>5, <1>6, <1>7 DEF SafetyInv

\* A process that keeps what the election looks at.
LEMMA SameProgress ==
    ASSUME NEW p, NEW q,
           q.role = p.role, q.epoch = p.epoch, q.deact = p.deact, q.retained = p.retained,
           q.catchUp = p.catchUp, q.lsn = p.lsn, q.committed = p.committed
    PROVE  \A lsn : Kept(p, lsn) => Kept(q, lsn)
BY DEF Kept

LEMMA SafetyAdmit ==
    ASSUME SafetyInv, NEW r \in Replica, AdmitAction(r)
    PROVE  SafetyInv'
<1>1. PICK q \in net :
         /\ Admissible(r, q)
         /\ rep' = [rep EXCEPT ![r] =
               IF q.kind = "OnDataLoss" /\ q.epoch # rep[r].epoch
               THEN [rep[r] EXCEPT !.ver = @ + 1, !.done = With(@, q.id, "Failed")]
               ELSE [rep[r] EXCEPT !.ver = @ + 1, !.active = q]]
  BY DEF AdmitAction
<1> DEFINE p == rep[r]
           v == IF q.kind = "OnDataLoss" /\ q.epoch # rep[r].epoch
                THEN [p EXCEPT !.ver = @ + 1, !.done = With(@, q.id, "Failed")]
                ELSE [p EXCEPT !.ver = @ + 1, !.active = q]
<1>2. IsProcess(p) /\ p.gen \in Nat /\ p.active = NoAction
  BY <1>1 DEF SafetyInv, IInv, ShapeInv, Admissible
<1>3. IInv' /\ UNCHANGED <<op, net, acked>>
  BY AdmitStep DEF SafetyInv, AdmitAction
<1>4. rep' = [rep EXCEPT ![r] = v]
  BY <1>1
<1>5. /\ v.gen = p.gen /\ v.active \in {NoAction, q} /\ v.inst = p.inst /\ v.role = p.role
      /\ v.epoch = p.epoch /\ v.deact = p.deact /\ v.retained = p.retained
      /\ v.catchUp = p.catchUp /\ v.lsn = p.lsn /\ v.committed = p.committed
      /\ v.healthy = p.healthy
  BY <1>2 DEF IsProcess, IsRecord, ProcessFields
<1> HIDE DEF v
<1>6. ~op.confirmed => q.kind = "RecordStartingConfiguration"
  BY DEF SafetyInv, PristineRep
<1>7. UntouchedRep => UntouchedProcess(v)
  BY <1>5 DEF UntouchedRep, UntouchedProcess
<1>8. \A lsn : Kept(p, lsn) => Kept(v, lsn)
  BY <1>5, SameProgress
<1>9. v.gen \in Nat /\ v.gen >= rep[r].gen
  BY <1>2, <1>5
<1>10. ~op.confirmed =>
          /\ v.active # NoAction => v.active.kind = "RecordStartingConfiguration"
          /\ \A lsn : Kept(rep[r], lsn) => Kept(v, lsn)
  BY <1>5, <1>6, <1>8
<1>11. ~op.confirmed /\ UntouchedRep /\ v.gen = rep[r].gen => UntouchedProcess(v)
  BY <1>7
<1> QED
  BY <1>3, <1>4, <1>9, <1>10, <1>11, SafetyProcess

LEMMA SafetyFail ==
    ASSUME SafetyInv, NEW r \in Replica, FailAction(r)
    PROVE  SafetyInv'
<1> DEFINE p == rep[r]
           v == [p EXCEPT !.active = NoAction, !.done = With(@, p.active.id, "Failed")]
<1>1. IsProcess(p) /\ p.gen \in Nat
  BY DEF SafetyInv, IInv, ShapeInv
<1>2. rep' = [rep EXCEPT ![r] = v]
  BY DEF FailAction, SafetyInv, IInv, ShapeInv, IsRecord
<1>3. IInv' /\ UNCHANGED <<op, net, acked>>
  BY FailStep DEF SafetyInv, FailAction
<1>4. /\ v.gen = p.gen /\ v.active = NoAction /\ v.inst = p.inst /\ v.role = p.role
      /\ v.epoch = p.epoch /\ v.deact = p.deact /\ v.retained = p.retained
      /\ v.catchUp = p.catchUp /\ v.lsn = p.lsn /\ v.committed = p.committed
      /\ v.healthy = p.healthy
  BY <1>1 DEF IsProcess, IsRecord, ProcessFields
<1> HIDE DEF v
<1>5. UntouchedRep => UntouchedProcess(v)
  BY <1>4 DEF UntouchedRep, UntouchedProcess
<1>6. \A lsn : Kept(p, lsn) => Kept(v, lsn)
  BY <1>4, SameProgress
<1>7. v.gen \in Nat /\ v.gen >= rep[r].gen
  BY <1>1, <1>4
<1>8. ~op.confirmed =>
          /\ v.active # NoAction => v.active.kind = "RecordStartingConfiguration"
          /\ \A lsn : Kept(rep[r], lsn) => Kept(v, lsn)
  BY <1>4, <1>6
<1>9. ~op.confirmed /\ UntouchedRep /\ v.gen = rep[r].gen => UntouchedProcess(v)
  BY <1>5
<1> QED
  BY <1>2, <1>3, <1>7, <1>8, <1>9, SafetyProcess

\* Until the election is decided only configurations are recorded.
LEMMA SafetyComplete ==
    ASSUME SafetyInv, NEW r \in Replica, CompleteAction(r)
    PROVE  SafetyInv'
<1> DEFINE p == rep[r]
           a == p.active
<1>1. PICK o \in OutcomesOf(p, a) :
         rep' = [rep EXCEPT ![r] = [o.process EXCEPT !.active = NoAction,
                                                     !.done = With(@, a.id, o.result)]]
  BY DEF CompleteAction
<1> DEFINE v == [o.process EXCEPT !.active = NoAction, !.done = With(@, a.id, o.result)]
<1>2. a # NoAction /\ IInv' /\ UNCHANGED <<op, net, acked>>
  BY CompleteStep DEF SafetyInv, CompleteAction
<1>3. IsProcess(p) /\ p.gen \in Nat
  BY DEF SafetyInv, IInv, ShapeInv
<1>4. IsProcess(o.process) /\ o.process.gen = p.gen
  BY <1>3, OutcomeKeeps
<1>5. /\ v.gen = p.gen /\ v.active = NoAction /\ v.inst = o.process.inst
      /\ v.role = o.process.role /\ v.epoch = o.process.epoch /\ v.deact = o.process.deact
      /\ v.retained = o.process.retained /\ v.catchUp = o.process.catchUp
      /\ v.lsn = o.process.lsn /\ v.committed = o.process.committed
      /\ v.healthy = o.process.healthy
  BY <1>4 DEF IsProcess, IsRecord, ProcessFields
<1>6. rep' = [rep EXCEPT ![r] = v]
  BY <1>1
<1> HIDE DEF v
<1>7. ASSUME ~op.confirmed
      PROVE  /\ \A lsn : Kept(p, lsn) => Kept(v, lsn)
             /\ UntouchedRep => UntouchedProcess(v)
  <2>1. a.kind = "RecordStartingConfiguration"
    BY <1>2, <1>7 DEF SafetyInv, PristineRep
  <2>2. o \in {[process |-> [p EXCEPT !.ecfg = a.config], result |-> "Completed"]}
    BY <2>1, Zenon DEF OutcomesOf
  <2>3. o.process = [p EXCEPT !.ecfg = a.config]
    BY <2>2
  <2>4. /\ v.gen = p.gen /\ v.active = NoAction /\ v.inst = p.inst /\ v.role = p.role
        /\ v.epoch = p.epoch /\ v.deact = p.deact /\ v.retained = p.retained
        /\ v.catchUp = p.catchUp /\ v.lsn = p.lsn /\ v.committed = p.committed
        /\ v.healthy = p.healthy
    BY <1>3, <1>5, <2>3 DEF IsProcess, IsRecord, ProcessFields
  <2>5. UntouchedRep => UntouchedProcess(v)
    BY <1>2, <2>4 DEF UntouchedRep, UntouchedProcess
  <2>6. \A lsn : Kept(p, lsn) => Kept(v, lsn)
    BY <2>4, SameProgress
  <2> QED
    BY <2>5, <2>6
<1>8. v.gen \in Nat /\ v.gen >= rep[r].gen
  BY <1>3, <1>5
<1>9. ~op.confirmed =>
          /\ v.active # NoAction => v.active.kind = "RecordStartingConfiguration"
          /\ \A lsn : Kept(rep[r], lsn) => Kept(v, lsn)
  BY <1>5, <1>7
<1>10. ~op.confirmed /\ UntouchedRep /\ v.gen = rep[r].gen => UntouchedProcess(v)
  BY <1>7
<1> QED
  BY <1>2, <1>6, <1>8, <1>9, <1>10, SafetyProcess

\* A lost process has no role, and shows in its generation.
LEMMA SafetyFault ==
    ASSUME SafetyInv, NEW r \in Replica,
           Fault(r) \/ Reconnect(r) \/ (PatchLabel /\ r = op.pending.target)
    PROVE  SafetyInv'
<1> DEFINE p == rep[r]
<1>1. IsProcess(p) /\ p.gen \in Nat
  BY DEF SafetyInv, IInv, ShapeInv
<1>2. IInv' /\ UNCHANGED <<op, net, acked>>
  BY FaultStep DEF SafetyInv, Fault, Disconnect, ReplacePod, RestartContainer, Reconnect, PatchLabel
<1>3. ASSUME NEW v, rep' = [rep EXCEPT ![r] = v],
             \E f \in {"up", "label"} : \E x : v = [p EXCEPT ![f] = x]
      PROVE  SafetyInv'
  <2>1. /\ v.gen = p.gen /\ v.active = p.active /\ v.inst = p.inst /\ v.role = p.role
        /\ v.epoch = p.epoch /\ v.deact = p.deact /\ v.retained = p.retained
        /\ v.catchUp = p.catchUp /\ v.lsn = p.lsn /\ v.committed = p.committed
        /\ v.healthy = p.healthy
    BY <1>1, <1>3 DEF IsProcess, IsRecord, ProcessFields
  <2>2. UntouchedRep => UntouchedProcess(v)
    BY <2>1 DEF UntouchedRep, UntouchedProcess
  <2>3. \A lsn : Kept(p, lsn) => Kept(v, lsn)
    BY <2>1, SameProgress
  <2>4. v.gen \in Nat /\ v.gen >= rep[r].gen
    BY <1>1, <2>1
  <2>5. ~op.confirmed =>
           /\ v.active # NoAction => v.active.kind = "RecordStartingConfiguration"
           /\ \A lsn : Kept(rep[r], lsn) => Kept(v, lsn)
    BY <2>1, <2>3 DEF SafetyInv, PristineRep
  <2>6. ~op.confirmed /\ UntouchedRep /\ v.gen = rep[r].gen => UntouchedProcess(v)
    BY <2>2
  <2> QED
    BY <1>2, <1>3, <2>4, <2>5, <2>6, SafetyProcess
<1>4. ASSUME NEW v, rep' = [rep EXCEPT ![r] = v],
             v.gen = p.gen + 1, v.active = NoAction, v.role = "None"
      PROVE  SafetyInv'
  <2>1. v.gen \in Nat /\ v.gen > rep[r].gen
    BY <1>1, <1>4
  <2>2. \A lsn : Kept(v, lsn)
    BY <1>4 DEF Kept, Roles
  <2>3. v.gen >= rep[r].gen /\ v.gen # rep[r].gen
    BY <1>1, <2>1
  <2> QED
    BY <1>2, <1>4, <2>1, <2>2, <2>3, SafetyProcess
<1>5. CASE Disconnect(r)
  <2>1. rep' = [rep EXCEPT ![r] = [p EXCEPT !["up"] = FALSE]]
    BY <1>5 DEF Disconnect
  <2> QED
    BY <1>3, <2>1
<1>6. CASE Reconnect(r)
  <2>1. rep' = [rep EXCEPT ![r] = [p EXCEPT !["up"] = TRUE]]
    BY <1>6 DEF Reconnect
  <2> QED
    BY <1>3, <2>1
<1>7. CASE PatchLabel /\ r = op.pending.target
  <2>1. rep' = [rep EXCEPT ![r] = [p EXCEPT !["label"] = LabelOf(r)]]
    BY <1>7 DEF PatchLabel
  <2> QED
    BY <1>3, <2>1
<1>8. IsProcess(BlankProcess(p)) /\ BlankProcess(p).gen = p.gen + 1
      /\ BlankProcess(p).active = NoAction /\ BlankProcess(p).role = "None"
  BY <1>1, ZenonT(60) DEF BlankProcess, IsProcess, IsRecord, ProcessFields
<1>9. CASE RestartContainer(r)
  <2>1. rep' = [rep EXCEPT ![r] = BlankProcess(p)]
    BY <1>9 DEF RestartContainer
  <2> QED
    BY <1>4, <1>8, <2>1
<1>10. CASE ReplacePod(r)
  <2> DEFINE v == [BlankProcess(p) EXCEPT !.inst = @ + 1]
  <2>1. rep' = [rep EXCEPT ![r] = v]
    BY <1>10 DEF ReplacePod
  <2>2. v.gen = p.gen + 1 /\ v.active = NoAction /\ v.role = "None"
    BY <1>8 DEF IsProcess, IsRecord, ProcessFields
  <2> QED
    BY <1>4, <2>1, <2>2
<1> QED
  BY <1>5, <1>6, <1>7, <1>9, <1>10 DEF Fault

-----------------------------------------------------------------------------
(* Steps of the operator.                                                  *)

\* A step that decides nothing: what is known of the replicas stays true.
SafeNext(n) ==
    /\ ChoiceInv(n)
    /\ n.confirmed = op.confirmed /\ n.dataLoss = op.dataLoss
    /\ LossDecided(n) => LossDecided(op) /\ n.obs = op.obs
    /\ ~op.confirmed =>
          \A h : PristineOp(op, h) /\ PristineRep(h) =>
             /\ PristineOp(n, h)
             /\ UntouchedOp(op) /\ UntouchedRep => UntouchedOp(n)

LEMMA SafeStep ==
    ASSUME SafetyInv, IInv', SafeNext(op'), UNCHANGED <<rep, net, acked>>
    PROVE  SafetyInv'
<1>1. acked' \in Nat /\ ChoiceInv(op)'
  <2>1. ChoiceInv(op')
    BY DEF SafeNext
  <2> QED
    BY <2>1 DEF SafetyInv, ChoiceInv
<1>2. Alive' <=> Alive
  BY DEF Alive
<1>3. (LossDecided(op) => ~Alive \/ Mismatched(op))'
  <2>1. LossDecided(op') => LossDecided(op) /\ op'.obs = op.obs
    BY DEF SafeNext
  <2> QED
    BY <1>2, <2>1 DEF SafetyInv, LossDecided, Mismatched
<1>4. ASSUME ~op'.confirmed
      PROVE  /\ (\E h \in Histories : PristineOp(op, h) /\ PristineRep(h))'
             /\ (Alive => UntouchedOp(op) /\ UntouchedRep)'
  <2>1. ~op.confirmed
    BY <1>4 DEF SafeNext
  <2>2. PICK h \in Histories : PristineOp(op, h) /\ PristineRep(h)
    BY <2>1 DEF SafetyInv
  <2>3. /\ PristineOp(op', h)
        /\ UntouchedOp(op) /\ UntouchedRep => UntouchedOp(op')
    BY <2>1, <2>2 DEF SafeNext
  <2>4. PristineOp(op, h)' /\ h \in Histories' /\ PristineRep(h)'
    BY <2>2, <2>3 DEF PristineOp, Histories, PristineRep
  <2>5. UntouchedRep => UntouchedRep'
    BY DEF UntouchedRep, UntouchedProcess
  <2>6. UntouchedOp(op') => UntouchedOp(op)'
    BY DEF UntouchedOp
  <2> QED
    BY <1>2, <2>1, <2>3, <2>4, <2>5, <2>6 DEF SafetyInv
<1> QED
  BY <1>1, <1>3, <1>4 DEF SafetyInv

LEMMA SafetyFacts ==
    ASSUME SafetyInv
    PROVE  /\ IInv /\ IsRecord(op, OperationFields) /\ ChoiceInv(op) /\ OperationInv(op)
           /\ DOMAIN op.current \subseteq Replica /\ op.secIndex \in Nat
BY OperationFacts DEF SafetyInv, ChoiceInv

\* A step that moves to another phase, or a position on.
LEMMA MinorStep ==
    ASSUME SafetyInv, NEW n, n.pending = NoAction,
           n.current = op.current, n.obs = op.obs, n.unavailable = op.unavailable,
           n.confirmed = op.confirmed, n.dataLoss = op.dataLoss, n.primary = op.primary,
           n.insts = op.insts, n.secIndex \in Nat, n.waitIndex = op.waitIndex,
           op.confirmed => n.phase \notin Undecided,
           n.phase = "RefreshCandidate" => op.dataLoss,
           n.phase = "PersistConfigurationEpoch" => op.phase = n.phase
    PROVE  SafeNext(n)
<1>1. ChoiceInv(n)
  BY SafetyFacts DEF ChoiceInv
<1>2. \A h : PristineOp(op, h) => PristineOp(n, h)
  BY DEF PristineOp
<1>3. UntouchedOp(op) => UntouchedOp(n)
  BY DEF UntouchedOp
<1> QED
  BY <1>1, <1>2, <1>3 DEF SafeNext, LossDecided

LEMMA SafePoison ==
    ASSUME SafetyInv
    PROVE  SafeNext(Poison(op))
<1> DEFINE n == Poison(op)
<1>1. /\ n.phase = "Poisoned" /\ n.pending = NoAction
      /\ n.current = op.current /\ n.obs = op.obs /\ n.unavailable = op.unavailable
      /\ n.confirmed = op.confirmed /\ n.dataLoss = op.dataLoss /\ n.primary = op.primary
      /\ n.insts = op.insts /\ n.secIndex = op.secIndex /\ n.waitIndex = op.waitIndex
  BY SafetyFacts DEF Poison, IsRecord, OperationFields
<1> HIDE DEF n
<1>2. n.phase \notin Undecided /\ n.secIndex \in Nat
  BY <1>1, SafetyFacts DEF Undecided
<1> QED
  BY <1>1, <1>2, MinorStep DEF n

LEMMA SafePhase ==
    ASSUME SafetyInv, NEW phase, op.confirmed => phase \notin Undecided,
           phase = "RefreshCandidate" => op.dataLoss,
           phase # "PersistConfigurationEpoch"
    PROVE  SafeNext(WithPhase(op, phase))
<1> DEFINE n == WithPhase(op, phase)
<1>1. /\ n.phase = phase /\ n.pending = NoAction
      /\ \A f \in OperationFields \ {"phase", "pending"} : n[f] = op[f]
  BY SafetyFacts, WithPhaseFields
<1> HIDE DEF n
<1>2. /\ n.current = op.current /\ n.obs = op.obs /\ n.unavailable = op.unavailable
      /\ n.confirmed = op.confirmed /\ n.dataLoss = op.dataLoss /\ n.primary = op.primary
      /\ n.insts = op.insts /\ n.secIndex = op.secIndex /\ n.waitIndex = op.waitIndex
  BY <1>1 DEF OperationFields
<1>3. n.secIndex \in Nat
  BY <1>2, SafetyFacts
<1> QED
  BY <1>1, <1>2, <1>3, MinorStep DEF n

LEMMA MinIn ==
    ASSUME NEW S \in SUBSET Nat, S # {}
    PROVE  Min(S) \in S
BY NatMin DEF Min

\* Only a lost process is replaced.
LEMMA SafeReplacement ==
    ASSUME SafetyInv, AdoptReplacement \/ RemoveReplaced \/ RejectReplacement
    PROVE  SafeNext(op')
<1> DEFINE m == Min(Drifted)
<1>1. op.phase # "Completed" /\ Drifted # {}
  BY DEF AdoptReplacement, RemoveReplaced, RejectReplacement
<1>2. Drifted \subseteq Configured /\ Configured \subseteq Replica
  BY SafetyFacts DEF Drifted, Configured
<1>3. m \in Drifted
  BY <1>1, <1>2, MinIn, ReplicaAssumption
<1>4. m \in Replica /\ m \in DOMAIN op.current /\ ~op.current[m].dropped /\ rep[m].inst # op.current[m].inst
  BY <1>2, <1>3 DEF Drifted, Configured
<1>5. CASE AdoptReplacement
  <2> DEFINE o == WithPhase(op, "RecordStartingConfiguration")
             fresh == [inst |-> rep[m].inst, dropped |-> FALSE, known |-> Unknown]
  <2>1. /\ ~op.confirmed
        /\ op' = [o EXCEPT !.current[m] = fresh,
                           !.obs = Without(@, m), !.unavailable = @ \ {m},
                           !.cfgIndex = 0, !.waitIndex = 0]
    BY <1>5 DEF AdoptReplacement, Persist
  <2>2. /\ IsRecord(o, OperationFields)
        /\ o.phase = "RecordStartingConfiguration" /\ o.pending = NoAction
        /\ \A f \in OperationFields \ {"phase", "pending"} : o[f] = op[f]
    BY SafetyFacts, WithPhaseFields
  <2>3. fresh.dropped = FALSE
    OBVIOUS
  <2> HIDE DEF o, m, fresh
  <2>4. /\ op'.phase = o.phase /\ op'.pending = NoAction
        /\ op'.confirmed = o.confirmed /\ op'.dataLoss = o.dataLoss
        /\ op'.primary = o.primary /\ op'.insts = o.insts /\ op'.secIndex = o.secIndex
        /\ op'.current = [o.current EXCEPT ![m] = fresh]
        /\ op'.obs = Without(o.obs, m) /\ op'.unavailable = o.unavailable \ {m}
        /\ op'.waitIndex = 0
    BY <2>1, <2>2 DEF IsRecord, OperationFields
  <2>5. /\ op'.confirmed = op.confirmed /\ op'.dataLoss = op.dataLoss
        /\ op'.primary = op.primary /\ op'.insts = op.insts /\ op'.secIndex = op.secIndex
        /\ op'.current = [op.current EXCEPT ![m] = fresh]
        /\ op'.obs = Without(op.obs, m) /\ op'.unavailable = op.unavailable \ {m}
    BY <2>2, <2>4 DEF OperationFields
  <2>6. ChoiceInv(op')
    BY <2>1, <2>2, <2>4, <2>5, SafetyFacts DEF ChoiceInv
  <2>7. ASSUME NEW h, PristineOp(op, h)
        PROVE  PristineOp(op', h)
    <3>1. m # Failed /\ DOMAIN op'.current = Replica
      BY <1>4, <2>5, <2>7 DEF PristineOp
    <3>2. \A x \in Replica : op'.current[x].dropped <=> x = Failed
      BY <1>4, <2>3, <2>5, <2>7, <3>1 DEF PristineOp
    <3>3. /\ DOMAIN op'.obs \subseteq DOMAIN op.obs /\ op'.unavailable \subseteq op.unavailable
          /\ \A x \in DOMAIN op'.obs : op'.obs[x] = op.obs[x]
      BY <2>5 DEF Without
    <3> QED
      BY <2>4, <2>7, <3>1, <3>2, <3>3 DEF PristineOp
  <2>8. ~(UntouchedOp(op) /\ UntouchedRep)
    BY <1>4 DEF UntouchedOp, UntouchedRep, UntouchedProcess
  <2> QED
    BY <2>1, <2>5, <2>6, <2>7, <2>8, SafetyFacts DEF SafeNext, ChoiceInv, LossDecided
<1>6. CASE RemoveReplaced
  <2> DEFINE o == WithPhase(op, "CatchUpConfiguration")
  <2>1. /\ op.promoted /\ m # op.primary
        /\ op' = [o EXCEPT !.insts = Without(@, m), !.current = Without(@, m),
                           !.obs = Without(@, m), !.attested = Without(@, m),
                           !.secIndex = 0, !.cfgIndex = 0, !.labelIndex = 0]
    BY <1>6 DEF RemoveReplaced, Persist
  <2>2. /\ IsRecord(o, OperationFields)
        /\ o.phase = "CatchUpConfiguration" /\ o.pending = NoAction
        /\ \A f \in OperationFields \ {"phase", "pending"} : o[f] = op[f]
    BY SafetyFacts, WithPhaseFields
  <2> HIDE DEF o, m
  <2>3. /\ op'.phase = o.phase /\ op'.pending = NoAction
        /\ op'.confirmed = o.confirmed /\ op'.dataLoss = o.dataLoss
        /\ op'.primary = o.primary /\ op'.insts = Without(o.insts, m) /\ op'.secIndex = 0
        /\ op'.obs = Without(o.obs, m)
    BY <2>1, <2>2 DEF IsRecord, OperationFields
  <2>4. /\ op'.confirmed = op.confirmed /\ op'.dataLoss = op.dataLoss
        /\ op'.primary = op.primary /\ op'.insts = Without(op.insts, m)
        /\ op'.obs = Without(op.obs, m)
    BY <2>2, <2>3 DEF OperationFields
  <2>5. op.confirmed /\ op'.phase \notin Undecided /\ op'.phase # "RefreshCandidate"
    BY <2>1, <2>2, <2>3, SafetyFacts DEF OperationInv, Undecided
  <2>6. DOMAIN op'.insts \subseteq DOMAIN op.insts
        /\ \A x \in DOMAIN op.obs \ {m} : x \in DOMAIN op'.obs /\ op'.obs[x] = op.obs[x]
    BY <2>4 DEF Without
  <2>7. ChoiceInv(op')
    <3>1. ChoiceInv(op)
      BY SafetyFacts
    <3>2. op'.primary \in Replica /\ DOMAIN op'.insts \subseteq Replica /\ op'.secIndex \in Nat
      BY <2>3, <2>4, <2>6, <3>1 DEF ChoiceInv
    <3>3. ~op'.dataLoss => op'.primary \in DOMAIN op'.obs /\ op'.obs[op'.primary].lsn >= acked
      BY <2>1, <2>4, <2>5, <2>6, <3>1 DEF ChoiceInv
    <3> QED
      BY <2>3, <2>4, <2>5, <3>2, <3>3 DEF ChoiceInv
  <2> QED
    BY <2>2, <2>3, <2>4, <2>5, <2>7 DEF SafeNext, LossDecided
<1>7. CASE RejectReplacement
  BY <1>7, SafePoison DEF RejectReplacement, Persist
<1> QED
  BY <1>5, <1>6, <1>7

\* An answer is of the replica as it is.
LEMMA SafeObservation ==
    ASSUME SafetyInv, ~op.confirmed, NEW m \in Others, NEW n,
           n.pending = op.pending, n.current = op.current,
           n.confirmed = op.confirmed, n.dataLoss = op.dataLoss, n.primary = op.primary,
           n.insts = op.insts, n.secIndex = op.secIndex, n.waitIndex \in Nat,
           n.phase # "RefreshCandidate",
           n.obs \in {op.obs, With(op.obs, m, Observe(m, StartingConfig))},
           n.unavailable \subseteq op.unavailable \cup {m}
    PROVE  SafeNext(n)
<1>1. ChoiceInv(n)
  BY SafetyFacts DEF ChoiceInv
<1> DEFINE seen == Observe(m, StartingConfig)
<1>2. /\ seen.inst = rep[m].inst /\ seen.epoch = rep[m].epoch /\ seen.role = rep[m].role
      /\ seen.healthy = rep[m].healthy /\ seen.lsn = rep[m].lsn
      /\ seen.committed = rep[m].committed /\ seen.retained = rep[m].retained
      /\ seen.deact = rep[m].deact /\ seen.catchUp = rep[m].catchUp
  BY DEF Observe
<1> HIDE DEF seen
<1>3. m \in Replica
  BY DEF Others
<1>4. /\ DOMAIN n.obs \subseteq DOMAIN op.obs \cup {m}
      /\ \A x \in DOMAIN n.obs :
            (x \in DOMAIN op.obs /\ n.obs[x] = op.obs[x]) \/ (x = m /\ n.obs[x] = seen)
  BY DEF With, seen
<1>5. ASSUME NEW h, PristineOp(op, h), PristineRep(h)
      PROVE  PristineOp(n, h)
  <2>1. Kept(seen, h[m])
    <3>1. Kept(rep[m], h[m])
      BY <1>3, <1>5 DEF PristineRep
    <3> QED
      BY <1>2, <3>1, SameProgress
  <2>2. \A x \in DOMAIN n.obs : Kept(n.obs[x], h[x])
    BY <1>4, <1>5, <2>1 DEF PristineOp
  <2>3. DOMAIN n.obs \subseteq Others /\ n.unavailable \subseteq Others
    BY <1>4, <1>5 DEF PristineOp
  <2> QED
    BY <1>5, <2>2, <2>3 DEF PristineOp
<1>6. ASSUME UntouchedOp(op), UntouchedRep
      PROVE  UntouchedOp(n)
  <2>1. seen.inst = 0 /\ seen.role \in Roles /\ seen.healthy
    BY <1>2, <1>3, <1>6 DEF UntouchedRep, UntouchedProcess
  <2>2. \A x \in DOMAIN n.obs :
           n.obs[x].inst = 0 /\ n.obs[x].role \in Roles /\ n.obs[x].healthy
    BY <1>4, <1>6, <2>1 DEF UntouchedOp
  <2> QED
    BY <1>6, <2>2 DEF UntouchedOp
<1>7. ~LossDecided(n)
  BY SafetyFacts DEF ChoiceInv, LossDecided
<1> QED
  BY <1>1, <1>5, <1>6, <1>7 DEF SafeNext

LEMMA SafeWithObservation ==
    ASSUME SafetyInv, ~op.confirmed, NEW m \in Others
    PROVE  LET n == WithObservation(m)
           IN  /\ IsRecord(n, OperationFields) /\ n.phase \in {"Collect", "Assess"}
               /\ n.obs = With(op.obs, m, Observe(m, StartingConfig))
               /\ n.unavailable = op.unavailable \ {m}
               /\ \A f \in OperationFields \ {"phase", "obs", "unavailable"} : n[f] = op[f]
<1> DEFINE next == [op EXCEPT !.obs = With(@, m, Observe(m, StartingConfig)), !.unavailable = @ \ {m}]
<1>1. /\ IsRecord(next, OperationFields)
      /\ next.obs = With(op.obs, m, Observe(m, StartingConfig))
      /\ next.unavailable = op.unavailable \ {m}
  BY SafetyFacts DEF IsRecord, OperationFields
<1>2. WithObservation(m) = next \/ WithObservation(m) = [next EXCEPT !.phase = "Assess"]
  BY DEF WithObservation
<1> HIDE DEF next
<1>3. /\ WithObservation(m).obs = With(op.obs, m, Observe(m, StartingConfig))
      /\ WithObservation(m).unavailable = op.unavailable \ {m}
  BY <1>1, <1>2 DEF IsRecord, OperationFields
<1> QED
  BY <1>3, SafetyFacts, ObservationFields

\* The operation waits for members that are not the failed primary.
LEMMA ProbeIsOther ==
    ASSUME SafetyInv, ~op.confirmed, Len(WaitProbes) > 0
    PROVE  WaitProbe \in Others /\ Rotated \in Nat
<1>1. PICK h \in Histories : PristineOp(op, h)
  BY DEF SafetyInv
<1> DEFINE S == op.unavailable \cup
                {m \in DOMAIN op.obs :
                    /\ op.obs[m].role \in {"Primary", "ActiveSecondary"}
                    /\ \/ op.obs[m].epoch # StartEpoch
                       \/ ~op.obs[m].healthy
                       \/ op.obs[m].retained = Unknown}
<1>2. WaitProbes = InOrder(S)
  BY DEF WaitProbes
<1>3. S \subseteq Others /\ op.waitIndex \in Nat
  BY <1>1 DEF PristineOp
<1> HIDE DEF S
<1>4. S \in SUBSET Nat /\ IsFiniteSet(S)
  BY <1>3, ReplicaAssumption, FS_Subset DEF Others
<1> DEFINE c == Cardinality(S)
<1>5. c \in Nat
  BY <1>4, FS_CardinalityType
<1>6. Len(WaitProbes) = c
  BY <1>2, <1>5 DEF InOrder
<1> HIDE DEF c
<1>7. (op.waitIndex % c) \in 0..(c - 1) /\ (op.waitIndex + 1) % c \in Nat
  BY <1>3, <1>5, <1>6
<1>8. (op.waitIndex % c) + 1 \in 1..c
  BY <1>5, <1>7
<1>9. InOrder(S)[(op.waitIndex % c) + 1] \in S
  BY <1>4, <1>8, InOrderIn DEF c
<1> QED
  BY <1>2, <1>3, <1>6, <1>7, <1>9 DEF WaitProbe, Rotated

LEMMA SafeCollect ==
    ASSUME SafetyInv, CollectObservation \/ CollectDone \/ ProbeWaiting
    PROVE  SafeNext(op')
<1>1. op.phase \in {"Collect", "WaitForBestCandidate", "WaitForReadQuorum"}
  BY DEF CollectObservation, CollectDone, ProbeWaiting, Waiting
<1>2. ~op.confirmed /\ IsRecord(op, OperationFields)
  BY <1>1, SafetyFacts DEF ChoiceInv, Undecided
<1>3. PICK h \in Histories : PristineOp(op, h)
  BY <1>2 DEF SafetyInv
<1>4. op.waitIndex \in Nat
  BY <1>3 DEF PristineOp
<1>5. CASE CollectObservation
  <2> DEFINE m == Min(NextUnobserved)
  <2>1. NextUnobserved # {} /\ NextUnobserved \subseteq Others
    BY <1>3, <1>5 DEF CollectObservation, NextUnobserved, Configured, PristineOp, Others
  <2>2. m \in Others
    BY <2>1, MinIn, ReplicaAssumption DEF Others
  <2>3. op' = WithObservation(m) \/ op' = [op EXCEPT !.unavailable = @ \cup {m}]
    BY <1>5 DEF CollectObservation, Persist
  <2> HIDE DEF m
  <2>4. CASE op' = WithObservation(m)
    <3>1. /\ op'.phase \in {"Collect", "Assess"}
          /\ op'.obs = With(op.obs, m, Observe(m, StartingConfig))
          /\ op'.unavailable = op.unavailable \ {m}
          /\ \A f \in OperationFields \ {"phase", "obs", "unavailable"} : op'[f] = op[f]
      BY <1>2, <2>2, <2>4, SafeWithObservation
    <3>2. /\ op'.pending = op.pending /\ op'.current = op.current
          /\ op'.confirmed = op.confirmed /\ op'.dataLoss = op.dataLoss
          /\ op'.primary = op.primary /\ op'.insts = op.insts
          /\ op'.secIndex = op.secIndex /\ op'.waitIndex = op.waitIndex
      BY <3>1 DEF OperationFields
    <3> QED
      BY <1>2, <1>4, <2>2, <3>1, <3>2, SafeObservation
  <2>5. CASE op' = [op EXCEPT !.unavailable = @ \cup {m}]
    <3>1. /\ op'.phase = op.phase /\ op'.obs = op.obs
          /\ op'.unavailable = op.unavailable \cup {m}
          /\ op'.pending = op.pending /\ op'.current = op.current
          /\ op'.confirmed = op.confirmed /\ op'.dataLoss = op.dataLoss
          /\ op'.primary = op.primary /\ op'.insts = op.insts
          /\ op'.secIndex = op.secIndex /\ op'.waitIndex = op.waitIndex
      BY <1>2, <2>5 DEF IsRecord, OperationFields
    <3> QED
      BY <1>1, <1>2, <1>4, <2>2, <3>1, SafeObservation
  <2> QED
    BY <2>3, <2>4, <2>5
<1>6. CASE CollectDone
  BY <1>2, <1>6, SafePhase DEF CollectDone, Persist
<1>7. CASE ProbeWaiting
  <2> DEFINE m == WaitProbe
             o == IF rep[m].up THEN WithObservation(m) ELSE op
  <2>1. op' = [o EXCEPT !.waitIndex = Rotated] /\ Len(WaitProbes) > 0
    BY <1>7 DEF ProbeWaiting, Persist
  <2>2. m \in Others /\ Rotated \in Nat
    BY <1>2, <2>1, ProbeIsOther
  <2> HIDE DEF m
  <2>3. /\ IsRecord(o, OperationFields) /\ o.phase \in {"Collect", "Assess", op.phase}
        /\ o.obs \in {op.obs, With(op.obs, m, Observe(m, StartingConfig))}
        /\ o.unavailable \subseteq op.unavailable
        /\ \A f \in OperationFields \ {"phase", "obs", "unavailable"} : o[f] = op[f]
    BY <1>2, <2>2, SafeWithObservation
  <2> HIDE DEF o
  <2>4. /\ op'.waitIndex = Rotated
        /\ \A f \in OperationFields \ {"waitIndex"} : op'[f] = o[f]
    BY <2>1, <2>3 DEF IsRecord, OperationFields
  <2>5. /\ op'.pending = op.pending /\ op'.current = op.current
        /\ op'.confirmed = op.confirmed /\ op'.dataLoss = op.dataLoss
        /\ op'.primary = op.primary /\ op'.insts = op.insts /\ op'.secIndex = op.secIndex
        /\ op'.phase = o.phase /\ op'.obs = o.obs /\ op'.unavailable = o.unavailable
    BY <2>3, <2>4 DEF OperationFields
  <2>6. op'.phase # "RefreshCandidate" /\ op'.waitIndex \in Nat
    BY <1>1, <2>2, <2>3, <2>4, <2>5
  <2> QED
    BY <1>2, <2>2, <2>3, <2>5, <2>6, SafeObservation
<1> QED
  BY <1>5, <1>6, <1>7

\* decide_assessment: the operation chooses on the evidence of a read quorum,
\* or after a process was lost.
LEMMA SafetyAssess ==
    ASSUME SafetyInv, IInv', Assess, UNCHANGED <<rep, net, acked>>
    PROVE  SafetyInv'
<1>1. op.phase = "Assess" /\ op.pending = NoAction
  <2>1. op.phase = "Assess"
    BY DEF Assess
  <2> QED
    BY <2>1, SafetyFacts, OperationFacts, ActionPhases
<1>2. ~op.confirmed /\ IsRecord(op, OperationFields)
  BY <1>1, SafetyFacts DEF ChoiceInv, Undecided
<1>3. PICK h \in Histories : PristineOp(op, h)
  BY <1>2 DEF SafetyInv
<1> DEFINE d == Evaluate(ElectionInput)
           members == TargetMembers(ElectionInput, d.candidate)
           insts == [m \in members |-> op.obs[m].inst]
           lost == (d.kind = "DataLossRequired")
           chosen == [op EXCEPT !.phase = "PersistConfigurationEpoch", !.primary = d.candidate,
                                !.insts = insts, !.confirmed = TRUE, !.dataLoss = lost]
<1>4. CASE d.kind = "Error"
  <2>1. op' = Poison(op)
    BY <1>4, AssessedInput, Zenon DEF AssessInput, Persist
  <2> QED
    BY <2>1, SafePoison, SafeStep
<1>5. CASE d.kind = "WaitForBestCandidate"
  <2>1. op' = WithPhase(op, "WaitForBestCandidate")
    BY <1>5, AssessedInput, Zenon DEF AssessInput, Persist
  <2>2. SafeNext(op')
    BY <1>2, <2>1, SafePhase
  <2> QED
    BY <2>2, SafeStep
<1>6. CASE d.kind = "WaitForQuorum"
  <2>1. op' = WithPhase(op, "WaitForReadQuorum")
    BY <1>6, AssessedInput, Zenon DEF AssessInput, Persist
  <2>2. SafeNext(op')
    BY <1>2, <2>1, SafePhase
  <2> QED
    BY <2>2, SafeStep
<1>7. CASE d.kind \notin {"Error", "WaitForBestCandidate", "WaitForQuorum"}
  <2>1. op' = IF Cardinality(members) < MinReplicas THEN Poison(op) ELSE chosen
    BY <1>7, AssessedInput, Zenon DEF AssessInput, Persist
  <2>2. op' = Poison(op) \/ op' = chosen
    BY <2>1, Zenon
  <2>3. /\ d.candidate \in Replica /\ d.candidate \in DOMAIN op.obs
        /\ ~lost => op.obs[d.candidate].lsn >= acked
        /\ lost => ~UntouchedOp(op) \/ Mismatched(op)
        /\ members \subseteq Replica
    BY <1>3, <1>7, DecisionFacts DEF SafetyInv
  <2>4. DOMAIN insts = members
    OBVIOUS
  <2> DEFINE c == d.candidate
  <2> HIDE DEF d, members, insts, lost, c
  <2>5. CASE op' = chosen
    <3>1. /\ op'.phase = "PersistConfigurationEpoch" /\ op'.primary = c
          /\ op'.insts = insts /\ op'.confirmed = TRUE /\ op'.dataLoss = lost
          /\ op'.obs = op.obs /\ op'.pending = NoAction /\ op'.secIndex = op.secIndex
      BY <1>1, <1>2, <2>5 DEF IsRecord, OperationFields, c
    <3>2. op'.phase \notin Undecided /\ op'.phase # "RefreshCandidate"
      BY <3>1 DEF Undecided
    <3>3. op'.primary \in Replica /\ DOMAIN op'.insts \subseteq Replica /\ op'.secIndex \in Nat
      BY <2>3, <2>4, <3>1, SafetyFacts DEF c
    <3>4. op'.primary \in DOMAIN op'.obs
      BY <2>3, <3>1 DEF c
    <3>5. ~op'.dataLoss => op'.obs[op'.primary].lsn >= acked'
      BY <2>3, <3>1 DEF c
    <3>6. ChoiceInv(op)'
      BY <3>1, <3>2, <3>3, <3>4, <3>5 DEF ChoiceInv
    <3>7. (LossDecided(op) => ~Alive \/ Mismatched(op))'
      BY <1>2, <2>3, <3>1 DEF SafetyInv, Alive, LossDecided, Mismatched
    <3> QED
      BY <3>1, <3>6, <3>7 DEF SafetyInv
  <2> QED
    BY <2>2, <2>5, SafePoison, SafeStep
<1> QED
  BY <1>4, <1>5, <1>6, <1>7

\* After the decision nothing but the candidate's data is at stake.
LEMMA DecidedStep ==
    ASSUME SafetyInv, op.confirmed, NEW n, n.pending = NoAction,
           n.confirmed = op.confirmed, n.dataLoss = op.dataLoss, n.primary = op.primary,
           DOMAIN n.insts \subseteq Replica, n.secIndex \in Nat,
           n.phase \notin Undecided, n.phase = "RefreshCandidate" => op.dataLoss,
           n.phase = "PersistConfigurationEpoch" => op.phase = n.phase,
           n.obs = op.obs \/ (op.dataLoss /\ n.phase # "PersistConfigurationEpoch")
    PROVE  SafeNext(n)
BY SafetyFacts DEF SafeNext, ChoiceInv, LossDecided

LEMMA SafePersisted ==
    ASSUME SafetyInv, PersistConfigurationEpoch \/ PersistDataLossEpoch \/ RefreshCandidate
                      \/ CommitPromotion \/ Attest \/ CompleteFailover
    PROVE  SafeNext(op')
<1>1. /\ op.phase \in {"PersistConfigurationEpoch", "PersistDataLossEpoch", "RefreshCandidate",
                       "CommitPromotion", "Attest"}
      /\ op.confirmed /\ op.pending = NoAction
  <2>1. op.phase \in {"PersistConfigurationEpoch", "PersistDataLossEpoch", "RefreshCandidate",
                      "CommitPromotion", "Attest"}
    BY DEF PersistConfigurationEpoch, PersistDataLossEpoch, RefreshCandidate, CommitPromotion,
           Attest, CompleteFailover
  <2> QED
    BY <2>1, SafetyFacts, OperationFacts, ActionPhases DEF OperationInv, Undecided
<1>2. IsRecord(op, OperationFields) /\ ChoiceInv(op)
  BY SafetyFacts
<1>3. CASE PersistConfigurationEpoch \/ PersistDataLossEpoch
  <2>1. \E epoch, phase :
           /\ phase \in {"PersistDataLossEpoch", "ApplyCandidateEpoch"}
           /\ op' = [op EXCEPT !.epoch = epoch, !.phase = phase]
    BY <1>3 DEF PersistConfigurationEpoch, PersistDataLossEpoch, Persist
  <2>2. PICK epoch, phase :
           /\ phase \in {"PersistDataLossEpoch", "ApplyCandidateEpoch"}
           /\ op' = [op EXCEPT !.epoch = epoch, !.phase = phase]
    BY <2>1
  <2>3. /\ op'.phase = phase /\ op'.pending = NoAction
        /\ op'.confirmed = op.confirmed /\ op'.dataLoss = op.dataLoss
        /\ op'.primary = op.primary /\ op'.insts = op.insts
        /\ op'.secIndex = op.secIndex /\ op'.obs = op.obs
    BY <1>1, <1>2, <2>2 DEF IsRecord, OperationFields
  <2>4. /\ op'.phase \notin Undecided /\ op'.phase # "RefreshCandidate"
        /\ DOMAIN op'.insts \subseteq Replica /\ op'.secIndex \in Nat
    BY <1>2, <2>2, <2>3 DEF Undecided, ChoiceInv
  <2> QED
    BY <1>1, <2>2, <2>3, <2>4, DecidedStep
<1>4. CASE RefreshCandidate
  <2> DEFINE o == WithObservation(op.primary)
             n == [o EXCEPT !.phase = "PromoteCandidate"]
  <2>1. op.phase = "RefreshCandidate" /\ (op' = n \/ op' = Poison(op))
    BY <1>4 DEF RefreshCandidate, Persist
  <2>2. /\ IsRecord(o, OperationFields)
        /\ \A f \in OperationFields \ {"phase", "obs", "unavailable"} : o[f] = op[f]
    BY SafetyFacts, ObservationFields
  <2> HIDE DEF o
  <2>3. /\ n.phase = "PromoteCandidate"
        /\ \A f \in OperationFields \ {"phase"} : n[f] = o[f]
    BY <2>2 DEF IsRecord, OperationFields
  <2> HIDE DEF n
  <2>4. /\ n.pending = NoAction
        /\ n.confirmed = op.confirmed /\ n.dataLoss = op.dataLoss
        /\ n.primary = op.primary /\ n.insts = op.insts /\ n.secIndex = op.secIndex
    BY <1>1, <2>2, <2>3 DEF OperationFields
  <2>5. /\ n.phase \notin Undecided /\ n.phase # "RefreshCandidate" /\ op.dataLoss
        /\ DOMAIN n.insts \subseteq Replica /\ n.secIndex \in Nat
    BY <1>2, <2>1, <2>3, <2>4 DEF Undecided, ChoiceInv
  <2>6. SafeNext(n)
    BY <1>1, <2>3, <2>4, <2>5, DecidedStep
  <2> QED
    BY <2>1, <2>6, SafePoison
<1>5. CASE CommitPromotion
  <2> DEFINE o == WithPhase(op, "DistributeEpoch")
  <2>1. op' = [o EXCEPT !.promoted = TRUE, !.secIndex = 0]
    BY <1>5 DEF CommitPromotion
  <2>2. /\ IsRecord(o, OperationFields) /\ o.phase = "DistributeEpoch" /\ o.pending = NoAction
        /\ \A f \in OperationFields \ {"phase", "pending"} : o[f] = op[f]
    BY <1>2, WithPhaseFields
  <2> HIDE DEF o
  <2>3. /\ op'.secIndex = 0
        /\ \A f \in OperationFields \ {"promoted", "secIndex"} : op'[f] = o[f]
    BY <2>1, <2>2 DEF IsRecord, OperationFields
  <2>4. /\ op'.phase = "DistributeEpoch" /\ op'.pending = NoAction
        /\ op'.confirmed = op.confirmed /\ op'.dataLoss = op.dataLoss
        /\ op'.primary = op.primary /\ op'.insts = op.insts /\ op'.obs = op.obs
    BY <2>2, <2>3 DEF OperationFields
  <2>5. /\ op'.phase \notin Undecided /\ op'.phase # "RefreshCandidate"
        /\ DOMAIN op'.insts \subseteq Replica /\ op'.secIndex \in Nat
    BY <1>2, <2>3, <2>4 DEF Undecided, ChoiceInv
  <2> QED
    BY <1>1, <2>4, <2>5, DecidedStep
<1>6. CASE Attest
  <2>1. op.phase = "Attest" /\ \E m : op' = [op EXCEPT !.attested = With(@, m, Observe(m, TargetConfig)),
                                                       !.unavailable = @ \ {m}]
    BY <1>6 DEF Attest, Persist
  <2>2. PICK m : op' = [op EXCEPT !.attested = With(@, m, Observe(m, TargetConfig)),
                                  !.unavailable = @ \ {m}]
    BY <2>1
  <2>3. /\ op'.phase = op.phase /\ op'.pending = NoAction
        /\ op'.confirmed = op.confirmed /\ op'.dataLoss = op.dataLoss
        /\ op'.primary = op.primary /\ op'.insts = op.insts
        /\ op'.secIndex = op.secIndex /\ op'.obs = op.obs
    BY <1>1, <1>2, <2>2 DEF IsRecord, OperationFields
  <2>4. /\ op'.phase \notin Undecided /\ op'.phase # "RefreshCandidate"
        /\ DOMAIN op'.insts \subseteq Replica /\ op'.secIndex \in Nat
    BY <1>2, <2>1, <2>3 DEF Undecided, ChoiceInv
  <2> QED
    BY <1>1, <2>3, <2>4, DecidedStep
<1>7. CASE CompleteFailover
  <2>1. op' = WithPhase(op, "Completed") \/ op' = Poison(op)
    BY <1>7 DEF CompleteFailover, Persist
  <2>2. "Completed" \notin Undecided
    BY DEF Undecided
  <2> QED
    BY <2>1, <2>2, SafePoison, SafePhase
<1> QED
  BY <1>3, <1>4, <1>5, <1>6, <1>7

-----------------------------------------------------------------------------
(* The actions of a phase.                                                 *)

LEMMA InOrderNext ==
    ASSUME NEW S \in SUBSET Replica, NEW i \in Nat, i < Len(InOrder(S))
    PROVE  InOrder(S)[i + 1] \in S
<1>1. S \in SUBSET Nat /\ IsFiniteSet(S)
  BY ReplicaAssumption, FS_Subset
<1>2. Cardinality(S) \in Nat
  BY <1>1, FS_CardinalityType
<1>3. Len(InOrder(S)) = Cardinality(S)
  BY <1>2 DEF InOrder
<1>4. i + 1 \in 1..Cardinality(S)
  BY <1>2, <1>3
<1> QED
  BY <1>1, <1>4, InOrderIn

LEMMA TargetIsReplica ==
    ASSUME SafetyInv, Index < Len(Targets)
    PROVE  Targets[Index + 1] \in Replica
<1>1. /\ Configured \in SUBSET Replica /\ TargetReplicas \in SUBSET Replica
      /\ op.primary \in Replica /\ op.cfgIndex \in Nat /\ op.secIndex \in Nat
  BY SafetyFacts, OperationFacts DEF Configured, TargetReplicas, ChoiceInv
<1>2. CASE op.phase = "RecordStartingConfiguration"
  <2>1. Targets = InOrder(Configured) /\ Index = op.cfgIndex
    BY <1>2, Zenon DEF Targets, Index
  <2> QED
    BY <1>1, <2>1, InOrderNext
<1>3. CASE op.phase = "RecordElectionConfiguration"
  <2>1. Targets = InOrder(TargetReplicas) /\ Index = op.cfgIndex
    BY <1>3, Zenon DEF Targets, Index
  <2> QED
    BY <1>1, <2>1, InOrderNext
<1>4. CASE op.phase = "DistributeEpoch"
  <2>1. Targets = Secondaries /\ Index = op.secIndex
    BY <1>4, Zenon DEF Targets, Index
  <2> DEFINE S == TargetReplicas \ {op.primary}
  <2>2. Secondaries = InOrder(S) /\ S \in SUBSET Replica
    BY <1>1 DEF Secondaries
  <2> HIDE DEF S
  <2>3. InOrder(S)[op.secIndex + 1] \in S
    BY <1>1, <2>1, <2>2, InOrderNext
  <2> QED
    BY <2>1, <2>2, <2>3
<1>5. CASE op.phase \notin {"RecordStartingConfiguration", "RecordElectionConfiguration",
                            "DistributeEpoch"}
  <2>1. Targets = <<op.primary>> /\ Index = 0
    BY <1>5, Zenon DEF Targets, Index
  <2> QED
    BY <1>1, <2>1
<1> QED
  BY <1>2, <1>3, <1>4, <1>5

\* Only the pending action changes.
LEMMA SafePending ==
    ASSUME SafetyInv, NEW n, NEW a, n.pending = a,
           n.phase = op.phase, n.current = op.current, n.obs = op.obs,
           n.unavailable = op.unavailable, n.confirmed = op.confirmed,
           n.dataLoss = op.dataLoss, n.primary = op.primary, n.insts = op.insts,
           n.secIndex = op.secIndex, n.waitIndex = op.waitIndex,
           a.kind # "LabelMember" => a.target \in Replica
    PROVE  SafeNext(n)
<1>1. ChoiceInv(n)
  BY SafetyFacts DEF ChoiceInv
<1>2. \A h : PristineOp(op, h) => PristineOp(n, h)
  BY DEF PristineOp
<1>3. UntouchedOp(op) => UntouchedOp(n)
  BY DEF UntouchedOp
<1> QED
  BY <1>1, <1>2, <1>3 DEF SafeNext, LossDecided

LEMMA SafeBegin ==
    ASSUME SafetyInv, BeginAction
    PROVE  SafeNext(op')
<1> DEFINE kind == ActionKind[op.phase]
           a == MakePending(kind, Targets[Index + 1])
<1>1. op' = [op EXCEPT !.pending = a] /\ op.phase \in DOMAIN ActionKind
  BY DEF BeginAction, Persist
<1>2. Targets[Index + 1] \in Replica
  BY TargetIsReplica DEF BeginAction
<1>3. a.target \in Replica
  BY <1>2, MadePending
<1> HIDE DEF a
<1>4. /\ op'.pending = a
      /\ op'.phase = op.phase /\ op'.current = op.current /\ op'.obs = op.obs
      /\ op'.unavailable = op.unavailable /\ op'.confirmed = op.confirmed
      /\ op'.dataLoss = op.dataLoss /\ op'.primary = op.primary /\ op'.insts = op.insts
      /\ op'.secIndex = op.secIndex /\ op'.waitIndex = op.waitIndex
  BY <1>1, SafetyFacts DEF IsRecord, OperationFields
<1> QED
  BY <1>3, <1>4, SafePending

\* The operator notes its authorization, its evidence or a passed deadline.
LEMMA SafePendingField ==
    ASSUME SafetyInv, op.pending # NoAction, NEW v,
           \/ op' = [op EXCEPT !.pending.authorized = v]
           \/ op' = [op EXCEPT !.pending.evidence = v]
           \/ op' = [op EXCEPT !.pending.late = v]
    PROVE  SafeNext(op')
<1> DEFINE a == op'.pending
<1>1. IsRecord(op.pending, PendingFields)
  BY DEF SafetyInv, IInv, ShapeInv, IsOperation
<1>2. /\ \A f \in OperationFields \ {"pending"} : op'[f] = op[f]
      /\ \/ a = [op.pending EXCEPT !.authorized = v]
         \/ a = [op.pending EXCEPT !.evidence = v]
         \/ a = [op.pending EXCEPT !.late = v]
  BY SafetyFacts DEF IsRecord, OperationFields
<1>3. a.kind = op.pending.kind /\ a.target = op.pending.target
  BY <1>1, <1>2 DEF IsRecord, PendingFields
<1> HIDE DEF a
<1>4. /\ op'.pending = a
      /\ op'.phase = op.phase /\ op'.current = op.current /\ op'.obs = op.obs
      /\ op'.unavailable = op.unavailable /\ op'.confirmed = op.confirmed
      /\ op'.dataLoss = op.dataLoss /\ op'.primary = op.primary /\ op'.insts = op.insts
      /\ op'.secIndex = op.secIndex /\ op'.waitIndex = op.waitIndex
  BY <1>2 DEF OperationFields, a
<1>5. a.kind # "LabelMember" => a.target \in Replica
  BY <1>3, SafetyFacts DEF ChoiceInv
<1> QED
  BY <1>4, <1>5, SafePending

LEMMA SafeProbe ==
    ASSUME SafetyInv, ActionFailed \/ AuthorizeDispatch \/ PlanDispatch \/ SkipStartingRecord
                      \/ DeadlinePasses
    PROVE  SafeNext(op')
<1>1. CASE ActionFailed
  BY <1>1, SafePoison DEF ActionFailed, Persist
<1>2. CASE AuthorizeDispatch
  <2>1. op.pending # NoAction /\ op' = [op EXCEPT !.pending.authorized = TRUE]
    BY <1>2 DEF AuthorizeDispatch, Probing, Persist
  <2> QED
    BY <2>1, SafePendingField
<1>3. CASE PlanDispatch
  <2>1. op.pending # NoAction /\ op' = [op EXCEPT !.pending.evidence = Evidence]
    BY <1>3 DEF PlanDispatch, Dispatchable, Probing, Persist
  <2> QED
    BY <2>1, SafePendingField
<1>4. CASE SkipStartingRecord
  <2>1. op' = [op EXCEPT !.pending = NoAction, !.cfgIndex = @ + 1]
    BY <1>4 DEF SkipStartingRecord, Persist
  <2>2. /\ op'.pending = NoAction
        /\ op'.phase = op.phase /\ op'.current = op.current /\ op'.obs = op.obs
        /\ op'.unavailable = op.unavailable /\ op'.confirmed = op.confirmed
        /\ op'.dataLoss = op.dataLoss /\ op'.primary = op.primary /\ op'.insts = op.insts
        /\ op'.secIndex = op.secIndex /\ op'.waitIndex = op.waitIndex
    BY <2>1, SafetyFacts DEF IsRecord, OperationFields
  <2>3. /\ op.confirmed => op'.phase \notin Undecided
        /\ op'.phase = "RefreshCandidate" => op.dataLoss
        /\ op'.secIndex \in Nat
    BY <2>2, SafetyFacts DEF ChoiceInv
  <2> QED
    BY <2>2, <2>3, MinorStep
<1>5. CASE DeadlinePasses
  <2>1. op.pending # NoAction /\ op' = [op EXCEPT !.pending.late = TRUE]
    BY <1>5 DEF DeadlinePasses, Persist
  <2> QED
    BY <2>1, SafePendingField
<1> QED
  BY <1>1, <1>2, <1>3, <1>4, <1>5

LEMMA SafeLabel ==
    ASSUME SafetyInv, BeginLabel \/ LabelDone \/ AuthorizeLabel
    PROVE  SafeNext(op')
<1>1. op.phase = "LabelMembers"
  BY DEF BeginLabel, LabelDone, AuthorizeLabel
<1>2. op.confirmed
  BY <1>1, SafetyFacts DEF OperationInv, Undecided
<1>3. CASE BeginLabel
  <2> DEFINE a == MakePending("LabelMember", LabelTargets[op.labelIndex + 1])
  <2>1. op' = WithPhase(op, "Attest") \/ op' = [op EXCEPT !.pending = a]
    BY <1>3 DEF BeginLabel, Persist
  <2>2. SafeNext(WithPhase(op, "Attest"))
    <3>1. "Attest" \notin Undecided
      BY DEF Undecided
    <3> QED
      BY <3>1, SafePhase
  <2>3. CASE op' = [op EXCEPT !.pending = a]
    <3>1. a.kind = "LabelMember"
      BY MadePending
    <3> HIDE DEF a
    <3>2. /\ op'.pending = a
          /\ op'.phase = op.phase /\ op'.current = op.current /\ op'.obs = op.obs
          /\ op'.unavailable = op.unavailable /\ op'.confirmed = op.confirmed
          /\ op'.dataLoss = op.dataLoss /\ op'.primary = op.primary /\ op'.insts = op.insts
          /\ op'.secIndex = op.secIndex /\ op'.waitIndex = op.waitIndex
      BY <2>3, SafetyFacts DEF IsRecord, OperationFields
    <3> QED
      BY <1>2, <3>1, <3>2, SafePending
  <2> QED
    BY <2>1, <2>2, <2>3
<1>4. CASE LabelDone
  <2>1. op' = [op EXCEPT !.pending = NoAction, !.labelIndex = @ + 1]
    BY <1>4 DEF LabelDone, Persist
  <2>2. /\ op'.pending = NoAction
        /\ op'.phase = op.phase /\ op'.current = op.current /\ op'.obs = op.obs
        /\ op'.unavailable = op.unavailable /\ op'.confirmed = op.confirmed
        /\ op'.dataLoss = op.dataLoss /\ op'.primary = op.primary /\ op'.insts = op.insts
        /\ op'.secIndex = op.secIndex /\ op'.waitIndex = op.waitIndex
    BY <2>1, SafetyFacts DEF IsRecord, OperationFields
  <2>3. /\ op.confirmed => op'.phase \notin Undecided
        /\ op'.phase = "RefreshCandidate" => op.dataLoss
        /\ op'.secIndex \in Nat
    BY <2>2, SafetyFacts DEF ChoiceInv
  <2> QED
    BY <2>2, <2>3, MinorStep
<1>5. CASE AuthorizeLabel
  <2>1. op.pending # NoAction /\ op' = [op EXCEPT !.pending.authorized = TRUE]
    BY <1>5 DEF AuthorizeLabel, Persist
  <2> QED
    BY <2>1, SafePendingField
<1> QED
  BY <1>3, <1>4, <1>5

LEMMA SafeEnd ==
    ASSUME SafetyInv, EndPhase
    PROVE  SafeNext(op')
<1>1. op.phase \in DOMAIN ActionKind
  BY DEF EndPhase
<1>2. \/ op' = [WithPhase(op, "Collect") EXCEPT !.cfgIndex = 0]
         /\ op.phase = "RecordStartingConfiguration"
      \/ op' = [WithPhase(op, "LabelMembers") EXCEPT !.cfgIndex = 0]
      \/ op' = WithPhase(op, "CatchUpConfiguration")
  <2>1. CASE op.phase = "RecordStartingConfiguration"
    BY <2>1, Zenon DEF EndPhase, Persist
  <2>2. CASE op.phase = "RecordElectionConfiguration"
    BY <2>2, Zenon DEF EndPhase, Persist
  <2>3. CASE op.phase \notin {"RecordStartingConfiguration", "RecordElectionConfiguration"}
    BY <2>3, Zenon DEF EndPhase, Persist
  <2> QED
    BY <2>1, <2>2, <2>3
<1>3. PICK phase \in {"Collect", "LabelMembers", "CatchUpConfiguration"} :
         /\ op' = [WithPhase(op, phase) EXCEPT !.cfgIndex = 0] \/ op' = WithPhase(op, phase)
         /\ phase = "Collect" => op.phase = "RecordStartingConfiguration"
  BY <1>2
<1> DEFINE o == WithPhase(op, phase)
<1>4. /\ IsRecord(o, OperationFields) /\ o.phase = phase /\ o.pending = NoAction
      /\ \A f \in OperationFields \ {"phase", "pending"} : o[f] = op[f]
  BY SafetyFacts, WithPhaseFields
<1>5. op' = [o EXCEPT !.cfgIndex = 0] \/ op' = o
  BY <1>3
<1> HIDE DEF o
<1>6. \A f \in OperationFields \ {"cfgIndex"} : op'[f] = o[f]
  BY <1>4, <1>5 DEF IsRecord, OperationFields
<1>7. /\ op'.phase = phase /\ op'.pending = NoAction
      /\ op'.current = op.current /\ op'.obs = op.obs /\ op'.unavailable = op.unavailable
      /\ op'.confirmed = op.confirmed /\ op'.dataLoss = op.dataLoss
      /\ op'.primary = op.primary /\ op'.insts = op.insts
      /\ op'.secIndex = op.secIndex /\ op'.waitIndex = op.waitIndex
  BY <1>4, <1>6 DEF OperationFields
<1>8. op.confirmed => op'.phase \notin Undecided
  BY <1>3, <1>7, SafetyFacts DEF ChoiceInv, Undecided
<1>9. op'.phase # "RefreshCandidate" /\ op'.secIndex \in Nat
  BY <1>3, <1>7, SafetyFacts
<1> QED
  BY <1>7, <1>8, <1>9, MinorStep

LEMMA SafeCompleted ==
    ASSUME SafetyInv, ActionCompleted
    PROVE  SafeNext(op')
<1>1. op.phase \in DOMAIN ActionKind
  BY SafetyFacts DEF ActionCompleted, Probing, OperationInv, PendingInv
<1> DEFINE o == WithPhase(op, NextPhase)
<1>2. /\ IsRecord(o, OperationFields) /\ o.phase = NextPhase /\ o.pending = NoAction
      /\ \A f \in OperationFields \ {"phase", "pending"} : o[f] = op[f]
  BY SafetyFacts, WithPhaseFields
<1>3. PICK i, j \in Nat : op' = [o EXCEPT !.cfgIndex = i, !.secIndex = j]
  <2> DEFINE i == IF op.phase \in {"RecordStartingConfiguration", "RecordElectionConfiguration"}
                  THEN o.cfgIndex + 1 ELSE o.cfgIndex
             j == IF op.phase = "DistributeEpoch" THEN o.secIndex + 1 ELSE o.secIndex
  <2>1. op' = [o EXCEPT !.cfgIndex = i, !.secIndex = j]
    BY SafetyFacts, WithPhaseFields DEF ActionCompleted, Persist, IsRecord, OperationFields
  <2>2. o.cfgIndex = op.cfgIndex /\ o.secIndex = op.secIndex
    BY <1>2 DEF OperationFields
  <2>3. op.cfgIndex \in Nat /\ op.secIndex \in Nat
    BY SafetyFacts, OperationFacts
  <2> HIDE DEF o
  <2>4. i \in Nat /\ j \in Nat
    BY <2>2, <2>3
  <2> QED
    BY <2>1, <2>4
<1> HIDE DEF o
<1>4. /\ \A f \in OperationFields \ {"cfgIndex", "secIndex"} : op'[f] = o[f]
      /\ op'.secIndex \in Nat
  BY <1>2, <1>3 DEF IsRecord, OperationFields
<1>5. /\ op'.phase = NextPhase /\ op'.pending = NoAction
      /\ op'.current = op.current /\ op'.obs = op.obs /\ op'.unavailable = op.unavailable
      /\ op'.confirmed = op.confirmed /\ op'.dataLoss = op.dataLoss
      /\ op'.primary = op.primary /\ op'.insts = op.insts /\ op'.waitIndex = op.waitIndex
  BY <1>2, <1>4 DEF OperationFields
<1>6. op'.phase # "RefreshCandidate" /\ op'.phase # "PersistConfigurationEpoch"
      /\ (op.phase # "RecordStartingConfiguration" => op'.phase \notin Undecided)
  BY <1>1, <1>5, NextPhaseFacts DEF Undecided
<1>7. op.confirmed => op'.phase \notin Undecided
  BY <1>6, SafetyFacts DEF ChoiceInv, Undecided
<1> QED
  BY <1>4, <1>5, <1>6, <1>7, MinorStep

\* The callback's report is of a data loss.
LEMMA SafeStateChanged ==
    ASSUME SafetyInv, DataLossChangedState
    PROVE  SafeNext(op')
<1>1. op.pending # NoAction /\ op.pending.kind # "LabelMember"
  BY DEF DataLossChangedState, Probing
<1>2. op.phase = "NotifyDataLoss"
  BY <1>1, SafetyFacts, StateChangedKind DEF ChoiceInv
<1>3. op.confirmed /\ op.dataLoss /\ op.primary \in Replica
  BY <1>2, SafetyFacts DEF OperationInv, ChoiceInv, Undecided
<1> DEFINE o == WithPhase(op, "RefreshCandidate")
           n == [o EXCEPT !.insts = [m \in {op.primary} |-> @[m]]]
<1>4. op' = n \/ op' = Poison(n)
  BY DEF DataLossChangedState, Persist
<1>5. /\ IsRecord(o, OperationFields) /\ o.phase = "RefreshCandidate" /\ o.pending = NoAction
      /\ \A f \in OperationFields \ {"phase", "pending"} : o[f] = op[f]
  BY SafetyFacts, WithPhaseFields
<1> HIDE DEF o
<1>6. /\ IsRecord(n, OperationFields) /\ DOMAIN n.insts = {op.primary}
      /\ \A f \in OperationFields \ {"insts"} : n[f] = o[f]
  BY <1>5 DEF IsRecord, OperationFields
<1> HIDE DEF n
<1>7. /\ \A f \in OperationFields \ {"phase", "pending"} : op'[f] = n[f]
      /\ op'.phase \in {"RefreshCandidate", "Poisoned"} /\ op'.pending = NoAction
  BY <1>4, <1>5, <1>6 DEF Poison, IsRecord, OperationFields
<1>8. /\ op'.confirmed = op.confirmed /\ op'.dataLoss = op.dataLoss
      /\ op'.primary = op.primary /\ op'.insts = n.insts /\ op'.secIndex = op.secIndex
  BY <1>5, <1>6, <1>7 DEF OperationFields
<1>9. /\ DOMAIN op'.insts \subseteq Replica /\ op'.secIndex \in Nat
      /\ op'.phase \notin Undecided
  BY <1>3, <1>6, <1>7, <1>8, SafetyFacts DEF Undecided
<1> QED
  BY <1>3, <1>7, <1>8, <1>9, DecidedStep

\* Before the decision only starting configurations are sent.
LEMMA SafetyDispatch ==
    ASSUME SafetyInv, DispatchAction
    PROVE  SafetyInv'
<1> DEFINE q == [to |-> op.pending.target, inst |-> op.pending.inst,
                 gen |-> Evidence.gen, ver |-> Evidence.ver, seen |-> Evidence.seen,
                 id |-> op.pending.id, kind |-> op.pending.kind,
                 epoch |-> op.pending.epoch, config |-> op.pending.config]
<1>1. net' = net \cup {q} /\ UNCHANGED <<op, rep, acked>>
  BY DEF DispatchAction
<1>2. IInv' /\ op.pending # NoAction /\ op.pending.kind # "LabelMember"
  BY DispatchStep DEF SafetyInv, DispatchAction, Dispatchable, Probing
<1>3. q.kind = op.pending.kind
  OBVIOUS
<1> HIDE DEF q
<1>4. ~op.confirmed => q.kind = "RecordStartingConfiguration"
  <2> SUFFICES ASSUME ~op.confirmed PROVE q.kind = "RecordStartingConfiguration"
    OBVIOUS
  <2>1. PendingInv(op, op.pending) /\ OperationInv(op)
    BY <1>2, SafetyFacts DEF OperationInv
  <2>2. op.phase \in DOMAIN ActionKind /\ op.pending.kind = ActionKind[op.phase]
    BY <1>2, <2>1 DEF PendingInv
  <2>3. op.phase = "RecordStartingConfiguration"
    BY <2>1, <2>2, ActionPhases DEF OperationInv, Undecided
  <2> QED
    BY <1>3, <2>2, <2>3 DEF ActionKind
<1>5. acked' \in Nat /\ ChoiceInv(op)' /\ (LossDecided(op) => ~Alive \/ Mismatched(op))'
  BY <1>1 DEF SafetyInv, ChoiceInv, Alive, LossDecided, Mismatched
<1>6. (~op.confirmed => \E h \in Histories : PristineOp(op, h) /\ PristineRep(h))'
  <2> SUFFICES ASSUME ~op.confirmed
               PROVE  (\E h \in Histories : PristineOp(op, h) /\ PristineRep(h))'
    BY <1>1
  <2>1. PICK h \in Histories : PristineOp(op, h) /\ PristineRep(h)
    BY DEF SafetyInv
  <2>2. h \in Histories' /\ PristineOp(op, h)'
    BY <1>1, <2>1 DEF Histories, PristineOp
  <2>3. PristineRep(h)'
    BY <1>1, <1>4, <2>1 DEF PristineRep
  <2> QED
    BY <2>2, <2>3
<1>7. (~op.confirmed /\ Alive => UntouchedOp(op) /\ UntouchedRep)'
  <2> SUFFICES ASSUME ~op.confirmed, Alive PROVE (UntouchedOp(op) /\ UntouchedRep)'
    BY <1>1 DEF Alive
  <2>1. UntouchedOp(op) /\ UntouchedRep
    BY DEF SafetyInv
  <2> QED
    BY <1>1, <2>1 DEF UntouchedOp, UntouchedRep, UntouchedProcess
<1> QED
  BY <1>2, <1>5, <1>6, <1>7 DEF SafetyInv

LEMMA SafetyPatch ==
    ASSUME SafetyInv, PatchLabel
    PROVE  SafetyInv'
<1>1. CASE op.pending.target \in Replica
  BY <1>1, SafetyFault
<1>2. CASE op.pending.target \notin Replica
  <2>1. UNCHANGED <<op, rep, net, acked>>
    BY <1>2 DEF PatchLabel, SafetyInv, IInv, ShapeInv, IsRecord
  <2>2. IInv'
    BY PatchStep DEF SafetyInv
  <2>3. SafeNext(op')
    BY <2>1 DEF SafetyInv, SafeNext
  <2> QED
    BY <2>1, <2>2, <2>3, SafeStep
<1> QED
  BY <1>1, <1>2

-----------------------------------------------------------------------------
(* The invariant.                                                          *)

LEMMA SafetyInit == Init => SafetyInv
<1> SUFFICES ASSUME Init PROVE SafetyInv
  OBVIOUS
<1>1. PICK lsn \in [Replica -> 0..MaxLsn], missing \in SUBSET Unrecorded :
         /\ Cardinality({r \in Replica : lsn[r] >= acked}) >= Majority(Replica)
         /\ rep = [r \in Replica |-> StartReplica(r, lsn[r], acked, r \notin missing)]
         /\ \E known : op = StartOperation(known)
  BY DEF Init
<1> PICK known : op = StartOperation(known)
  BY <1>1
<1>2. net = {} /\ acked \in 0..MaxLsn /\ acked \in Nat
  BY FailoverBoundsAssumption DEF Init
<1>3. IInv
  BY InitInv
<1>4. /\ op.phase = "RecordStartingConfiguration" /\ op.confirmed = FALSE /\ op.dataLoss = FALSE
      /\ op.primary = Failed /\ DOMAIN op.insts = Replica /\ op.secIndex = 0
      /\ op.waitIndex = 0 /\ op.pending = NoAction /\ op.obs = << >> /\ op.unavailable = {}
      /\ DOMAIN op.current = Replica
      /\ \A m \in Replica : op.current[m].inst = 0 /\ op.current[m].dropped = (m = Failed)
  BY DEF StartOperation
<1>5. ChoiceInv(op) /\ ~LossDecided(op)
  BY <1>4, FailedAssumption DEF ChoiceInv, LossDecided
<1>6. ASSUME NEW r \in Replica
      PROVE  LET p == rep[r]
             IN  /\ p.role \in Roles /\ p.epoch = StartEpoch /\ p.deact = StartEpoch
                 /\ p.retained = 0 /\ p.catchUp = 0 /\ p.lsn = lsn[r]
                 /\ p.committed = Min({lsn[r], acked}) /\ p.active = NoAction
                 /\ p.inst = 0 /\ p.healthy = TRUE
  <2>1. rep[r] = StartReplica(r, lsn[r], acked, r \notin missing)
    BY <1>1
  <2> QED
    BY <2>1 DEF StartReplica, Roles
<1>7. ASSUME NEW r \in Replica
      PROVE  Kept(rep[r], lsn[r])
  <2> DEFINE S == {lsn[r], acked}
  <2>1. lsn[r] \in Nat /\ S \in SUBSET Nat /\ S # {}
    BY <1>2, FailoverBoundsAssumption
  <2>2. Min(S) \in S /\ \A y \in S : Min(S) <= y
    BY <2>1, NatMin DEF Min
  <2>3. Min(S) \in 0..lsn[r]
    BY <2>1, <2>2
  <2> QED
    BY <1>6, <2>3 DEF Kept
<1>8. lsn \in Histories
  BY <1>1 DEF Histories
<1>9. DOMAIN op.obs = {}
  BY <1>4
<1>10. PristineOp(op, lsn) /\ UntouchedOp(op)
  <2>1. \A m \in Replica : op.current[m].dropped <=> m = Failed
    BY <1>4, Zenon
  <2>2. op.unavailable \subseteq Others /\ op.waitIndex \in Nat
    BY <1>4
  <2> QED
    BY <1>4, <1>9, <2>1, <2>2 DEF PristineOp, UntouchedOp
<1>11. PristineRep(lsn) /\ UntouchedRep
  BY <1>2, <1>6, <1>7 DEF PristineRep, UntouchedRep, UntouchedProcess
<1> QED
  BY <1>2, <1>3, <1>4, <1>5, <1>8, <1>10, <1>11 DEF SafetyInv

LEMMA SafetyNext == SafetyInv /\ [Next]_vars => SafetyInv'
<1> SUFFICES ASSUME SafetyInv, [Next]_vars PROVE SafetyInv'
  OBVIOUS
<1>1. IInv'
  BY NextInv DEF SafetyInv
<1>2. CASE UNCHANGED vars
  <2>1. UNCHANGED <<op, rep, net, acked>>
    BY <1>2 DEF vars
  <2>2. SafeNext(op')
    BY <2>1 DEF SafetyInv, SafeNext
  <2> QED
    BY <1>1, <2>1, <2>2, SafeStep
<1>3. CASE Reconcile \/ DeadlinePasses
  <2>1. CASE DispatchAction
    BY <2>1, SafetyDispatch
  <2>2. CASE PatchLabel
    BY <2>2, SafetyPatch
  <2>3. CASE ~DispatchAction /\ ~PatchLabel
    <3>1. UNCHANGED <<rep, net, acked>>
      BY <1>3, <2>3, OperatorFrame
    <3>2. CASE Assess
      BY <1>1, <3>1, <3>2, SafetyAssess
    <3>3. CASE ~Assess
      <4>1. SafeNext(op')
        BY <1>3, <2>3, <3>3, SafeReplacement, SafeCollect, SafePersisted, SafeBegin, SafeEnd,
           SafeCompleted, SafeStateChanged, SafeProbe, SafeLabel DEF Reconcile
      <4> QED
        BY <1>1, <3>1, <4>1, SafeStep
    <3> QED
      BY <3>2, <3>3
  <2> QED
    BY <2>1, <2>2, <2>3
<1>4. ASSUME NEW r \in Replica, Agent(r) \/ Fault(r) \/ Reconnect(r)
      PROVE  SafetyInv'
  BY <1>4, SafetyAdmit, SafetyComplete, SafetyFail, SafetyFault DEF Agent
<1> QED
  BY <1>2, <1>3, <1>4 DEF Next

\* Until the election is decided, what the operation has observed of a replica
\* with a role is its progress when the primary failed, and every process that
\* was not lost answers as the election accepts it (record_observation,
\* observation_exclusion).
THEOREM SafetyInvHolds == Spec => []SafetyInv
<1>1. Init => SafetyInv
  BY SafetyInit
<1>2. SafetyInv /\ [Next]_vars => SafetyInv'
  BY SafetyNext
<1> QED
  BY <1>1, <1>2, PTL DEF Spec

\* A failover that claims no data loss has chosen a candidate that had every
\* write answered Ok (evaluate, select_candidate, decide_assessment): it is the
\* best of a read quorum, and a read quorum meets every write quorum.
THEOREM ElectedHasAcked == Spec => []CandidateHasAcked
<1>1. SafetyInv => CandidateHasAcked
  BY DEF SafetyInv, ChoiceInv, CandidateHasAcked
<1> QED
  BY <1>1, SafetyInvHolds, PTL

\* While every process lives no silence and no deadline leads to data loss
\* (evaluate, decide_assessment): who has answered with the starting
\* configuration is accepted, who has not answered is outstanding, so the read
\* quorum stays within reach until somebody answers without that configuration.
THEOREM LivingLoseNothing == Spec => []NoRestartNoDataLoss
<1>1. SafetyInv => NoRestartNoDataLoss
  BY DEF SafetyInv, IInv, ShapeInv, Alive, LossDecided, Mismatched, NoRestartNoDataLoss
<1> QED
  BY <1>1, SafetyInvHolds, PTL
=============================================================================
