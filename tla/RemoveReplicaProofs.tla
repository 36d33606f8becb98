-------------------------- MODULE RemoveReplicaProofs --------------------------
(***************************************************************************)
(* The commit of a removal stands, a member is only retired when it is no  *)
(* longer counted, and nothing of it is left at publication, for any       *)
(* number of attempts, faults, failed effects and calls that are given up  *)
(* and run later.  The argument: an attempt that dispatched the current    *)
(* configuration is the last one and never undoes anything, the runtime    *)
(* runs the calls in the order they were made, those that were given up    *)
(* included, and a process that ended takes its queue with it.             *)
(***************************************************************************)
EXTENDS RemoveReplica, SequenceTheorems, TLAPS

IsRecord(f, fields) == f = [x \in fields |-> f[x]]

ProcessFields ==
    {"inst", "gen", "ver", "active", "done", "open", "role", "epoch", "wal", "write", "cfg", "data"}

OperationFields ==
    {"mode", "phase", "attempt", "pgen", "tgen", "fences", "dispatched", "comp", "committed",
     "absent", "retired", "fenced", "deleted", "why"}

CoordinatorFields ==
    {"step", "attempt", "gen", "asked", "dispatched", "comp", "commit", "absent", "retire"}

Calls == [do : {"CatchUp", "Wait", "Current", "Cancel", "Restore", "Remove"}, live : BOOLEAN,
          attempt : Nat]

\* The effects that put another configuration in the place of the current one.
Undoing == {"CatchUp", "Restore"}

\* The steps in which the coordinator may be once the current configuration was
\* dispatched.
Irreversible ==
    {"InstallingCurrent", "CurrentInstalled", "RemovingConnection", "Retiring", "Attesting", "none"}

\* Where the coordinator waits for a call.
Asking == [CatchUp |-> "InstallingCatchUp", Wait |-> "Waiting", Current |-> "InstallingCurrent",
           Cancel |-> "Compensating", Restore |-> "Compensating", Remove |-> "RemovingConnection"]

ShapeInv ==
    /\ IsRecord(op, OperationFields) /\ op.attempt \in 0 .. MaxAttempts
    /\ IsRecord(co, CoordinatorFields) /\ co.attempt \in 0 .. op.attempt
    /\ IsRecord(run, {"conn", "tracker", "queue", "wait"}) /\ run.queue \in Seq(Calls)
    /\ IsRecord(peer, {"ver", "active", "done"})
    /\ IsRecord(rep, Replica)
    /\ \A r \in {Primary, Target} :
          IsRecord(rep[r], ProcessFields) /\ rep[r].gen \in Nat /\ rep[r].inst \in Nat
    /\ IsRecord(pod, Replica) /\ \A r \in Replica : IsRecord(pod[r], {"exists", "up", "label"})

\* The attempts up to this one are over.
Over == IF op.phase \in {"RemoveFreezeIntent", "RemoveCompensateFinalize", "Failed"}
        THEN op.attempt ELSE op.attempt - 1

\* Another process of the primary has no part in the removal.
AloneInv ==
    /\ ~SamePrimary => /\ rep[Primary].role # "Primary" /\ rep[Primary].active = NoAction
                       /\ co = NoCo /\ run = BlankRun
    /\ \A q \in net : /\ q.fences.gen = 0 /\ q.fences.inst = Inst
                      /\ q.act.attempt \in 1 .. op.attempt /\ q.id = Id(q.act.attempt)
    /\ op.pgen = 0

\* A coordinator runs while the intent of its attempt is active.  An attempt that
\* is over has a record, and has not dispatched the current configuration.
AttemptInv ==
    SamePrimary =>
        /\ co.step = "none" => rep[Primary].active = NoAction
        /\ co.step # "none" =>
              /\ rep[Primary].active # NoAction /\ rep[Primary].active.id = Id(co.attempt)
              /\ co.attempt > Over
        /\ \A k \in 1 .. op.attempt : k <= Over \/ k = co.attempt =>
              Record(rep[Primary], Id(k)) # "none"
        /\ co.attempt <= Over => ~co.dispatched

\* The calls of the coordinator c to the runtime r, which has reported the
\* configuration conf.
RuntimeInv(c, r, conf, made) ==
    /\ ~c.dispatched => /\ r.tracker # "Current" /\ conf # "Current" /\ ~made
                        /\ \A i \in 1 .. Len(r.queue) : r.queue[i].do # "Current"
    /\ c.dispatched => c.step \in Irreversible
    /\ \A i, j \in 1 .. Len(r.queue) :
          i < j /\ r.queue[i].do = "Current" => r.queue[j].do \notin Undoing
    /\ \A i \in 1 .. Len(r.queue) : r.queue[i].live =>
          i = Len(r.queue) /\ c.asked /\ c.step = Asking[r.queue[i].do]
    /\ c.asked /\ c.step # "Retiring" => r.queue # << >> /\ r.queue[Len(r.queue)].live
    /\ conf = "Current" => made
    /\ made => /\ conf = "Current" /\ r.tracker = "Current"
               /\ \A i \in 1 .. Len(r.queue) : r.queue[i].do \notin Undoing
    /\ r.tracker \in {"Previous", "CatchUp", "Current"}

\* The results that the progress c may leave.
Fits(result, c) ==
    \/ result \in {"CommittedClean", "CommittedDegraded"} /\ c.commit /\ c.absent
    \/ result \in {"Compensated", "CompensationIncomplete"} /\ ~c.commit
    \/ result = "Failed" /\ (c.dispatched \/ c.comp)

\* What the progress of the coordinator says, and the record of an ended one.
ReportInv(c, done, r) ==
    /\ c.step # "none" =>
          /\ ValidProgress(c)
          /\ c.commit => c.step \in {"RemovingConnection", "Retiring", "Attesting"}
          /\ c.step \in {"Retiring", "Attesting"} => c.absent
          /\ c.step = "Attesting" => c.retire \in TerminalRetirement
    /\ c.absent => ~r.conn
    /\ c.step = "none" /\ c.attempt > 0 =>
          Fits(done[Id(c.attempt)], c)

AfterCommit ==
    {"RemoveRecordCommit", "RemoveAwaitCleanup", "RemoveDeleteTargetPod", "RemovePublishTopology",
     "RemoveFinalize", "Completed"}

BeforeCommit ==
    {"RemoveFreezeIntent", "RemoveDispatchIntent", "RemoveAwaitCoordination",
     "RemoveCompensateFinalize", "Failed"}

\* The phases in which no attempt may have been made, and those in which the
\* target may have been deleted.
Early == {"RemoveFreezeIntent", "Poisoned"}
Last == {"RemovePublishTopology", "RemoveFinalize", "Completed", "Poisoned"}

\* Everything that presumes the commit follows it.
CommitInv ==
    /\ op.phase \in BeforeCommit \cup AfterCommit \cup {"Poisoned"}
    /\ stable \in {"Previous", "Reduced"}
    /\ co.commit \/ op.committed => installed
    /\ op.phase \in AfterCommit => op.committed
    /\ op.phase \notin Early => op.attempt > 0
    /\ peer.active # NoAction /\ peer.active.auth => installed
    /\ rep[Target].role = "None" \/ pod[Target].label = "retired" => installed
    /\ installed => op.phase \notin {"RemoveCompensateFinalize", "Failed"}

\* What the operator knows of the connection and of the target's pod stays true.
CleanInv ==
    /\ op.absent /\ SamePrimary /\ pod[Primary].exists => ~run.conn
    /\ op.deleted => op.committed /\ ~SamePod(Target) /\ op.phase \in Last
    /\ stable = "Reduced" => op.absent /\ op.deleted

\* The target's ledger runs the steps of Retire.
PeerInv ==
    /\ IsRecord(peer, {"ver", "active", "done"})
    /\ peer.active # NoAction =>
          /\ IsRecord(peer.active, {"id", "stage", "step", "auth"})
          /\ peer.active.stage = "Retire" /\ peer.active.step \in {1, 2}
    /\ \A m \in mail : m.stage = "Retire"

IInv ==
    /\ ShapeInv
    /\ AloneInv
    /\ AttemptInv
    /\ SamePrimary => /\ RuntimeInv(co, run, cfg, installed)
                      /\ ReportInv(co, rep[Primary].done, run)
    /\ CommitInv
    /\ CleanInv
-----------------------------------------------------------------------------
(* The runtime and its queue.                                              *)

LEMMA CallSteps ==
    ASSUME NEW q \in Seq(Calls), NEW i \in 1 .. Len(q)
    PROVE  /\ q[i] \in Calls /\ Asking[q[i].do] \notin {"Retiring", "none"}
           /\ Asking[q[i].do] \in Irreversible => q[i].do \in {"Current", "Remove"}
<1>1. q[i] \in Calls
  OBVIOUS
<1> QED
  BY <1>1 DEF Calls, Asking, Irreversible

\* A coordinator that waits for no call goes on.
LEMMA RuntimeMoves ==
    ASSUME NEW c, NEW d, NEW r, NEW conf, NEW made,
           RuntimeInv(c, r, conf, made), r.queue \in Seq(Calls),
           ~c.asked \/ c.step = "Retiring", ~d.asked \/ d.step = "Retiring",
           c.dispatched => d.dispatched, d.dispatched => d.step \in Irreversible
    PROVE  RuntimeInv(d, r, conf, made)
<1>1. \A i \in 1 .. Len(r.queue) : ~r.queue[i].live
  BY CallSteps DEF RuntimeInv
<1> QED
  BY <1>1 DEF RuntimeInv

\* A coordinator calls the runtime.
LEMMA RuntimeCalls ==
    ASSUME NEW c, NEW d, NEW r, NEW s, NEW conf, NEW made, NEW k \in Calls,
           RuntimeInv(c, r, conf, made), r.queue \in Seq(Calls),
           ~c.asked, k.live, c.step = Asking[k.do],
           k.do = "Current" => c.dispatched, k.do \in Undoing => ~c.dispatched,
           d.step = c.step, d.asked, d.dispatched = c.dispatched,
           s.tracker = r.tracker, s.queue = Append(r.queue, k)
    PROVE  RuntimeInv(d, s, conf, made) /\ s.queue \in Seq(Calls)
<1>1. \A i \in 1 .. Len(r.queue) : ~r.queue[i].live
  BY DEF RuntimeInv
<1>2. /\ s.queue \in Seq(Calls) /\ Len(s.queue) = Len(r.queue) + 1 /\ s.queue # << >>
      /\ s.queue[Len(s.queue)] = k
      /\ \A i \in 1 .. Len(s.queue) :
            IF i = Len(s.queue) THEN s.queue[i] = k
            ELSE i \in 1 .. Len(r.queue) /\ s.queue[i] = r.queue[i]
  OBVIOUS
<1> QED
  BY <1>1, <1>2 DEF RuntimeInv

\* A call is given up.
LEMMA RuntimeDrops ==
    ASSUME NEW c, NEW d, NEW r, NEW s, NEW conf, NEW made,
           RuntimeInv(c, r, conf, made), r.queue \in Seq(Calls), r.queue # << >>,
           ~d.asked \/ d.step = "Retiring",
           c.dispatched => d.dispatched, d.dispatched => d.step \in Irreversible,
           s.tracker = r.tracker,
           s.queue = [r.queue EXCEPT ![Len(r.queue)].live = FALSE]
    PROVE  RuntimeInv(d, s, conf, made) /\ s.queue \in Seq(Calls)
<1> DEFINE n == Len(r.queue)
<1>1. n \in 1 .. n /\ r.queue[n] \in Calls
  OBVIOUS
<1>2. /\ Len(s.queue) = n
      /\ \A i \in 1 .. n : s.queue[i] = IF i = n THEN [r.queue[n] EXCEPT !.live = FALSE]
                                       ELSE r.queue[i]
  BY <1>1
<1>3. [r.queue[n] EXCEPT !.live = FALSE] \in Calls
  BY <1>1 DEF Calls
<1>4. s.queue \in Seq(Calls)
  BY <1>1, <1>3
<1>5. \A i \in 1 .. n : s.queue[i].do = r.queue[i].do /\ ~s.queue[i].live
  BY <1>1, <1>2 DEF Calls, RuntimeInv
<1> QED
  BY <1>2, <1>4, <1>5 DEF RuntimeInv

\* The first call leaves the queue: its effect may have been the current
\* configuration, or another one, or none.
LEMMA RuntimeRuns ==
    ASSUME NEW c, NEW d, NEW r, NEW s, NEW conf, NEW then, NEW made, NEW became,
           RuntimeInv(c, r, conf, made), r.queue \in Seq(Calls), r.queue # << >>,
           s.queue = Tail(r.queue),
           s.tracker = r.tracker \/ (Head(r.queue).do \in Undoing \cup {"Current"} /\
              s.tracker = ConfigurationOf[Head(r.queue).do]),
           \/ then = conf /\ (became <=> made)
           \/ /\ Head(r.queue).do = "Current"
              /\ then = "Current" /\ s.tracker = "Current" /\ became
           \/ /\ Head(r.queue).do \in Undoing /\ then # "Current" /\ (became <=> made),
           IF Head(r.queue).live
           THEN /\ ~d.asked \/ d.step = "Retiring"
                /\ c.dispatched => d.dispatched
                /\ d.dispatched => d.step \in Irreversible
           ELSE d = c
    PROVE  RuntimeInv(d, s, then, became) /\ s.queue \in Seq(Calls)
<1> DEFINE e == Head(r.queue)
<1>1. /\ e \in Calls /\ e = r.queue[1] /\ 1 \in 1 .. Len(r.queue)
      /\ s.queue \in Seq(Calls) /\ Len(s.queue) = Len(r.queue) - 1
      /\ \A i \in 1 .. Len(s.queue) : i + 1 \in 1 .. Len(r.queue) /\ s.queue[i] = r.queue[i + 1]
  OBVIOUS
<1>2. e.do = "Current" => c.dispatched
  BY <1>1 DEF RuntimeInv
<1>3. c.dispatched => d.dispatched /\ d.step \in Irreversible
  BY DEF RuntimeInv
<1>4. d.dispatched => d.step \in Irreversible
  BY <1>3
<1>5. e.do \in Undoing => ~made
  BY <1>1 DEF RuntimeInv
<1>6. /\ ConfigurationOf["CatchUp"] = "CatchUp" /\ ConfigurationOf["Restore"] = "Previous"
      /\ ConfigurationOf["Current"] = "Current"
  BY DEF ConfigurationOf
<1>7. ~d.dispatched => ~c.dispatched
  BY <1>3
<1>8. ~d.dispatched => /\ s.tracker # "Current" /\ then # "Current" /\ ~became
                       /\ \A i \in 1 .. Len(s.queue) : s.queue[i].do # "Current"
  BY <1>1, <1>2, <1>6, <1>7 DEF RuntimeInv, Undoing
<1>9. \A i, j \in 1 .. Len(s.queue) :
          i < j /\ s.queue[i].do = "Current" => s.queue[j].do \notin Undoing
  BY <1>1 DEF RuntimeInv
<1>10. /\ \A i \in 1 .. Len(s.queue) : s.queue[i].live =>
             i = Len(s.queue) /\ d.asked /\ d.step = Asking[s.queue[i].do]
       /\ d.asked /\ d.step # "Retiring" => s.queue # << >> /\ s.queue[Len(s.queue)].live
  <2>1. CASE e.live
    <3>1. Len(r.queue) = 1
      BY <1>1, <2>1 DEF RuntimeInv
    <3> QED
      BY <1>1, <2>1, <3>1
  <2>2. CASE ~e.live
    <3>1. \A i \in 1 .. Len(s.queue) : s.queue[i].live =>
             i = Len(s.queue) /\ d.asked /\ d.step = Asking[s.queue[i].do]
      BY <1>1, <2>2 DEF RuntimeInv
    <3>2. ASSUME d.asked, d.step # "Retiring"
          PROVE  s.queue # << >> /\ s.queue[Len(s.queue)].live
      <4>1. r.queue[Len(r.queue)].live
        BY <2>2, <3>2 DEF RuntimeInv
      <4> DEFINE n == Len(r.queue)
                 m == Len(s.queue)
      <4>2. n \in Nat /\ m \in Nat /\ m = n - 1 /\ n # 0
        BY <1>1
      <4>3. n # 1
        BY <1>1, <2>2, <4>1
      <4>4. m \in 1 .. m /\ m + 1 = n /\ m # 0
        <5> HIDE DEF n, m
        <5> QED
          BY <4>2, <4>3
      <4>5. s.queue[m] = r.queue[m + 1]
        BY <1>1, <4>4
      <4>6. s.queue # << >>
        <5>1. Len(<< >>) = 0
          OBVIOUS
        <5> QED
          BY <4>4, <5>1, Zenon
      <4> QED
        BY <4>1, <4>4, <4>5, <4>6
    <3> QED
      BY <3>1, <3>2
  <2> QED
    BY <2>1, <2>2
<1>11. then = "Current" => became
  BY DEF RuntimeInv
<1>12. became => /\ then = "Current" /\ s.tracker = "Current"
                 /\ \A i \in 1 .. Len(s.queue) : s.queue[i].do \notin Undoing
  <2>1. CASE made
    BY <1>1, <1>5, <1>6, <2>1 DEF RuntimeInv
  <2>2. CASE ~made /\ became
    <3>1. e.do = "Current" /\ then = "Current" /\ s.tracker = "Current"
      BY <2>2
    <3>2. \A i \in 1 .. Len(s.queue) : s.queue[i].do \notin Undoing
      BY <1>1, <3>1 DEF RuntimeInv
    <3> QED
      BY <3>1, <3>2
  <2> QED
    BY <2>1, <2>2
<1>13. s.tracker \in {"Previous", "CatchUp", "Current"}
  BY <1>6 DEF RuntimeInv, Undoing
<1> QED
  BY <1>1, <1>4, <1>8, <1>9, <1>10, <1>11, <1>12, <1>13 DEF RuntimeInv

-----------------------------------------------------------------------------
(* The process of the primary.                                             *)

LEMMA Ids == Primary # Target /\ Primary \in Replica /\ Target \in Replica
BY DEF Primary, Target, Replica

LEMMA CoordinatorIsAlone == IInv /\ co.step # "none" => SamePrimary
BY DEF IInv, AloneInv, NoCo

LEMMA RuntimeIsAlone == IInv /\ run.queue # << >> => SamePrimary
BY DEF IInv, AloneInv, BlankRun

LEMMA PrimaryIsAlone == IInv /\ rep[Primary].role = "Primary" => SamePrimary
BY DEF IInv, AloneInv

LEMMA Reconfigured ==
    ASSUME NEW p, NEW conf, IsRecord(p, ProcessFields)
    PROVE  LET q == [p EXCEPT !.cfg = conf]
           IN  /\ IsRecord(q, ProcessFields)
               /\ q.cfg = conf /\ q.active = p.active /\ q.done = p.done
               /\ q.role = p.role /\ q.gen = p.gen /\ q.inst = p.inst
BY DEF IsRecord, ProcessFields

\* The coordinator goes on, or the runtime does, and the agent's records stay.
LEMMA PrimaryStep ==
    ASSUME IInv, SamePrimary, NEW conf,
           IsRecord(co', CoordinatorFields), co'.attempt = co.attempt,
           co'.step = "none" <=> co.step = "none",
           co'.dispatched => co.dispatched \/ co.step # "none",
           co'.commit => installed',
           rep' = [rep EXCEPT ![Primary] = [@ EXCEPT !.cfg = conf]],
           IsRecord(run', {"conn", "tracker", "queue", "wait"}), run'.queue \in Seq(Calls),
           run'.conn => run.conn,
           installed => installed', installed' => installed \/ co.dispatched,
           RuntimeInv(co', run', conf, installed'),
           ReportInv(co', rep[Primary].done, run'),
           IsRecord(peer', {"ver", "active", "done"}),
           peer' # peer /\ peer'.active # NoAction /\ peer'.active.auth => installed,
           UNCHANGED <<op, stable, pod, net>>
    PROVE  IInv'
<1> DEFINE p == rep[Primary]
<1>0. IsRecord(p, ProcessFields)
  BY DEF IInv, ShapeInv
<1>1. /\ IsRecord(rep', Replica) /\ rep'[Primary] = [p EXCEPT !.cfg = conf]
      /\ rep'[Target] = rep[Target]
  BY Ids DEF IInv, ShapeInv, IsRecord
<1>2. /\ IsRecord(rep'[Primary], ProcessFields)
      /\ rep'[Primary].cfg = conf /\ rep'[Primary].active = p.active /\ rep'[Primary].done = p.done
      /\ rep'[Primary].role = p.role /\ rep'[Primary].gen = p.gen /\ rep'[Primary].inst = p.inst
  <2> DEFINE q == [p EXCEPT !.cfg = conf]
  <2>1. /\ IsRecord(q, ProcessFields)
        /\ q.cfg = conf /\ q.active = p.active /\ q.done = p.done
        /\ q.role = p.role /\ q.gen = p.gen /\ q.inst = p.inst
    <3> HIDE DEF p
    <3> QED
      BY <1>0, Reconfigured, Zenon
  <2>2. rep'[Primary] = q
    BY <1>1
  <2> HIDE DEF q
  <2> QED
    BY <2>1, <2>2
<1>3. ShapeInv'
  BY <1>1, <1>2 DEF IInv, ShapeInv
<1>4. SamePrimary' /\ Over' = Over /\ cfg' = conf
  BY <1>2 DEF SamePrimary, Over, cfg
<1>5. AloneInv'
  BY <1>4 DEF IInv, AloneInv, Id
<1>6. \A k : Record(rep[Primary], k)' = Record(rep[Primary], k)
  BY <1>2 DEF Record
<1>7. AttemptInv'
  <2>1. co'.step # "none" => /\ rep'[Primary].active # NoAction
                             /\ rep'[Primary].active.id = Id(co'.attempt) /\ co'.attempt > Over'
    BY <1>2, <1>4 DEF IInv, AttemptInv, Id
  <2>2. co'.attempt <= Over' => ~co'.dispatched
    BY <1>4 DEF IInv, AttemptInv, ShapeInv, Over
  <2>3. \A k \in 1 .. op'.attempt : k <= Over' \/ k = co'.attempt =>
              Record(rep[Primary], Id(k))' # "none"
    BY <1>4, <1>6 DEF IInv, AttemptInv
  <2>4. co'.step = "none" => rep'[Primary].active = NoAction
    BY <1>2 DEF IInv, AttemptInv
  <2> QED
    BY <2>1, <2>2, <2>3, <2>4 DEF AttemptInv, Id
<1>8. CommitInv'
  <2>1. installed' => op.phase \notin {"RemoveCompensateFinalize", "Failed"}
    BY DEF IInv, CommitInv, AttemptInv, Over, ShapeInv
  <2> QED
    BY <1>1, <2>1 DEF IInv, CommitInv
<1>9. CleanInv'
  <2>1. SamePod(Target)' <=> SamePod(Target)
    BY <1>1 DEF SamePod
  <2> QED
    BY <2>1, <1>4 DEF IInv, CleanInv
<1> QED
  BY <1>2, <1>3, <1>4, <1>5, <1>7, <1>8, <1>9 DEF IInv

LEMMA RecordedFields ==
    ASSUME NEW p, NEW id, NEW state, IsRecord(p, ProcessFields)
    PROVE  LET q == Recorded(p, id, state)
           IN  /\ IsRecord(q, ProcessFields) /\ q.cfg = p.cfg /\ q.active = NoAction
               /\ q.done = With(p.done, id, state)
               /\ q.role = p.role /\ q.gen = p.gen /\ q.inst = p.inst
BY DEF IsRecord, ProcessFields, Recorded

\* The coordinator ends and leaves a record.
LEMMA EndStep ==
    ASSUME IInv, co.step # "none", NEW result, Ended(co, result),
           IsRecord(run', {"conn", "tracker", "queue", "wait"}), run'.queue \in Seq(Calls),
           run'.conn => run.conn,
           RuntimeInv([co EXCEPT !.step = "none", !.asked = FALSE], run', cfg, installed),
           Fits(result, co), ValidTerminal(co, result) \/ result = "Failed",
           UNCHANGED <<op, stable, pod, net, peer, installed>>
    PROVE  IInv'
<1> DEFINE p == rep[Primary]
           kept == IF ValidTerminal(co, result) THEN result ELSE "Failed"
<1>0. IsRecord(p, ProcessFields) /\ IsRecord(co, CoordinatorFields) /\ SamePrimary
  BY CoordinatorIsAlone DEF IInv, ShapeInv
<1>1. /\ IsRecord(rep', Replica) /\ rep'[Primary] = Recorded(p, Id(co.attempt), kept)
      /\ rep'[Target] = rep[Target]
  BY Ids DEF IInv, ShapeInv, IsRecord, Ended
<1>2. /\ IsRecord(rep'[Primary], ProcessFields)
      /\ rep'[Primary].cfg = p.cfg /\ rep'[Primary].active = NoAction
      /\ rep'[Primary].done = With(p.done, Id(co.attempt), kept)
      /\ rep'[Primary].role = p.role /\ rep'[Primary].gen = p.gen /\ rep'[Primary].inst = p.inst
  <2> DEFINE q == Recorded(p, Id(co.attempt), kept)
  <2>1. /\ IsRecord(q, ProcessFields) /\ q.cfg = p.cfg /\ q.active = NoAction
        /\ q.done = With(p.done, Id(co.attempt), kept)
        /\ q.role = p.role /\ q.gen = p.gen /\ q.inst = p.inst
    <3> HIDE DEF p, kept
    <3> QED
      BY <1>0, RecordedFields, ZenonT(60)
  <2>2. rep'[Primary] = q
    BY <1>1
  <2> HIDE DEF q
  <2> QED
    BY <2>1, <2>2
<1>3. /\ co' = [co EXCEPT !.step = "none", !.asked = FALSE]
      /\ IsRecord(co', CoordinatorFields) /\ co'.step = "none" /\ co'.asked = FALSE
      /\ co'.attempt = co.attempt /\ co'.dispatched = co.dispatched /\ co'.commit = co.commit
      /\ co'.absent = co.absent /\ co'.comp = co.comp
  BY <1>0 DEF Ended, IsRecord, CoordinatorFields
<1>4. ShapeInv'
  BY <1>1, <1>2, <1>3 DEF IInv, ShapeInv
<1>5. SamePrimary' /\ Over' = Over /\ cfg' = cfg
  BY <1>0, <1>2 DEF SamePrimary, Over, cfg
<1>6. AloneInv'
  BY <1>5 DEF IInv, AloneInv, Id
<1>7. /\ rep'[Primary].done[Id(co.attempt)] = kept
      /\ \A k : k = Id(co.attempt) \/ k \in DOMAIN p.done => k \in DOMAIN rep'[Primary].done
      /\ \A k : k \in DOMAIN p.done /\ k # Id(co.attempt) =>
               rep'[Primary].done[k] = p.done[k]
  BY <1>2 DEF With
<1>8. kept # "none" /\ kept = result
  BY DEF Fits
<1>9. \A k : Record(p, Id(k)) # "none" => Record(rep'[Primary], Id(k)) # "none"
  <2> SUFFICES ASSUME NEW k, Record(p, Id(k)) # "none"
               PROVE  Record(rep'[Primary], Id(k)) # "none"
    OBVIOUS
  <2>1. CASE Id(k) = Id(co.attempt)
    BY <1>2, <1>7, <1>8, <2>1 DEF Record
  <2>2. CASE Id(k) # Id(co.attempt)
    <3>1. p.active.id = Id(co.attempt)
      BY <1>0 DEF IInv, AttemptInv
    <3>2. Id(k) \in DOMAIN p.done /\ p.done[Id(k)] # "none"
      BY <2>2, <3>1 DEF Record
    <3> QED
      BY <1>2, <1>7, <2>2, <3>2 DEF Record
  <2> QED
    BY <2>1, <2>2
<1>10. AttemptInv'
  <2>1. co'.attempt <= Over' => ~co'.dispatched
    BY <1>0, <1>3, <1>5 DEF IInv, AttemptInv
  <2>2. \A k \in 1 .. op'.attempt : k <= Over' \/ k = co'.attempt =>
              Record(rep[Primary], Id(k))' # "none"
    BY <1>0, <1>3, <1>5, <1>9 DEF IInv, AttemptInv, Id
  <2> QED
    BY <1>2, <1>3, <2>1, <2>2 DEF AttemptInv
<1>11. RuntimeInv(co', run', cfg', installed')
  BY <1>3, <1>5
<1>12. ReportInv(co', rep'[Primary].done, run')
  <2>1. Fits(kept, co')
    BY <1>3, <1>8 DEF Fits
  <2>2. co.absent => ~run.conn
    BY <1>0 DEF IInv, ReportInv
  <2> QED
    BY <1>3, <1>7, <2>1, <2>2 DEF ReportInv
<1>13. CommitInv'
  BY <1>1, <1>3 DEF IInv, CommitInv
<1>14. CleanInv'
  <2>1. SamePod(Target)' <=> SamePod(Target)
    BY <1>1 DEF SamePod
  <2> QED
    BY <1>0, <1>5, <2>1 DEF IInv, CleanInv
<1> QED
  BY <1>4, <1>6, <1>10, <1>11, <1>12, <1>13, <1>14 DEF IInv

-----------------------------------------------------------------------------
(* The coordinator.                                                        *)

\* The runtime r lets the coordinator go on without a call.
Ready(r) ==
    \A d : (/\ ~d.asked \/ d.step = "Retiring"
            /\ co.dispatched => d.dispatched
            /\ d.dispatched => d.step \in Irreversible)
           => RuntimeInv(d, r, cfg, installed)

LEMMA IdleIsReady ==
    ASSUME IInv, co.step # "none", ~co.asked \/ co.step = "Retiring"
    PROVE  Ready(run)
<1>1. RuntimeInv(co, run, cfg, installed) /\ run.queue \in Seq(Calls)
  BY CoordinatorIsAlone DEF IInv, ShapeInv
<1> QED
  BY <1>1, RuntimeMoves DEF Ready

others == <<op, stable, pod, net, peer, installed>>

RunShape(r) ==
    /\ IsRecord(r, {"conn", "tracker", "queue", "wait"}) /\ r.queue \in Seq(Calls)
    /\ r.conn => run.conn

LEMMA SameRep ==
    ASSUME IInv
    PROVE  rep = [rep EXCEPT ![Primary] = [@ EXCEPT !.cfg = cfg]]
<1>1. IsRecord(rep[Primary], ProcessFields) /\ IsRecord(rep, Replica)
  BY DEF IInv, ShapeInv
<1>2. rep[Primary] = [rep[Primary] EXCEPT !.cfg = cfg]
  BY <1>1 DEF IsRecord, ProcessFields, cfg
<1> QED
  BY <1>1, <1>2 DEF IsRecord

\* The coordinator goes on to another step.
LEMMA MoveStep ==
    ASSUME IInv, co.step # "none", RunShape(run'), Ready(run'),
           IsRecord(co', CoordinatorFields), co'.attempt = co.attempt, co'.step # "none",
           ~co'.asked \/ co'.step = "Retiring",
           co.dispatched => co'.dispatched, co'.dispatched => co'.step \in Irreversible,
           co'.commit => installed,
           ReportInv(co', rep[Primary].done, run),
           UNCHANGED rep, UNCHANGED others
    PROVE  IInv'
<1>1. RuntimeInv(co', run', cfg, installed)
  BY DEF Ready
<1>2. ReportInv(co', rep[Primary].done, run')
  BY DEF ReportInv, RunShape
<1>3. SamePrimary
  BY CoordinatorIsAlone
<1>4. /\ rep' = [rep EXCEPT ![Primary] = [@ EXCEPT !.cfg = cfg]]
      /\ installed' = installed /\ UNCHANGED <<op, stable, pod, net, peer>>
  BY SameRep DEF others
<1> QED
  BY <1>1, <1>2, <1>3, <1>4, PrimaryStep DEF RunShape, IInv, ShapeInv

LEMMA StepFields ==
    ASSUME IInv, NEW s
    PROVE  /\ IsRecord(Step(s), CoordinatorFields) /\ Step(s).step = s /\ Step(s).asked = FALSE
           /\ Step(s).attempt = co.attempt /\ Step(s).dispatched = co.dispatched
           /\ Step(s).comp = co.comp /\ Step(s).commit = co.commit /\ Step(s).absent = co.absent
           /\ Step(s).retire = co.retire /\ Step(s).gen = co.gen
<1>1. IsRecord(co, CoordinatorFields)
  BY DEF IInv, ShapeInv
<1> QED
  BY <1>1 DEF IsRecord, CoordinatorFields, Step

LEMMA KnownReport ==
    ASSUME IInv, co.step # "none"
    PROVE  /\ ReportInv(co, rep[Primary].done, run) /\ RuntimeInv(co, run, cfg, installed)
           /\ IsRecord(co, CoordinatorFields) /\ (co.commit => installed) /\ SamePrimary
           /\ RunShape(run)
BY CoordinatorIsAlone DEF IInv, ShapeInv, CommitInv, RunShape

\* observe_remove_commit
LEMMA CommittingStep ==
    ASSUME IInv, co.step # "none", RunShape(run'), Ready(run'),
           cfg = "Current", Committing, UNCHANGED others
    PROVE  IInv'
<1> DEFINE s == Step("RemovingConnection")
<1>1. /\ IsRecord(s, CoordinatorFields) /\ s.step = "RemovingConnection" /\ s.asked = FALSE
      /\ s.attempt = co.attempt /\ s.dispatched = co.dispatched /\ s.absent = co.absent
      /\ s.retire = co.retire
  BY StepFields
<1>2. co' = [s EXCEPT !.commit = TRUE, !.comp = FALSE] /\ UNCHANGED rep
  BY DEF Committing
<1>3. /\ IsRecord(co', CoordinatorFields) /\ co'.step = "RemovingConnection" /\ co'.asked = FALSE
      /\ co'.attempt = co.attempt /\ co'.dispatched = co.dispatched /\ co'.absent = co.absent
      /\ co'.retire = co.retire /\ co'.commit = TRUE /\ co'.comp = FALSE
  <2> HIDE DEF s
  <2> QED
    BY <1>1, <1>2 DEF IsRecord, CoordinatorFields
<1>4. ReportInv(co', rep[Primary].done, run)
  BY <1>3, KnownReport DEF ReportInv, ValidProgress
<1>5. installed
  BY KnownReport DEF RuntimeInv
<1> QED
  BY <1>2, <1>3, <1>4, <1>5, MoveStep DEF Irreversible

\* The coordinator ends, with a result that fits its progress.
LEMMA EndReady ==
    ASSUME IInv, co.step # "none", RunShape(run'), Ready(run'), NEW result, Ended(co, result),
           Fits(result, co), ValidTerminal(co, result) \/ result = "Failed",
           UNCHANGED others
    PROVE  IInv'
<1> DEFINE d == [co EXCEPT !.step = "none", !.asked = FALSE]
<1>1. d.step = "none" /\ d.asked = FALSE /\ d.dispatched = co.dispatched
  BY KnownReport DEF IsRecord, CoordinatorFields
<1>2. RuntimeInv(d, run', cfg, installed)
  <2> HIDE DEF d
  <2> QED
    BY <1>1 DEF Ready, Irreversible
<1> QED
  BY <1>2, EndStep DEF RunShape, others

\* recover_remove_pre_commit_failure
LEMMA PreCommitFailedStep ==
    ASSUME IInv, co.step \notin {"none", "RemovingConnection", "Retiring", "Attesting"},
           RunShape(run'), Ready(run'), PreCommitFailed, UNCHANGED others
    PROVE  IInv'
<1>0. co.step # "none" /\ ~co.commit
  BY KnownReport DEF ReportInv
<1>1. CASE cfg = "Current"
  BY <1>0, <1>1, CommittingStep DEF PreCommitFailed
<1>2. CASE cfg # "Current" /\ co.dispatched
  <2>1. Ended(co, "Failed")
    BY <1>2 DEF PreCommitFailed
  <2> QED
    BY <1>0, <1>2, <2>1, EndReady DEF Fits
<1>3. CASE cfg # "Current" /\ ~co.dispatched
  <2> DEFINE s == Step("Compensating")
  <2>1. /\ IsRecord(s, CoordinatorFields) /\ s.step = "Compensating" /\ s.asked = FALSE
        /\ s.attempt = co.attempt /\ s.dispatched = co.dispatched /\ s.absent = co.absent
        /\ s.retire = co.retire /\ s.commit = co.commit
    BY StepFields
  <2>2. co' = [s EXCEPT !.comp = TRUE] /\ UNCHANGED rep
    BY <1>3 DEF PreCommitFailed
  <2>3. /\ IsRecord(co', CoordinatorFields) /\ co'.step = "Compensating" /\ co'.asked = FALSE
        /\ co'.attempt = co.attempt /\ co'.dispatched = co.dispatched /\ co'.absent = co.absent
        /\ co'.retire = co.retire /\ co'.commit = co.commit /\ co'.comp = TRUE
    <3> HIDE DEF s
    <3> QED
      BY <2>1, <2>2 DEF IsRecord, CoordinatorFields
  <2>4. ReportInv(co', rep[Primary].done, run)
    BY <1>0, <2>3, KnownReport DEF ReportInv, ValidProgress
  <2> QED
    BY <1>0, <1>3, <2>2, <2>3, <2>4, MoveStep
<1> QED
  BY <1>1, <1>2, <1>3

\* A call to the runtime.
LEMMA CallStep ==
    ASSUME IInv, NEW k \in {"CatchUp", "Wait", "Current", "Cancel", "Restore", "Remove"},
           co.step = Asking[k], ~co.asked, Call(k),
           k = "Current" => co.dispatched, UNCHANGED others
    PROVE  IInv'
<1> DEFINE e == [do |-> k, live |-> TRUE, attempt |-> co.attempt]
<1>0. co.step # "none" /\ co.step # "Retiring"
  BY DEF Asking
<1>1. e \in Calls /\ e.do = k /\ e.live = TRUE
  BY DEF Calls, IInv, ShapeInv
<1>2. k \in Undoing => ~co.dispatched
  BY <1>0, KnownReport DEF RuntimeInv, Undoing, Irreversible, Asking
<1>3. /\ IsRecord(co', CoordinatorFields) /\ co'.step = co.step /\ co'.asked = TRUE
      /\ co'.attempt = co.attempt /\ co'.dispatched = co.dispatched /\ co'.absent = co.absent
      /\ co'.retire = co.retire /\ co'.commit = co.commit /\ co'.comp = co.comp
  BY <1>0, KnownReport DEF IsRecord, CoordinatorFields, Call
<1>4. /\ IsRecord(run', {"conn", "tracker", "queue", "wait"})
      /\ run'.tracker = run.tracker /\ run'.queue = Append(run.queue, e) /\ run'.conn = run.conn
  <2> HIDE DEF e
  <2>1. run' = [run EXCEPT !.queue = Append(@, e)]
    BY DEF Call, e
  <2> QED
    BY <1>0, <2>1, KnownReport DEF IsRecord, RunShape
<1>5. RuntimeInv(co', run', cfg, installed) /\ run'.queue \in Seq(Calls)
  <2> HIDE DEF e
  <2> QED
    BY <1>0, <1>1, <1>2, <1>3, <1>4, KnownReport, RuntimeCalls DEF RunShape
<1>6. ReportInv(co', rep[Primary].done, run')
  BY <1>0, <1>3, <1>4, KnownReport DEF ReportInv, ValidProgress
<1>7. rep' = [rep EXCEPT ![Primary] = [@ EXCEPT !.cfg = cfg]]
  BY SameRep DEF Call
<1> QED
  BY <1>0, <1>3, <1>4, <1>5, <1>6, <1>7, KnownReport, PrimaryStep DEF others, IInv, ShapeInv

\* The coordinator looks again, or goes on before the commit.
MayGo(s) ==
    \/ /\ co.step \notin {"none", "RemovingConnection", "Retiring", "Attesting"}
       /\ s \in {"InstallingCatchUp", "CatchUpInstalled", "Waiting"} /\ ~co.dispatched
    \/ /\ co.step \notin {"none", "RemovingConnection", "Retiring", "Attesting"}
       /\ s \in {"InstallingCurrent", "CurrentInstalled"}
    \/ s = "RemovingConnection" /\ co.step = s
    \/ s \in {"Compensating", "Cancelled"} /\ co.step \in {"Compensating", "Cancelled"}

LEMMA GoesFields ==
    ASSUME IInv, NEW s, MayGo(s)
    PROVE  /\ ReportInv(Step(s), rep[Primary].done, run) /\ s # "none"
           /\ Step(s).dispatched => Step(s).step \in Irreversible
<1>0. co.step # "none"
  BY DEF MayGo
<1>1. /\ IsRecord(Step(s), CoordinatorFields) /\ Step(s).step = s /\ Step(s).asked = FALSE
      /\ Step(s).attempt = co.attempt /\ Step(s).dispatched = co.dispatched
      /\ Step(s).comp = co.comp /\ Step(s).commit = co.commit /\ Step(s).absent = co.absent
      /\ Step(s).retire = co.retire
  BY StepFields
<1>2. ReportInv(Step(s), rep[Primary].done, run)
  BY <1>0, <1>1, KnownReport DEF ReportInv, ValidProgress, MayGo
<1>3. Step(s).dispatched => Step(s).step \in Irreversible
  BY <1>0, <1>1, KnownReport DEF RuntimeInv, Irreversible, MayGo
<1> QED
  BY <1>2, <1>3 DEF MayGo

LEMMA GoesStep ==
    ASSUME IInv, RunShape(run'), Ready(run'), NEW s, Goes(s), MayGo(s), UNCHANGED others
    PROVE  IInv'
<1>0. co.step # "none"
  BY DEF MayGo
<1>1. /\ IsRecord(co', CoordinatorFields) /\ co'.step = s /\ co'.asked = FALSE
      /\ co'.attempt = co.attempt /\ co'.dispatched = co.dispatched /\ co'.commit = co.commit
  BY StepFields DEF Goes
<1>2. /\ ReportInv(co', rep[Primary].done, run) /\ co'.step # "none"
      /\ co'.dispatched => co'.step \in Irreversible
  BY <1>1, GoesFields DEF Goes
<1> QED
  BY <1>0, <1>1, <1>2, KnownReport, MoveStep DEF Goes

\* A coordinator that waits for nothing, at a step.
LEMMA AtStep ==
    ASSUME IInv, NEW s, At(s), s # "none"
    PROVE  /\ co.step = s /\ co.step # "none" /\ ~co.asked /\ Ready(run) /\ RunShape(run)
           /\ s \notin Irreversible => ~co.dispatched
BY IdleIsReady, KnownReport DEF At, RuntimeInv

LEMMA QuietOthers == Quiet => UNCHANGED others
BY DEF Quiet, others, operator, target

LEMMA ValidateStep == IInv /\ Validate => IInv'
<1> SUFFICES ASSUME IInv, Validate PROVE IInv'
  OBVIOUS
<1>1. At("Validating") /\ UNCHANGED run /\ UNCHANGED others
  BY QuietOthers DEF Validate
<1>2. /\ co.step = "Validating" /\ ~co.asked /\ Ready(run') /\ RunShape(run') /\ ~co.dispatched
  BY <1>1, AtStep DEF Irreversible, Ready, RunShape
<1>3. CASE cfg = "Current"
  BY <1>1, <1>2, <1>3, CommittingStep DEF Validate
<1>4. CASE cfg # "Current"
  BY <1>1, <1>2, <1>4, GoesStep DEF Validate, MayGo
<1> QED
  BY <1>3, <1>4

LEMMA InstallCatchUpStep == IInv /\ InstallCatchUp => IInv'
<1> SUFFICES ASSUME IInv, InstallCatchUp PROVE IInv'
  OBVIOUS
<1>1. At("InstallingCatchUp") /\ UNCHANGED others
  BY QuietOthers DEF InstallCatchUp
<1>2. /\ co.step = "InstallingCatchUp" /\ ~co.asked /\ Ready(run) /\ RunShape(run) /\ ~co.dispatched
  BY <1>1, AtStep DEF Irreversible
<1>3. UNCHANGED run => Ready(run') /\ RunShape(run')
  BY <1>2
<1>4. CASE Call("CatchUp")
  BY <1>1, <1>2, <1>4, CallStep DEF Asking
<1>5. CASE PreCommitFailed /\ UNCHANGED run
  BY <1>1, <1>2, <1>3, <1>5, PreCommitFailedStep
<1>6. CASE cfg = "Current" /\ Committing /\ UNCHANGED run
  BY <1>1, <1>2, <1>3, <1>6, CommittingStep
<1>7. CASE Goes("Waiting") /\ UNCHANGED run
  BY <1>1, <1>2, <1>3, <1>7, GoesStep DEF MayGo
<1> QED
  BY <1>4, <1>5, <1>6, <1>7 DEF InstallCatchUp

LEMMA CatchUpInstalledStep == IInv /\ CatchUpInstalled => IInv'
<1> SUFFICES ASSUME IInv, CatchUpInstalled PROVE IInv'
  OBVIOUS
<1>1. At("CatchUpInstalled") /\ UNCHANGED run /\ UNCHANGED others
  BY QuietOthers DEF CatchUpInstalled
<1>2. /\ co.step = "CatchUpInstalled" /\ ~co.asked /\ Ready(run') /\ RunShape(run') /\ ~co.dispatched
  BY <1>1, AtStep DEF Irreversible
<1>3. CASE PreCommitFailed
  BY <1>1, <1>2, <1>3, PreCommitFailedStep
<1>4. CASE cfg = "Current" /\ Committing
  BY <1>1, <1>2, <1>4, CommittingStep
<1>5. CASE Goes("Waiting")
  BY <1>1, <1>2, <1>5, GoesStep DEF MayGo
<1> QED
  BY <1>3, <1>4, <1>5 DEF CatchUpInstalled

LEMMA AwaitQuorumStep == IInv /\ AwaitQuorum => IInv'
<1> SUFFICES ASSUME IInv, AwaitQuorum PROVE IInv'
  OBVIOUS
<1>1. At("Waiting") /\ UNCHANGED others
  BY QuietOthers DEF AwaitQuorum
<1>2. /\ co.step = "Waiting" /\ ~co.asked /\ Ready(run) /\ RunShape(run)
  BY <1>1, AtStep
<1>3. UNCHANGED run => Ready(run') /\ RunShape(run')
  BY <1>2
<1>4. CASE Call("Wait")
  BY <1>1, <1>2, <1>4, CallStep DEF Asking
<1>5. CASE PreCommitFailed /\ UNCHANGED run
  BY <1>1, <1>2, <1>3, <1>5, PreCommitFailedStep
<1>6. CASE Goes("InstallingCurrent") /\ UNCHANGED run
  BY <1>1, <1>2, <1>3, <1>6, GoesStep DEF MayGo
<1> QED
  BY <1>4, <1>5, <1>6 DEF AwaitQuorum

\* The dispatch of the current configuration is on record before the call.
LEMMA InstallCurrentStep == IInv /\ InstallCurrent => IInv'
<1> SUFFICES ASSUME IInv, InstallCurrent PROVE IInv'
  OBVIOUS
<1>1. At("InstallingCurrent") /\ UNCHANGED others
  BY QuietOthers DEF InstallCurrent
<1>2. /\ co.step = "InstallingCurrent" /\ ~co.asked /\ Ready(run) /\ RunShape(run)
  BY <1>1, AtStep
<1>3. UNCHANGED run => Ready(run') /\ RunShape(run')
  BY <1>2
<1>4. CASE co.dispatched /\ Call("Current")
  BY <1>1, <1>2, <1>4, CallStep DEF Asking
<1>5. CASE PreCommitFailed /\ UNCHANGED run
  BY <1>1, <1>2, <1>3, <1>5, PreCommitFailedStep
<1>6. CASE co' = [co EXCEPT !.dispatched = TRUE] /\ UNCHANGED <<rep, run>>
  <2>1. /\ IsRecord(co', CoordinatorFields) /\ co'.step = co.step /\ co'.asked = co.asked
        /\ co'.attempt = co.attempt /\ co'.dispatched = TRUE
        /\ co'.comp = co.comp /\ co'.commit = co.commit /\ co'.absent = co.absent
        /\ co'.retire = co.retire
    BY <1>2, <1>6, KnownReport DEF IsRecord, CoordinatorFields
  <2>2. ReportInv(co', rep[Primary].done, run)
    BY <1>2, <2>1, KnownReport DEF ReportInv, ValidProgress
  <2> QED
    BY <1>1, <1>2, <1>3, <1>6, <2>1, <2>2, KnownReport, MoveStep DEF Irreversible
<1> QED
  BY <1>4, <1>5, <1>6 DEF InstallCurrent

LEMMA CurrentInstalledStep == IInv /\ CurrentInstalled => IInv'
<1> SUFFICES ASSUME IInv, CurrentInstalled PROVE IInv'
  OBVIOUS
<1>1. At("CurrentInstalled") /\ UNCHANGED run /\ UNCHANGED others
  BY QuietOthers DEF CurrentInstalled
<1>2. /\ co.step = "CurrentInstalled" /\ ~co.asked /\ Ready(run') /\ RunShape(run')
  BY <1>1, AtStep
<1>3. CASE PreCommitFailed
  BY <1>1, <1>2, <1>3, PreCommitFailedStep
<1>4. CASE cfg = "Current" /\ Committing
  BY <1>1, <1>2, <1>4, CommittingStep
<1> QED
  BY <1>3, <1>4 DEF CurrentInstalled

LEMMA CompensateStep == IInv /\ Compensate => IInv'
<1> SUFFICES ASSUME IInv, Compensate PROVE IInv'
  OBVIOUS
<1>1. At("Compensating") /\ UNCHANGED others
  BY QuietOthers DEF Compensate
<1>2. /\ co.step = "Compensating" /\ ~co.asked /\ Ready(run) /\ RunShape(run) /\ ~co.dispatched
  BY <1>1, AtStep DEF Irreversible
<1>3. UNCHANGED run => Ready(run') /\ RunShape(run')
  BY <1>2
<1>4. ValidProgress(co) /\ ~co.commit /\ co.comp
  BY <1>2, KnownReport DEF ReportInv, ValidProgress
<1>5. CASE Ended(co, "CompensationIncomplete") /\ UNCHANGED run
  <2>1. ValidTerminal(co, "CompensationIncomplete")
    BY <1>2, <1>4 DEF ValidTerminal
  <2> QED
    BY <1>1, <1>2, <1>3, <1>4, <1>5, <2>1, EndReady DEF Fits
<1>6. CASE Ended(co, "Compensated") /\ UNCHANGED run
  <2>1. ValidTerminal(co, "Compensated")
    BY <1>2, <1>4 DEF ValidTerminal
  <2> QED
    BY <1>1, <1>2, <1>3, <1>4, <1>6, <2>1, EndReady DEF Fits
<1>7. CASE cfg = "Current" /\ Committing /\ UNCHANGED run
  BY <1>1, <1>2, <1>3, <1>7, CommittingStep
<1>8. CASE Call("Cancel") \/ Call("Restore")
  BY <1>1, <1>2, <1>8, CallStep DEF Asking
<1> QED
  BY <1>5, <1>6, <1>7, <1>8 DEF Compensate

LEMMA WaitCancelledStep == IInv /\ WaitCancelled => IInv'
<1> SUFFICES ASSUME IInv, WaitCancelled PROVE IInv'
  OBVIOUS
<1>1. At("Cancelled") /\ UNCHANGED run /\ UNCHANGED others
  BY QuietOthers DEF WaitCancelled
<1>2. co.step = "Cancelled" /\ Ready(run') /\ RunShape(run')
  BY <1>1, AtStep
<1>3. co.comp
  BY <1>2, KnownReport DEF ReportInv, ValidProgress
<1>4. CASE Ended(co, "Failed")
  BY <1>1, <1>2, <1>3, <1>4, EndReady DEF Fits
<1>5. CASE Goes("Compensating")
  BY <1>1, <1>2, <1>5, GoesStep DEF MayGo
<1> QED
  BY <1>4, <1>5 DEF WaitCancelled

LEMMA RemoveConnectionStep == IInv /\ RemoveConnection => IInv'
<1> SUFFICES ASSUME IInv, RemoveConnection PROVE IInv'
  OBVIOUS
<1>1. At("RemovingConnection") /\ UNCHANGED others
  BY QuietOthers DEF RemoveConnection
<1>2. /\ co.step = "RemovingConnection" /\ ~co.asked /\ Ready(run) /\ RunShape(run)
  BY <1>1, AtStep
<1>3. CASE run.conn
  BY <1>1, <1>2, <1>3, CallStep DEF RemoveConnection, Asking
<1>4. ASSUME ~run.conn, NEW s \in {"Retiring", "Attesting"}, NEW how,
             co' = [Step(s) EXCEPT !.absent = TRUE, !.retire = how], UNCHANGED <<rep, run>>,
             s = "Attesting" => how = "Unavailable"
      PROVE  IInv'
  <2> DEFINE c == Step(s)
  <2>1. /\ IsRecord(c, CoordinatorFields) /\ c.step = s /\ c.asked = FALSE
        /\ c.attempt = co.attempt /\ c.dispatched = co.dispatched /\ c.comp = co.comp
        /\ c.commit = co.commit
    BY StepFields
  <2>2. co' = [c EXCEPT !.absent = TRUE, !.retire = how]
    BY <1>4
  <2>3. /\ IsRecord(co', CoordinatorFields) /\ co'.step = s /\ co'.asked = FALSE
        /\ co'.attempt = co.attempt /\ co'.dispatched = co.dispatched /\ co'.absent = TRUE
        /\ co'.retire = how /\ co'.commit = co.commit /\ co'.comp = co.comp
    <3> HIDE DEF c
    <3> QED
      BY <2>1, <2>2 DEF IsRecord, CoordinatorFields
  <2>4. ReportInv(co', rep[Primary].done, run)
    BY <1>2, <1>4, <2>3, KnownReport DEF ReportInv, ValidProgress, TerminalRetirement
  <2>5. Ready(run') /\ RunShape(run')
    BY <1>2, <1>4
  <2> QED
    BY <1>1, <1>2, <1>4, <2>3, <2>4, <2>5, KnownReport, MoveStep DEF Irreversible
<1>5. CASE ~run.conn /\ (co.gen = NoGen \/ Expired)
  <2>1. /\ co' = [Step("Attesting") EXCEPT !.absent = TRUE, !.retire = "Unavailable"]
        /\ UNCHANGED <<rep, run>>
    BY <1>5 DEF RemoveConnection
  <2> QED
    BY <1>4, <1>5, <2>1
<1>6. CASE ~run.conn /\ ~(co.gen = NoGen \/ Expired)
  <2> DEFINE c == Step("Retiring")
  <2>1. co' = [c EXCEPT !.absent = TRUE] /\ UNCHANGED <<rep, run>>
    BY <1>6 DEF RemoveConnection
  <2>2. IsRecord(c, CoordinatorFields) /\ c.retire = co.retire
    BY StepFields
  <2>3. co' = [c EXCEPT !.absent = TRUE, !.retire = co.retire]
    <3> HIDE DEF c
    <3> QED
      BY <2>1, <2>2 DEF IsRecord, CoordinatorFields
  <2> QED
    BY <1>4, <1>6, <2>1, <2>3
<1> QED
  BY <1>3, <1>5, <1>6

\* What the coordinator learns of the retirement.
LEMMA RetirementStep ==
    ASSUME IInv, co.step = "Retiring", UNCHANGED <<rep, run>>, UNCHANGED others,
           NEW s \in {"Retiring", "Attesting"}, NEW asked, NEW how,
           s = "Attesting" => how \in TerminalRetirement /\ ~asked,
           co' = [co EXCEPT !.step = s, !.asked = asked, !.retire = how]
    PROVE  IInv'
<1>1. /\ IsRecord(co', CoordinatorFields) /\ co'.step = s /\ co'.asked = asked
      /\ co'.attempt = co.attempt /\ co'.dispatched = co.dispatched /\ co'.absent = co.absent
      /\ co'.retire = how /\ co'.commit = co.commit /\ co'.comp = co.comp
  BY KnownReport DEF IsRecord, CoordinatorFields
<1>2. ReportInv(co', rep[Primary].done, run)
  BY <1>1, KnownReport DEF ReportInv, ValidProgress
<1>3. Ready(run') /\ RunShape(run')
  BY KnownReport, IdleIsReady
<1> QED
  BY <1>1, <1>2, <1>3, KnownReport, MoveStep DEF Irreversible

LEMMA RetiresFields ==
    ASSUME IInv, NEW how
    PROVE  /\ [Step("Attesting") EXCEPT !.retire = how] =
                  [co EXCEPT !.step = "Attesting", !.asked = FALSE, !.retire = how]
           /\ [Step("Retiring") EXCEPT !.retire = how] =
                  [co EXCEPT !.step = "Retiring", !.asked = FALSE, !.retire = how]
           /\ co.step = "Retiring" =>
                  [co EXCEPT !.retire = how] =
                     [co EXCEPT !.step = "Retiring", !.asked = co.asked, !.retire = how]
           /\ co.step = "Retiring" =>
                  [co EXCEPT !.asked = TRUE] =
                     [co EXCEPT !.step = "Retiring", !.asked = TRUE, !.retire = co.retire]
<1>1. IsRecord(co, CoordinatorFields)
  BY DEF IInv, ShapeInv
<1> QED
  BY <1>1 DEF IsRecord, CoordinatorFields, Step

LEMMA RetireStep == IInv /\ Retire => IInv'
<1> SUFFICES ASSUME IInv, Retire PROVE IInv'
  OBVIOUS
<1>1. co.step = "Retiring" /\ ~co.asked /\ UNCHANGED run /\ UNCHANGED others
  BY DEF Retire, At, others, operator
<1>2. ASSUME NEW how \in TerminalRetirement, Retires(how)
      PROVE  IInv'
  BY <1>1, <1>2, RetiresFields, RetirementStep DEF Retires
<1>3. CASE co' = [co EXCEPT !.asked = TRUE] /\ UNCHANGED rep
  <2>1. co' = [co EXCEPT !.step = "Retiring", !.asked = TRUE, !.retire = co.retire]
    BY <1>1, <1>3, RetiresFields
  <2> QED
    BY <1>1, <1>3, <2>1, RetirementStep
<1>4. ASSUME NEW how, co' = [co EXCEPT !.retire = how], UNCHANGED rep
      PROVE  IInv'
  BY <1>1, <1>4, RetiresFields, RetirementStep
<1>5. {"Unavailable", "Failed", "Completed"} \subseteq TerminalRetirement
  BY DEF TerminalRetirement
<1>6. CASE Expired /\ Retires(LastRetirement)
  <2>1. LastRetirement \in TerminalRetirement
    BY <1>5 DEF LastRetirement
  <2> QED
    BY <1>2, <1>6, <2>1
<1>7. CASE Expired /\ Ended(co, "Failed")
  <2>1. Ready(run') /\ RunShape(run')
    BY <1>1, KnownReport, IdleIsReady
  <2>2. co.dispatched
    BY <1>1, KnownReport DEF ReportInv, ValidProgress, RuntimeInv
  <2> QED
    BY <1>1, <1>7, <2>1, <2>2, EndReady DEF Fits
<1>8. CASE ~Expired /\ RetirementSeen = "Closed"
  BY <1>2, <1>5, <1>8 DEF Retire
<1>9. CASE ~Expired /\ RetirementSeen = "none"
  BY <1>3, <1>9 DEF Retire
<1>10. CASE ~Expired /\ RetirementSeen \notin {"Closed", "none"}
  BY <1>4, <1>10 DEF Retire
<1> QED
  BY <1>6, <1>7, <1>8, <1>9, <1>10 DEF Retire

LEMMA AskTimesOutStep == IInv /\ AskTimesOut => IInv'
<1> SUFFICES ASSUME IInv, AskTimesOut PROVE IInv'
  OBVIOUS
<1>1. /\ co.step = "Retiring" /\ UNCHANGED <<rep, run>> /\ UNCHANGED others
      /\ \E how : co' = [Step("Retiring") EXCEPT !.retire = how]
  BY DEF AskTimesOut, others, operator, target
<1>2. PICK how : co' = [Step("Retiring") EXCEPT !.retire = how]
  BY <1>1
<1>3. co' = [co EXCEPT !.step = "Retiring", !.asked = FALSE, !.retire = how]
  BY <1>2, RetiresFields
<1> QED
  BY <1>1, <1>3, RetirementStep

LEMMA AttestStep == IInv /\ Attest => IInv'
<1> SUFFICES ASSUME IInv, Attest PROVE IInv'
  OBVIOUS
<1>1. At("Attesting") /\ UNCHANGED run /\ UNCHANGED others
  BY DEF Attest, others, operator, target
<1>2. /\ co.step = "Attesting" /\ ~co.asked /\ Ready(run') /\ RunShape(run')
  BY <1>1, AtStep
<1>3. /\ ValidProgress(co) /\ co.commit /\ co.absent /\ ~run.conn /\ cfg = "Current"
      /\ co.retire \in TerminalRetirement
  BY <1>2, KnownReport DEF ReportInv, ValidProgress, RuntimeInv
<1>4. CASE co.retire = "Completed"
  <2>1. Ended(co, "CommittedClean")
    BY <1>3, <1>4 DEF Attest
  <2>2. ValidTerminal(co, "CommittedClean")
    BY <1>2, <1>3, <1>4 DEF ValidTerminal
  <2> QED
    BY <1>1, <1>2, <1>3, <2>1, <2>2, EndReady DEF Fits
<1>5. CASE co.retire # "Completed"
  <2>1. Ended(co, "CommittedDegraded")
    BY <1>3, <1>5 DEF Attest
  <2>2. ValidTerminal(co, "CommittedDegraded")
    BY <1>2, <1>3, <1>5 DEF ValidTerminal, TerminalRetirement
  <2> QED
    BY <1>1, <1>2, <1>3, <2>1, <2>2, EndReady DEF Fits
<1> QED
  BY <1>4, <1>5

-----------------------------------------------------------------------------
(* The end of a call.                                                      *)

CallKinds == {"CatchUp", "Wait", "Current", "Cancel", "Restore", "Remove"}

\* The coordinator that waits for a call may look again.
LEMMA AfterCall ==
    ASSUME IInv, NEW k \in CallKinds, co.step = Asking[k]
    PROVE  MayGo(After[k]) /\ co.step # "none"
<1>1. co.step # "none"
  BY DEF Asking, CallKinds
<1>2. k \in {"CatchUp", "Wait"} => ~co.dispatched
  BY <1>1, KnownReport DEF RuntimeInv, Asking, Irreversible
<1> QED
  BY <1>1, <1>2 DEF MayGo, Asking, After, CallKinds

LEMMA CallFailedStep ==
    ASSUME IInv, RunShape(run'), Ready(run'), NEW k \in CallKinds, co.step = Asking[k],
           CallFailed(k), UNCHANGED others
    PROVE  IInv'
<1>1. CASE k = "Wait"
  BY <1>1, PreCommitFailedStep DEF CallFailed, Asking
<1>2. CASE k # "Wait"
  BY <1>2, AfterCall, GoesStep DEF CallFailed
<1> QED
  BY <1>1, <1>2

LEMMA CallTimesOutStep == IInv /\ CallTimesOut => IInv'
<1> SUFFICES ASSUME IInv, CallTimesOut PROVE IInv'
  OBVIOUS
<1> DEFINE n == Len(run.queue)
           k == run.queue[n].do
<1>1. /\ co.asked /\ co.step # "Retiring" /\ CallFailed(k) /\ UNCHANGED others
      /\ run' = [run EXCEPT !.queue[n].live = FALSE]
  BY DEF CallTimesOut, others, operator, target
<1>2. SamePrimary
  BY <1>1 DEF IInv, AloneInv, NoCo
<1>3. /\ RuntimeInv(co, run, cfg, installed) /\ run.queue \in Seq(Calls)
      /\ IsRecord(run, {"conn", "tracker", "queue", "wait"})
  BY <1>2 DEF IInv, ShapeInv
<1>4. run.queue # << >> /\ run.queue[n].live /\ n \in 1 .. n
  BY <1>1, <1>3 DEF RuntimeInv
<1>5. k \in CallKinds /\ co.step = Asking[k]
  BY <1>3, <1>4, CallSteps DEF RuntimeInv, Calls, CallKinds
<1>6. /\ IsRecord(run', {"conn", "tracker", "queue", "wait"}) /\ run'.tracker = run.tracker
      /\ run'.conn = run.conn /\ run'.queue = [run.queue EXCEPT ![n].live = FALSE]
  <2> HIDE DEF n
  <2> QED
    BY <1>1, <1>3 DEF IsRecord
<1>7. Ready(run') /\ run'.queue \in Seq(Calls)
  <2>1. ASSUME NEW d, ~d.asked \/ d.step = "Retiring",
               co.dispatched => d.dispatched, d.dispatched => d.step \in Irreversible
        PROVE  RuntimeInv(d, run', cfg, installed)
    BY <1>3, <1>4, <1>6, <2>1, RuntimeDrops
  <2>2. run'.queue \in Seq(Calls)
    <3>1. run.queue[n] \in Calls
      BY <1>3, <1>4
    <3>2. [run.queue[n] EXCEPT !.live = FALSE] \in Calls
      BY <3>1 DEF Calls
    <3> QED
      BY <1>3, <1>4, <1>6, <3>2
  <2> QED
    BY <2>1, <2>2 DEF Ready
<1>8. RunShape(run')
  BY <1>6, <1>7 DEF RunShape
<1> QED
  <2> HIDE DEF k
  <2> QED
    BY <1>1, <1>5, <1>7, <1>8, CallFailedStep

-----------------------------------------------------------------------------
(* The runtime.                                                            *)

RuntimeFields == {"conn", "tracker", "queue", "wait"}

LEMMA EffectFields ==
    ASSUME IsRecord(run, RuntimeFields), NEW e \in Calls, NEW r \in {run, AfterEffect(e)}
    PROVE  /\ IsRecord(Dequeued(r), RuntimeFields) /\ Dequeued(r).queue = Tail(run.queue)
           /\ Dequeued(r).conn => run.conn
           /\ \/ Dequeued(r).tracker = run.tracker
              \/ /\ e.do \in Undoing \cup {"Current"} /\ r = AfterEffect(e)
                 /\ Dequeued(r).tracker = ConfigurationOf[e.do]
           /\ e.do \in Undoing \cup {"Current"} /\ r = AfterEffect(e) =>
                 Dequeued(r).tracker = ConfigurationOf[e.do]
<1>1. DOMAIN ConfigurationOf = Undoing \cup {"Current"}
  BY DEF ConfigurationOf, Undoing
<1>2. /\ IsRecord(r, RuntimeFields) /\ r.queue = run.queue /\ (r.conn => run.conn)
      /\ \/ r.tracker = run.tracker
         \/ /\ e.do \in Undoing \cup {"Current"} /\ r = AfterEffect(e)
            /\ r.tracker = ConfigurationOf[e.do]
      /\ e.do \in Undoing \cup {"Current"} /\ r = AfterEffect(e) =>
            r.tracker = ConfigurationOf[e.do]
  BY <1>1 DEF AfterEffect, IsRecord, RuntimeFields
<1> QED
  BY <1>2 DEF Dequeued, IsRecord, RuntimeFields

LEMMA RunEffectStep == IInv /\ RunEffect => IInv'
<1> SUFFICES ASSUME IInv, RunEffect PROVE IInv'
  OBVIOUS
<1> DEFINE e == Head(run.queue)
<1>1. run.queue # << >> /\ UNCHANGED <<op, stable, pod, net, peer>>
  BY DEF RunEffect, operator, target
<1>2. /\ SamePrimary /\ RuntimeInv(co, run, cfg, installed) /\ run.queue \in Seq(Calls)
      /\ ReportInv(co, rep[Primary].done, run)
      /\ IsRecord(run, RuntimeFields) /\ IsRecord(co, CoordinatorFields)
      /\ IsRecord(peer, {"ver", "active", "done"}) /\ (co.commit => installed)
  BY <1>1, RuntimeIsAlone DEF IInv, ShapeInv, CommitInv, RuntimeFields
<1>3. e \in Calls /\ 1 \in 1 .. Len(run.queue) /\ e = run.queue[1] /\ e.do \in CallKinds
  <2>1. e \in Calls /\ 1 \in 1 .. Len(run.queue) /\ e = run.queue[1]
    BY <1>1, <1>2
  <2> QED
    BY <2>1 DEF Calls, CallKinds
<1>4. e.live => co.step = Asking[e.do]
  BY <1>2, <1>3 DEF RuntimeInv
<1>5. e.do = "Current" => co.dispatched
  BY <1>2, <1>3 DEF RuntimeInv
<1>6. CASE /\ run' = Dequeued(AfterEffect(e))
           /\ rep' = [rep EXCEPT ![Primary].cfg =
                        IF e.do \in DOMAIN ConfigurationOf THEN ConfigurationOf[e.do] ELSE @]
           /\ installed' = (installed \/ e.do = "Current")
           /\ co' = IF e.live THEN Step(After[e.do]) ELSE co
  <2> DEFINE conf == IF e.do \in Undoing \cup {"Current"} THEN ConfigurationOf[e.do] ELSE cfg
  <2>1. rep' = [rep EXCEPT ![Primary] = [@ EXCEPT !.cfg = conf]]
    <3>1. DOMAIN ConfigurationOf = Undoing \cup {"Current"}
      BY DEF ConfigurationOf, Undoing
    <3> QED
      BY <1>6, <3>1 DEF cfg
  <2>2. installed' <=> installed \/ e.do = "Current"
    BY <1>6, Zenon
  <2>3. /\ IsRecord(run', RuntimeFields) /\ run'.queue = Tail(run.queue) /\ (run'.conn => run.conn)
        /\ run'.tracker = run.tracker \/ (e.do \in Undoing \cup {"Current"} /\
              run'.tracker = ConfigurationOf[e.do])
        /\ e.do = "Current" => run'.tracker = "Current"
    BY <1>2, <1>3, <1>6, EffectFields DEF ConfigurationOf
  <2>4. \/ conf = cfg /\ (installed' <=> installed)
        \/ e.do = "Current" /\ conf = "Current" /\ run'.tracker = "Current" /\ installed'
        \/ e.do \in Undoing /\ conf # "Current" /\ (installed' <=> installed)
    BY <2>2, <2>3 DEF ConfigurationOf, Undoing
  <2>5. /\ IsRecord(co', CoordinatorFields) /\ co'.attempt = co.attempt
        /\ co'.dispatched = co.dispatched /\ co'.commit = co.commit
        /\ ReportInv(co', rep[Primary].done, run)
        /\ (co'.step = "none" <=> co.step = "none")
        /\ IF e.live THEN /\ ~co'.asked \/ co'.step = "Retiring"
                          /\ co.dispatched => co'.dispatched
                          /\ co'.dispatched => co'.step \in Irreversible
           ELSE co' = co
    <3>1. CASE ~e.live
      BY <1>2, <1>6, <3>1
    <3>2. CASE e.live
      <4> DEFINE s == After[e.do]
      <4>1. MayGo(s) /\ co.step # "none"
        BY <1>3, <1>4, <3>2, AfterCall
      <4>2. co' = Step(s)
        BY <1>6, <3>2
      <4>3. /\ ReportInv(Step(s), rep[Primary].done, run) /\ s # "none"
            /\ Step(s).dispatched => Step(s).step \in Irreversible
        <5> HIDE DEF s
        <5> QED
          BY <4>1, GoesFields
      <4>4. /\ IsRecord(Step(s), CoordinatorFields) /\ Step(s).step = s /\ Step(s).asked = FALSE
            /\ Step(s).attempt = co.attempt /\ Step(s).dispatched = co.dispatched
            /\ Step(s).commit = co.commit
        <5> HIDE DEF s
        <5> QED
          BY StepFields
      <4> HIDE DEF s
      <4> QED
        BY <3>2, <4>1, <4>2, <4>3, <4>4
    <3> QED
      BY <3>1, <3>2
  <2>6. RuntimeInv(co', run', conf, installed') /\ run'.queue \in Seq(Calls)
    <3> HIDE DEF conf
    <3> QED
      BY <1>1, <1>2, <2>3, <2>4, <2>5, RuntimeRuns
  <2>7. ReportInv(co', rep[Primary].done, run')
    BY <2>3, <2>5 DEF ReportInv
  <2>8. installed => installed'
    BY <2>2
  <2>9. installed' => installed \/ co.dispatched
    BY <1>5, <2>2
  <2> HIDE DEF conf
  <2> QED
    BY <1>1, <1>2, <2>1, <2>3, <2>5, <2>6, <2>7, <2>8, <2>9, PrimaryStep DEF RuntimeFields
<1>7. CASE /\ run' \in {Dequeued(r) : r \in Residue(e)}
           /\ IF e.live THEN CallFailed(e.do) ELSE UNCHANGED <<co, rep>>
           /\ UNCHANGED installed
  <2>1. /\ IsRecord(run', RuntimeFields) /\ run'.queue = Tail(run.queue) /\ (run'.conn => run.conn)
        /\ run'.tracker = run.tracker \/ (e.do \in Undoing \cup {"Current"} /\
              run'.tracker = ConfigurationOf[e.do])
    <3>1. PICK r \in {run, AfterEffect(e)} : run' = Dequeued(r)
      BY <1>7 DEF Residue
    <3> QED
      BY <1>2, <1>3, <3>1, EffectFields
  <2>2. UNCHANGED others
    BY <1>1, <1>7 DEF others
  <2>3. CASE e.live
    <3>1. ASSUME NEW d, ~d.asked \/ d.step = "Retiring",
                 co.dispatched => d.dispatched, d.dispatched => d.step \in Irreversible
          PROVE  RuntimeInv(d, run', cfg, installed)
      BY <1>1, <1>2, <2>1, <2>3, <3>1, RuntimeRuns
    <3>2. run'.queue \in Seq(Calls)
      BY <1>1, <1>2, <2>1
    <3>3. Ready(run') /\ RunShape(run')
      BY <2>1, <3>1, <3>2 DEF Ready, RunShape, RuntimeFields
    <3> QED
      BY <1>3, <1>4, <1>7, <2>2, <2>3, <3>3, CallFailedStep
  <2>4. CASE ~e.live
    <3>1. RuntimeInv(co, run', cfg, installed) /\ run'.queue \in Seq(Calls)
      BY <1>1, <1>2, <2>1, <2>4, RuntimeRuns
    <3>2. co' = co /\ rep' = rep /\ installed' = installed
      BY <1>7, <2>4
    <3>3. ReportInv(co', rep[Primary].done, run')
      BY <1>2, <2>1, <3>2 DEF ReportInv
    <3>4. rep' = [rep EXCEPT ![Primary] = [@ EXCEPT !.cfg = cfg]]
      BY <3>2, SameRep
    <3> QED
      BY <1>1, <1>2, <2>1, <3>1, <3>2, <3>3, <3>4, PrimaryStep DEF RuntimeFields
  <2> QED
    BY <2>3, <2>4
<1> QED
  BY <1>6, <1>7 DEF RunEffect

LEMMA FinishWaitStep == IInv /\ FinishWait => IInv'
<1> SUFFICES ASSUME IInv, FinishWait PROVE IInv'
  OBVIOUS
<1>1. /\ \E s : run' = [run EXCEPT !.wait.state = s]
      /\ UNCHANGED <<op, stable, pod, net, peer, rep, co, installed>> /\ InProgress
  BY DEF FinishWait, operator, target
<1>2. SamePrimary
  BY <1>1 DEF InProgress, IInv, AloneInv, BlankRun, NoWait
<1>3. /\ RuntimeInv(co, run, cfg, installed) /\ run.queue \in Seq(Calls)
      /\ ReportInv(co, rep[Primary].done, run)
      /\ IsRecord(run, RuntimeFields) /\ IsRecord(co, CoordinatorFields)
      /\ IsRecord(peer, {"ver", "active", "done"}) /\ (co.commit => installed)
  BY <1>2 DEF IInv, ShapeInv, CommitInv, RuntimeFields
<1>4. /\ IsRecord(run', RuntimeFields) /\ run'.queue = run.queue /\ run'.conn = run.conn
      /\ run'.tracker = run.tracker
  BY <1>1, <1>3 DEF IsRecord, RuntimeFields
<1>5. RuntimeInv(co', run', cfg, installed') /\ ReportInv(co', rep[Primary].done, run')
  BY <1>1, <1>3, <1>4 DEF RuntimeInv, ReportInv
<1>6. rep' = [rep EXCEPT ![Primary] = [@ EXCEPT !.cfg = cfg]]
  BY <1>1, SameRep
<1> QED
  BY <1>1, <1>2, <1>3, <1>4, <1>5, <1>6, PrimaryStep DEF RuntimeFields

-----------------------------------------------------------------------------
(* The intent.                                                             *)

LEMMA Intents == \A j, k : Id(j) = Id(k) => j = k
BY DEF Id

\* A step that leaves the primary's process, its coordinator and its runtime, and
\* the operation alone.
LEMMA OutsideStep ==
    ASSUME IInv, UNCHANGED <<op, stable, co, run, installed>>,
           IsRecord(rep', Replica), rep'[Primary] = rep[Primary],
           IsRecord(rep'[Target], ProcessFields), rep'[Target].gen \in Nat, rep'[Target].inst \in Nat,
           IsRecord(pod', Replica), \A r \in Replica : IsRecord(pod'[r], {"exists", "up", "label"}),
           pod'[Primary].exists => pod[Primary].exists,
           pod'[Target].exists /\ rep'[Target].inst = Inst => SamePod(Target),
           IsRecord(peer', {"ver", "active", "done"}),
           \A q \in net' : q \in net \/
              (/\ q.fences.gen = 0 /\ q.fences.inst = Inst
               /\ q.act.attempt \in 1 .. op.attempt /\ q.id = Id(q.act.attempt)),
           rep'[Target].role = "None" \/ pod'[Target].label = "retired" => installed,
           peer'.active # NoAction /\ peer'.active.auth => installed
    PROVE  IInv'
<1>1. ShapeInv'
  BY DEF IInv, ShapeInv
<1>2. (SamePrimary' <=> SamePrimary) /\ Over' = Over /\ cfg' = cfg
  BY DEF SamePrimary, Over, cfg
<1>3. AloneInv'
  BY <1>2 DEF IInv, AloneInv, Id
<1>4. \A k : Record(rep[Primary], k)' = Record(rep[Primary], k)
  BY DEF Record
<1>5. AttemptInv'
  BY <1>2, <1>4 DEF IInv, AttemptInv, Id
<1>6. SamePrimary' => RuntimeInv(co', run', cfg', installed') /\ ReportInv(co', rep'[Primary].done, run')
  BY <1>2 DEF IInv
<1>7. CommitInv'
  BY DEF IInv, CommitInv
<1>8. CleanInv'
  BY <1>2 DEF IInv, CleanInv, SamePod
<1> QED
  BY <1>1, <1>3, <1>5, <1>6, <1>7, <1>8 DEF IInv

LEMMA NothingMoves ==
    ASSUME IInv, UNCHANGED <<op, stable, co, run, installed, rep, pod, peer>>,
           \A q \in net' : q \in net \/
              (/\ q.fences.gen = 0 /\ q.fences.inst = Inst
               /\ q.act.attempt \in 1 .. op.attempt /\ q.id = Id(q.act.attempt))
    PROVE  IInv'
BY OutsideStep DEF IInv, ShapeInv, CommitInv, SamePod

LEMMA AdmitFields ==
    ASSUME NEW p, NEW q, IsRecord(p, ProcessFields)
    PROVE  LET a == Admit(p, q)
           IN  /\ IsRecord(a, ProcessFields) /\ a.cfg = p.cfg
               /\ a.active = [id |-> q.id, act |-> q.act] /\ a.done = p.done
               /\ a.role = p.role /\ a.gen = p.gen /\ a.inst = p.inst
BY DEF IsRecord, ProcessFields, Admit

LEMMA AdmitStep ==
    ASSUME IInv, NEW q \in net, CanAdmit(rep[Primary], q),
           rep' = [rep EXCEPT ![Primary] = Admit(@, q)],
           co' = [NoCo EXCEPT !.step = "Validating", !.attempt = q.act.attempt, !.gen = q.act.gen],
           net' = net \ {q}, UNCHANGED <<op, stable, pod, run, peer, installed>>
    PROVE  IInv'
<1> DEFINE p == rep[Primary]
           k == q.act.attempt
<1>1. /\ SamePrimary /\ p.active = NoAction /\ Record(p, Id(k)) = "none"
      /\ k \in 1 .. op.attempt /\ q.id = Id(k)
  BY DEF CanAdmit, Fences, IInv, AloneInv, SamePrimary
<1>2. co.step = "none" /\ ~co.asked
  <2>1. co.step = "none"
    BY <1>1 DEF IInv, AttemptInv
  <2>2. ~co.asked
    <3> SUFFICES ASSUME co.asked PROVE FALSE
      OBVIOUS
    <3>1. /\ run.queue \in Seq(Calls) /\ run.queue # << >> /\ run.queue[Len(run.queue)].live
      BY <1>1, <2>1 DEF IInv, RuntimeInv, ShapeInv
    <3>2. Len(run.queue) \in 1 .. Len(run.queue)
      BY <3>1
    <3> QED
      BY <1>1, <2>1, <3>1, <3>2, CallSteps DEF IInv, RuntimeInv
  <2> QED
    BY <2>1, <2>2
<1>3. op.attempt \in Nat /\ co.attempt \in Nat /\ co.attempt <= op.attempt /\ k \in Nat
  BY <1>1, RemoveAssumption DEF IInv, ShapeInv
<1>4. ~(k <= Over) /\ k # co.attempt
  BY <1>1 DEF IInv, AttemptInv
<1>5. Over = op.attempt - 1 /\ k = op.attempt
  BY <1>1, <1>3, <1>4 DEF Over
<1>6. ~co.dispatched
  <2>1. co.attempt <= Over
    BY <1>3, <1>4, <1>5
  <2> QED
    BY <1>1, <2>1 DEF IInv, AttemptInv
<1>7. /\ IsRecord(co', CoordinatorFields) /\ co'.step = "Validating" /\ co'.attempt = k
      /\ co'.asked = FALSE /\ co'.dispatched = FALSE /\ co'.comp = FALSE /\ co'.commit = FALSE
      /\ co'.absent = FALSE /\ co'.retire = "NotAttempted"
  BY DEF NoCo, IsRecord, CoordinatorFields
<1>8. /\ IsRecord(rep', Replica) /\ rep'[Primary] = Admit(p, q) /\ rep'[Target] = rep[Target]
      /\ IsRecord(p, ProcessFields)
  BY Ids DEF IInv, ShapeInv, IsRecord
<1>9. /\ IsRecord(rep'[Primary], ProcessFields) /\ rep'[Primary].cfg = p.cfg
      /\ rep'[Primary].active = [id |-> q.id, act |-> q.act] /\ rep'[Primary].done = p.done
      /\ rep'[Primary].role = p.role /\ rep'[Primary].gen = p.gen /\ rep'[Primary].inst = p.inst
  <2> DEFINE a == Admit(p, q)
  <2>1. /\ IsRecord(a, ProcessFields) /\ a.cfg = p.cfg
        /\ a.active = [id |-> q.id, act |-> q.act] /\ a.done = p.done
        /\ a.role = p.role /\ a.gen = p.gen /\ a.inst = p.inst
    <3> HIDE DEF p
    <3> QED
      BY <1>8, AdmitFields, Zenon
  <2>2. rep'[Primary] = a
    BY <1>8
  <2> HIDE DEF a
  <2> QED
    BY <2>1, <2>2
<1>10. rep'[Primary].active # NoAction /\ rep'[Primary].active.id = Id(k)
  BY <1>1, <1>9 DEF NoAction
<1>11. ShapeInv'
  BY <1>1, <1>3, <1>7, <1>8, <1>9 DEF IInv, ShapeInv
<1>12. SamePrimary' /\ Over' = Over /\ cfg' = cfg
  BY <1>1, <1>9 DEF SamePrimary, Over, cfg
<1>13. AloneInv'
  BY <1>12 DEF IInv, AloneInv, Id
<1>14. AttemptInv'
  <2>1. \A j : Record(p, Id(j)) # "none" => Record(rep'[Primary], Id(j)) # "none"
    BY <1>1, <1>9 DEF Record
  <2>2. Record(rep'[Primary], Id(k)) # "none"
    BY <1>10 DEF Record
  <2>3. \A j \in 1 .. op'.attempt : j <= Over' \/ j = co'.attempt =>
              Record(rep[Primary], Id(j))' # "none"
    BY <1>1, <1>7, <1>12, <2>1, <2>2 DEF IInv, AttemptInv, Id
  <2>4. co'.attempt > Over'
    BY <1>3, <1>5, <1>7, <1>12
  <2>5. rep'[Primary].active.id = Id(co'.attempt) /\ rep'[Primary].active # NoAction
    BY <1>7, <1>10
  <2> QED
    BY <1>7, <2>3, <2>4, <2>5 DEF AttemptInv, Id
<1>15. RuntimeInv(co', run', cfg', installed')
  <2>1. RuntimeInv(co, run, cfg, installed) /\ run.queue \in Seq(Calls)
    BY <1>1 DEF IInv, ShapeInv
  <2>2. RuntimeInv(co', run, cfg, installed)
    BY <1>2, <1>6, <1>7, <2>1, RuntimeMoves
  <2> QED
    BY <1>12, <2>2
<1>16. ReportInv(co', rep'[Primary].done, run')
  BY <1>7 DEF ReportInv, ValidProgress
<1>17. CommitInv'
  BY <1>7, <1>8 DEF IInv, CommitInv
<1>18. CleanInv'
  BY <1>1, <1>8, <1>12 DEF IInv, CleanInv, SamePod
<1> QED
  BY <1>11, <1>13, <1>14, <1>15, <1>16, <1>17, <1>18 DEF IInv

LEMMA HandleIntentStep == IInv /\ HandleIntent => IInv'
<1> SUFFICES ASSUME IInv, HandleIntent PROVE IInv'
  OBVIOUS
<1>1. UNCHANGED <<op, stable, pod, run, installed, peer>>
  BY DEF HandleIntent, target
<1>2. PICK q \in net :
         /\ \/ /\ CanAdmit(rep[Primary], q)
               /\ rep' = [rep EXCEPT ![Primary] = Admit(@, q)]
               /\ co' = [NoCo EXCEPT !.step = "Validating", !.attempt = q.act.attempt,
                                     !.gen = q.act.gen]
            \/ UNCHANGED <<rep, co>>
         /\ net' = net \ {q}
  BY DEF HandleIntent
<1>3. CASE UNCHANGED <<rep, co>>
  BY <1>1, <1>2, <1>3, NothingMoves
<1> QED
  BY <1>1, <1>2, <1>3, AdmitStep

-----------------------------------------------------------------------------
(* The target.                                                             *)

PeerFields == {"ver", "active", "done"}
StageFields == {"id", "stage", "step", "auth"}

LEMMA PeerAcceptFields ==
    ASSUME NEW p, NEW m, IsRecord(p, PeerFields)
    PROVE  LET a == PeerAccept(p, m)
           IN  /\ IsRecord(a, PeerFields) /\ IsRecord(a.active, StageFields)
               /\ a.active.stage = m.stage /\ a.active.step = 1 /\ a.active.auth = FALSE
BY DEF IsRecord, PeerFields, StageFields, PeerAccept

LEMMA PeerEndFields ==
    ASSUME NEW p, NEW state, IsRecord(p, PeerFields)
    PROVE  IsRecord(PeerEnd(p, state), PeerFields) /\ PeerEnd(p, state).active = NoAction
BY DEF IsRecord, PeerFields, PeerEnd, Recorded

LEMMA PeerNextFields ==
    ASSUME NEW p, IsRecord(p, PeerFields)
    PROVE  LET n == [p EXCEPT !.active.step = @ + 1, !.active.auth = FALSE]
           IN  /\ IsRecord(n, PeerFields)
               /\ IsRecord(p.active, StageFields) =>
                     /\ IsRecord(n.active, StageFields) /\ n.active.stage = p.active.stage
                     /\ n.active.step = p.active.step + 1
BY DEF IsRecord, PeerFields, StageFields

LEMMA ReceiveStageStep == IInv /\ ReceiveStage => IInv'
<1> SUFFICES ASSUME IInv, ReceiveStage PROVE IInv'
  OBVIOUS
<1>1. UNCHANGED <<op, stable, pod, net, rep, run, installed>>
  BY DEF ReceiveStage, operator
<1>2. /\ \/ peer' = peer
         \/ \E m : peer' = PeerAccept(peer, m)
      /\ \/ co' = co
         \/ /\ co.step = "Retiring"
            /\ \E how : co' = [Step("Retiring") EXCEPT !.retire = how]
  BY DEF ReceiveStage
<1>3. IsRecord(peer, PeerFields)
  BY DEF IInv, ShapeInv, PeerFields
<1>4. /\ IsRecord(peer', PeerFields)
      /\ peer' # peer /\ peer'.active # NoAction /\ peer'.active.auth => installed
  <2>1. ASSUME NEW m, peer' = PeerAccept(peer, m)
        PROVE  IsRecord(peer', PeerFields) /\ ~peer'.active.auth
    <3> DEFINE a == PeerAccept(peer, m)
    <3>1. IsRecord(a, PeerFields) /\ a.active.auth = FALSE
      BY <1>3, PeerAcceptFields
    <3> HIDE DEF a
    <3> QED
      BY <2>1, <3>1 DEF a
  <2> QED
    BY <1>2, <1>3, <2>1
<1>5. CASE co' = co
  <2>1. peer'.active # NoAction /\ peer'.active.auth => installed
    BY <1>4 DEF IInv, CommitInv
  <2> QED
    BY <1>1, <1>4, <1>5, <2>1, OutsideStep DEF IInv, ShapeInv, CommitInv, SamePod, PeerFields
<1>6. ASSUME co.step = "Retiring", NEW how, co' = [Step("Retiring") EXCEPT !.retire = how]
      PROVE  IInv'
  <2>1. co' = [co EXCEPT !.step = "Retiring", !.asked = FALSE, !.retire = how]
    BY <1>6, RetiresFields
  <2>2. /\ IsRecord(co', CoordinatorFields) /\ co'.step = "Retiring" /\ co'.asked = FALSE
        /\ co'.attempt = co.attempt /\ co'.dispatched = co.dispatched /\ co'.absent = co.absent
        /\ co'.retire = how /\ co'.commit = co.commit /\ co'.comp = co.comp
    BY <1>6, <2>1, KnownReport DEF IsRecord, CoordinatorFields
  <2>3. ReportInv(co', rep[Primary].done, run')
    BY <1>1, <1>6, <2>2, KnownReport DEF ReportInv, ValidProgress
  <2>4. Ready(run)
    BY <1>6, IdleIsReady
  <2>5. RuntimeInv(co', run', cfg, installed')
    BY <1>1, <2>2, <2>4 DEF Ready, Irreversible
  <2>6. rep' = [rep EXCEPT ![Primary] = [@ EXCEPT !.cfg = cfg]]
    BY <1>1, SameRep
  <2> QED
    BY <1>1, <1>4, <1>6, <2>2, <2>3, <2>5, <2>6, KnownReport, PrimaryStep DEF RunShape, PeerFields
<1> QED
  BY <1>2, <1>5, <1>6

\* The primary that authorizes has installed the reduced configuration.
LEMMA AuthorizeStep == IInv /\ Authorize => IInv'
<1> SUFFICES ASSUME IInv, Authorize PROVE IInv'
  OBVIOUS
<1>1. UNCHANGED <<op, stable, pod, net, rep, co, run, installed>>
  BY DEF Authorize, operator, primary
<1>2. IsRecord(peer, PeerFields)
  BY DEF IInv, ShapeInv, PeerFields
<1>3. CASE SenderAuthorizes /\ peer' = [peer EXCEPT !.active.auth = TRUE]
  <2>1. installed
    BY <1>3, PrimaryIsAlone DEF SenderAuthorizes, IInv, RuntimeInv
  <2>2. IsRecord(peer', PeerFields)
    BY <1>2, <1>3 DEF IsRecord, PeerFields
  <2> QED
    BY <1>1, <2>1, <2>2, OutsideStep DEF IInv, ShapeInv, CommitInv, SamePod, PeerFields
<1>4. CASE peer' = PeerEnd(peer, "Stale")
  BY <1>1, <1>2, <1>4, PeerEndFields, OutsideStep DEF IInv, ShapeInv, CommitInv, SamePod, PeerFields
<1> QED
  BY <1>3, <1>4 DEF Authorize

LEMMA RoleChanged ==
    ASSUME NEW p, NEW role, IsRecord(p, ProcessFields)
    PROVE  LET q == Effect(p, [do |-> "ChangeRole", role |-> role, epoch |-> Epoch])
           IN  IsRecord(q, ProcessFields) /\ q.gen = p.gen /\ q.inst = p.inst
<1> DEFINE act == [do |-> "ChangeRole", role |-> role, epoch |-> Epoch]
<1>1. act.do = "ChangeRole"
  OBVIOUS
<1>2. Effect(p, act) = [p EXCEPT !.role = act.role, !.wal = act.role, !.epoch = act.epoch,
                                 !.write = StatusForRole(act.role)]
  <2> HIDE DEF act
  <2> QED
    BY <1>1, ZenonT(30) DEF Effect
<1> HIDE DEF act
<1> QED
  BY <1>2 DEF IsRecord, ProcessFields, act

LEMMA ProcessClosed ==
    ASSUME NEW p, IsRecord(p, ProcessFields)
    PROVE  LET q == Effect(p, [do |-> "Close"])
           IN  IsRecord(q, ProcessFields) /\ q.gen = p.gen /\ q.inst = p.inst
<1> DEFINE act == [do |-> "Close"]
<1>1. act.do = "Close"
  OBVIOUS
<1>2. Effect(p, act) = [p EXCEPT !.open = FALSE, !.role = "None", !.wal = "None",
                                 !.write = "NotPrimary"]
  <2> HIDE DEF act
  <2> QED
    BY <1>1, ZenonT(30) DEF Effect
<1> HIDE DEF act
<1> QED
  BY <1>2 DEF IsRecord, ProcessFields, act

\* The steps of Retire.
LEMMA RetireSteps ==
    ASSUME NEW p, IsRecord(p, ProcessFields), NEW step \in {"retire", "close"}
    PROVE  LET res == StepResult(p, step, Epoch)
           IN  /\ IsRecord(res.p, ProcessFields) /\ res.p.gen = p.gen /\ res.p.inst = p.inst
               /\ res.out = "Next" => step = "retire"
<1>1. CASE step = "retire"
  <2>1. StepResult(p, step, Epoch) = RetireResult(p, Epoch)
    BY <1>1, ZenonT(30) DEF StepResult
  <2> QED
    BY <1>1, <2>1, RoleChanged DEF RetireResult, Stale1, Done1, Next1
<1>2. CASE step = "close"
  <2>1. StepResult(p, step, Epoch) = Done1(IF p.open THEN Effect(p, [do |-> "Close"]) ELSE p)
    BY <1>2, ZenonT(30) DEF StepResult
  <2> QED
    BY <2>1, ProcessClosed DEF Done1
<1> QED
  BY <1>1, <1>2

LEMMA RunStepResult ==
    ASSUME IInv, PeerInv, RunStep
    PROVE  LET res == StepResult(rep[Target], StepAtHand(peer), Epoch)
           IN  /\ IsRecord(res.p, ProcessFields)
               /\ res.p.gen = rep[Target].gen /\ res.p.inst = rep[Target].inst
               /\ res.out = "Next" => peer.active.step = 1
<1>1. peer.active.stage = "Retire" /\ peer.active.step \in {1, 2}
  BY DEF RunStep, Staging, PeerInv
<1>2. StepsOf["Retire"] = <<"retire", "close">>
  BY DEF StepsOf
<1>3. StepAtHand(peer) \in {"retire", "close"} /\ (StepAtHand(peer) = "retire" => peer.active.step = 1)
  BY <1>1, <1>2 DEF StepAtHand
<1>4. IsRecord(rep[Target], ProcessFields)
  BY DEF IInv, ShapeInv
<1> QED
  BY <1>3, <1>4, RetireSteps

LEMMA RunStepStep == IInv /\ PeerInv /\ RunStep => IInv'
<1> SUFFICES ASSUME IInv, PeerInv, RunStep PROVE IInv'
  OBVIOUS
<1> DEFINE res == StepResult(rep[Target], StepAtHand(peer), Epoch)
<1>1. UNCHANGED <<op, stable, pod, net, co, run, installed>> /\ installed
  BY DEF RunStep, operator, primary, Staging, IInv, CommitInv
<1>2. /\ IsRecord(peer, PeerFields) /\ IsRecord(rep, Replica)
      /\ IsRecord(rep[Target], ProcessFields) /\ rep[Target].gen \in Nat /\ rep[Target].inst \in Nat
  BY DEF IInv, ShapeInv, PeerFields
<1>3. /\ IsRecord(res.p, ProcessFields)
      /\ res.p.gen = rep[Target].gen /\ res.p.inst = rep[Target].inst
  BY RunStepResult
<1>4. rep' = rep \/ rep' = [rep EXCEPT ![Target] = res.p]
  BY DEF RunStep
<1>5. IsRecord(peer', PeerFields)
  <2>1. CASE peer' = PeerStepped(peer, res.out)
    <3> HIDE DEF res
    <3> QED
      BY <1>2, <2>1, PeerEndFields, PeerNextFields DEF PeerStepped
  <2>2. CASE peer' = PeerEnd(peer, "Failed")
    BY <1>2, <2>2, PeerEndFields
  <2> QED
    BY <2>1, <2>2 DEF RunStep
<1>6. /\ IsRecord(rep', Replica) /\ rep'[Primary] = rep[Primary]
      /\ rep'[Target] = rep[Target] \/ rep'[Target] = res.p
  <2> HIDE DEF res
  <2> QED
    BY <1>2, <1>4, Ids DEF IsRecord
<1>7. /\ IsRecord(rep'[Target], ProcessFields) /\ rep'[Target].gen = rep[Target].gen
      /\ rep'[Target].inst = rep[Target].inst
  <2> HIDE DEF res
  <2> QED
    BY <1>2, <1>3, <1>6
<1> QED
  <2> HIDE DEF res
  <2> QED
    BY <1>1, <1>2, <1>5, <1>6, <1>7, OutsideStep DEF IInv, ShapeInv, SamePod, PeerFields

-----------------------------------------------------------------------------
(* The operator.                                                           *)

\* The phases that an attempt that is over leads to.
Closed == {"RemoveFreezeIntent", "RemoveCompensateFinalize", "Failed"}

\* A step that changes the operation alone, or publishes.
LEMMA PersistStep ==
    ASSUME IInv, UNCHANGED <<rep, pod, net, co, run, peer, installed>>,
           IsRecord(op', OperationFields), op'.attempt = op.attempt, op'.pgen = op.pgen,
           op'.phase \in BeforeCommit \cup AfterCommit \cup {"Poisoned"},
           op'.phase \in Closed /\ op.phase \notin Closed /\ SamePrimary =>
              co.step = "none" /\ ~co.dispatched /\ Record(rep[Primary], Id(op.attempt)) # "none",
           op'.committed => installed, op'.phase \in AfterCommit => op'.committed,
           installed => op'.phase \notin {"RemoveCompensateFinalize", "Failed"},
           op'.absent /\ SamePrimary /\ pod[Primary].exists => ~run.conn,
           op.phase \in Early => op'.phase \in Early,
           op'.deleted => op'.committed /\ ~SamePod(Target) /\ op'.phase \in Last,
           stable' \in {"Previous", "Reduced"}, stable' = "Reduced" => op'.absent /\ op'.deleted
    PROVE  IInv'
<1>1. ShapeInv'
  BY DEF IInv, ShapeInv
<1>2. (SamePrimary' <=> SamePrimary) /\ cfg' = cfg
  BY DEF SamePrimary, cfg
<1>3. AloneInv'
  BY <1>2 DEF IInv, AloneInv, Id
<1>4. /\ op.attempt \in Nat /\ co.attempt \in Nat /\ co.attempt <= op.attempt
      /\ Over = (IF op.phase \in Closed THEN op.attempt ELSE op.attempt - 1)
      /\ Over' = (IF op'.phase \in Closed THEN op.attempt ELSE op.attempt - 1)
  BY RemoveAssumption DEF IInv, ShapeInv, Over, Closed
<1>5. AttemptInv'
  <2> SUFFICES ASSUME SamePrimary PROVE AttemptInv'
    BY <1>2 DEF AttemptInv
  <2>1. \A k : Record(rep[Primary], k)' = Record(rep[Primary], k)
    BY DEF Record
  <2>2. CASE ~(op'.phase \in Closed /\ op.phase \notin Closed)
    <3>1. Over' <= Over /\ Over \in Int /\ Over' \in Int
      BY <1>4, <2>2
    <3>2. co.step # "none" => co.attempt > Over'
      BY <1>4, <3>1 DEF IInv, AttemptInv
    <3>3. co.attempt <= Over' => ~co.dispatched
      BY <1>4, <3>1 DEF IInv, AttemptInv
    <3>4. \A k \in 1 .. op.attempt : k <= Over' \/ k = co.attempt => Record(rep[Primary], Id(k)) # "none"
      BY <1>4, <3>1 DEF IInv, AttemptInv
    <3> QED
      BY <1>2, <2>1, <3>2, <3>3, <3>4 DEF IInv, AttemptInv, Id
  <2>3. CASE op'.phase \in Closed /\ op.phase \notin Closed
    <3>1. co.step = "none" /\ ~co.dispatched /\ Record(rep[Primary], Id(op.attempt)) # "none"
      BY <2>3
    <3>2. \A k \in 1 .. op.attempt : Record(rep[Primary], Id(k)) # "none"
      <4> SUFFICES ASSUME NEW k \in 1 .. op.attempt PROVE Record(rep[Primary], Id(k)) # "none"
        OBVIOUS
      <4>1. k = op.attempt \/ k <= Over
        BY <1>4, <2>3
      <4> QED
        BY <3>1, <4>1 DEF IInv, AttemptInv
    <3> QED
      BY <2>1, <3>1, <3>2 DEF IInv, AttemptInv, Id
  <2> QED
    BY <2>2, <2>3
<1>6. SamePrimary' => RuntimeInv(co', run', cfg', installed') /\ ReportInv(co', rep'[Primary].done, run')
  BY <1>2 DEF IInv
<1>7. CommitInv'
  BY DEF IInv, CommitInv
<1>8. CleanInv'
  BY <1>2 DEF CleanInv, SamePod
<1> QED
  BY <1>1, <1>3, <1>5, <1>6, <1>7, <1>8 DEF IInv

\* What stays the same in every step of the operator before the commit.
Kept == /\ IsRecord(op', OperationFields) /\ op'.attempt = op.attempt /\ op'.pgen = op.pgen
        /\ op'.committed = op.committed /\ op'.absent = op.absent /\ op'.deleted = op.deleted

LEMMA KeptStep ==
    ASSUME IInv, UNCHANGED <<rep, pod, net, co, run, peer, installed, stable>>, Kept,
           op'.phase \in BeforeCommit \cup AfterCommit \cup {"Poisoned"},
           op'.phase \in Closed /\ op.phase \notin Closed /\ SamePrimary =>
              co.step = "none" /\ ~co.dispatched /\ Record(rep[Primary], Id(op.attempt)) # "none",
           op'.phase \in AfterCommit => op.committed,
           op.phase \in Early => op'.phase \in Early, op.deleted => op'.phase \in Last,
           installed => op'.phase \notin {"RemoveCompensateFinalize", "Failed"}
    PROVE  IInv'
BY PersistStep DEF Kept, IInv, CommitInv, CleanInv

LEMMA PersistFrame ==
    ASSUME NEW n, Persist(n)
    PROVE  op' = n /\ UNCHANGED <<rep, pod, net, co, run, peer, installed, stable>>
BY DEF Persist, primary, target

LEMMA PoisonStep ==
    ASSUME IInv, NEW why, Persist(Poisoned(why))
    PROVE  IInv'
<1>1. IsRecord(op, OperationFields)
  BY DEF IInv, ShapeInv
<1>2. op' = Poisoned(why) /\ UNCHANGED <<rep, pod, net, co, run, peer, installed, stable>>
  BY PersistFrame
<1>3. Kept /\ op'.phase = "Poisoned"
  BY <1>1, <1>2 DEF Poisoned, Kept, IsRecord, OperationFields
<1> QED
  BY <1>2, <1>3, KeptStep DEF Closed, AfterCommit, Early, Last

LEMMA PoisonSteps ==
    IInv /\ (FailClosed \/ PrimarySilent \/ PrimaryRestarted \/ AttemptLost) => IInv'
BY PoisonStep DEF FailClosed, PrimarySilent, PrimaryRestarted, AttemptLost

\* A phase is entered, with other fields than those that matter here.
LEMMA PhaseStep ==
    ASSUME IInv, NEW phase \in BeforeCommit \cup AfterCommit, NEW n, Persist(n),
           n \in {[op EXCEPT !.phase = phase], [op EXCEPT !.phase = phase, !.fences = << >>]},
           phase \in Closed => op.phase \in Closed,
           phase \in AfterCommit => op.committed,
           op.phase \notin Early, op.deleted => phase \in Last,
           installed => phase \notin {"RemoveCompensateFinalize", "Failed"}
    PROVE  IInv'
<1>1. IsRecord(op, OperationFields)
  BY DEF IInv, ShapeInv
<1>2. op' = n /\ UNCHANGED <<rep, pod, net, co, run, peer, installed, stable>>
  BY PersistFrame
<1>3. Kept /\ op'.phase = phase
  BY <1>1, <1>2 DEF Kept, IsRecord, OperationFields
<1> QED
  BY <1>2, <1>3, KeptStep

LEMMA PhaseSteps ==
    IInv /\ (DispatchIntent \/ CompensateFinalize \/ StartCleanup \/ Finalize) => IInv'
<1> SUFFICES ASSUME IInv, DispatchIntent \/ CompensateFinalize \/ StartCleanup \/ Finalize
             PROVE  IInv'
  OBVIOUS
<1>1. CASE DispatchIntent
  <2>1. /\ op.phase = "RemoveDispatchIntent"
        /\ Persist([op EXCEPT !.phase = "RemoveAwaitCoordination", !.fences = << >>])
    BY <1>1 DEF DispatchIntent
  <2>2. ~op.deleted /\ op.phase \notin Early
    BY <2>1 DEF IInv, CleanInv, Last, Early
  <2> QED
    BY <2>1, <2>2, PhaseStep DEF BeforeCommit, AfterCommit, Closed
<1>2. CASE CompensateFinalize
  <2>1. op.phase = "RemoveCompensateFinalize" /\ Persist([op EXCEPT !.phase = "Failed"]) /\ ~installed
    BY <1>2 DEF CompensateFinalize, IInv, CommitInv
  <2>2. ~op.deleted /\ op.phase \notin Early
    BY <2>1 DEF IInv, CleanInv, Last, Early
  <2> QED
    BY <2>1, <2>2, PhaseStep DEF BeforeCommit, AfterCommit, Closed
<1>3. CASE StartCleanup
  <2>1. op.committed /\ Persist([op EXCEPT !.phase = "RemoveAwaitCleanup"])
    BY <1>3 DEF StartCleanup, IInv, CommitInv, AfterCommit
  <2>2. ~op.deleted /\ op.phase \notin Early
    BY <1>3 DEF StartCleanup, IInv, CleanInv, Last, Early
  <2> QED
    BY <2>1, <2>2, PhaseStep DEF BeforeCommit, AfterCommit, Closed
<1>4. CASE Finalize
  <2>1. /\ op.committed /\ Persist([op EXCEPT !.phase = "Completed"])
        /\ op.phase \notin Early
    BY <1>4 DEF Finalize, IInv, CommitInv, AfterCommit, Early
  <2> QED
    BY <2>1, PhaseStep DEF BeforeCommit, AfterCommit, Closed, Last
<1> QED
  BY <1>1, <1>2, <1>3, <1>4

\* freeze_attempt
LEMMA FreezeAttemptStep == IInv /\ FreezeAttempt => IInv'
<1> SUFFICES ASSUME IInv, FreezeAttempt PROVE IInv'
  OBVIOUS
<1>1. CASE op.attempt = MaxAttempts
  BY <1>1, PoisonStep DEF FreezeAttempt
<1>2. CASE op.attempt # MaxAttempts
  <2>1. /\ UNCHANGED <<rep, pod, net, co, run, peer, installed, stable>>
        /\ op.phase = "RemoveFreezeIntent" /\ rep[Primary].role = "Primary"
        /\ \E t : op' = [op EXCEPT !.phase = "RemoveDispatchIntent", !.attempt = @ + 1,
                                   !.pgen = rep[Primary].gen, !.tgen = t,
                                   !.dispatched = FALSE, !.comp = FALSE]
    BY <1>2 DEF FreezeAttempt, primary, target, Freezable, PrimaryExact
  <2>2. SamePrimary
    BY <2>1, PrimaryIsAlone
  <2>3. /\ IsRecord(op', OperationFields) /\ op'.phase = "RemoveDispatchIntent"
        /\ op'.attempt = op.attempt + 1 /\ op'.pgen = 0
        /\ op'.committed = op.committed /\ op'.absent = op.absent /\ op'.deleted = op.deleted
    <3>1. IsRecord(op, OperationFields) /\ rep[Primary].gen = 0
      BY <2>2 DEF IInv, ShapeInv, SamePrimary
    <3> QED
      BY <2>1, <3>1 DEF IsRecord, OperationFields
  <2>4. /\ op.attempt \in 0 .. MaxAttempts /\ MaxAttempts \in Nat
        /\ co.attempt \in Nat /\ co.attempt <= op.attempt /\ op.attempt \in Nat
    BY RemoveAssumption DEF IInv, ShapeInv
  <2>5. Over = op.attempt /\ Over' = op.attempt
    BY <2>1, <2>3, <2>4 DEF Over
  <2>6. ShapeInv'
    <3>1. op'.attempt \in 0 .. MaxAttempts /\ co.attempt \in 0 .. op'.attempt
      BY <1>2, <2>3, <2>4
    <3> QED
      BY <2>1, <2>3, <3>1 DEF IInv, ShapeInv
  <2>7. SamePrimary' /\ cfg' = cfg
    BY <2>1, <2>2 DEF SamePrimary, cfg
  <2>8. AloneInv'
    <3>1. \A k \in 1 .. op.attempt : k \in 1 .. op'.attempt
      BY <2>3, <2>4
    <3> QED
      BY <2>1, <2>3, <2>7, <3>1 DEF IInv, AloneInv, Id
  <2>9. AttemptInv'
    <3>1. \A k : Record(rep[Primary], k)' = Record(rep[Primary], k)
      BY <2>1 DEF Record
    <3>2. \A k \in 1 .. op'.attempt : k <= Over' \/ k = co.attempt => Record(rep[Primary], Id(k)) # "none"
      <4> SUFFICES ASSUME NEW k \in 1 .. op'.attempt, k <= Over' \/ k = co.attempt
                   PROVE  Record(rep[Primary], Id(k)) # "none"
        OBVIOUS
      <4>1. k \in 1 .. op.attempt
        BY <2>3, <2>4, <2>5
      <4> QED
        BY <2>2, <2>5, <4>1 DEF IInv, AttemptInv
    <3> QED
      BY <2>1, <2>2, <2>5, <3>1, <3>2 DEF IInv, AttemptInv, Id
  <2>10. RuntimeInv(co', run', cfg', installed') /\ ReportInv(co', rep'[Primary].done, run')
    BY <2>1, <2>2, <2>7 DEF IInv
  <2>11. CommitInv'
    <3>1. op'.attempt > 0
      BY <2>3, <2>4
    <3> QED
      BY <2>1, <2>3, <3>1 DEF IInv, CommitInv, BeforeCommit, AfterCommit
  <2>12. CleanInv'
    BY <2>1, <2>2, <2>3 DEF IInv, CleanInv, SamePod, Last
  <2> QED
    BY <2>6, <2>8, <2>9, <2>10, <2>11, <2>12 DEF IInv
<1> QED
  BY <1>1, <1>2

\* The phase stays, and so does what it presumes.
LEMMA SamePhaseStep ==
    ASSUME IInv, UNCHANGED <<rep, pod, net, co, run, peer, installed, stable>>, Kept,
           op'.phase = op.phase
    PROVE  IInv'
<1>1. /\ op.phase \in BeforeCommit \cup AfterCommit \cup {"Poisoned"}
      /\ op.phase \in AfterCommit => op.committed
      /\ op.deleted => op.phase \in Last
      /\ installed => op.phase \notin {"RemoveCompensateFinalize", "Failed"}
  BY DEF IInv, CommitInv, CleanInv
<1> QED
  BY <1>1, KeptStep

LEMMA PersistProgressStep == IInv /\ PersistProgress => IInv'
<1> SUFFICES ASSUME IInv, PersistProgress PROVE IInv'
  OBVIOUS
<1>1. CASE Persist(Poisoned("InvalidRemovalState"))
  BY <1>1, PoisonStep
<1>2. CASE Persist([op EXCEPT !.dispatched = co.dispatched, !.comp = co.comp])
  <2>1. /\ op' = [op EXCEPT !.dispatched = co.dispatched, !.comp = co.comp]
        /\ UNCHANGED <<rep, pod, net, co, run, peer, installed, stable>>
    BY <1>2, PersistFrame
  <2>2. Kept /\ op'.phase = op.phase
    BY <2>1 DEF Kept, IsRecord, OperationFields, IInv, ShapeInv
  <2> QED
    BY <2>1, <2>2, SamePhaseStep
<1> QED
  BY <1>1, <1>2 DEF PersistProgress

LEMMA PlanDispatchStep == IInv /\ PlanDispatch => IInv'
<1> SUFFICES ASSUME IInv, PlanDispatch PROVE IInv'
  OBVIOUS
<1> DEFINE f == Fences(rep[Primary])
<1>1. /\ op' = [op EXCEPT !.fences = f]
      /\ UNCHANGED <<rep, pod, net, co, run, peer, installed, stable>>
  BY PersistFrame DEF PlanDispatch
<1> HIDE DEF f
<1>2. Kept /\ op'.phase = op.phase
  BY <1>1 DEF Kept, IsRecord, OperationFields, IInv, ShapeInv
<1> QED
  BY <1>1, <1>2, SamePhaseStep

\* The primary that the operator watches is the one it started with.
LEMMA WatchedPrimary ==
    ASSUME IInv, Watching
    PROVE  /\ SamePrimary /\ op.phase = "RemoveAwaitCoordination"
           /\ op.attempt \in Nat /\ op.attempt > 0 /\ ~op.deleted /\ op.phase \notin Early
           /\ RuntimeInv(co, run, cfg, installed) /\ ReportInv(co, rep[Primary].done, run)
<1>1. SamePrimary /\ op.phase = "RemoveAwaitCoordination"
  BY PrimaryIsAlone DEF Watching, PrimaryExact, Await
<1>2. op.attempt \in Nat
  BY RemoveAssumption DEF IInv, ShapeInv
<1> QED
  BY <1>1, <1>2 DEF IInv, CommitInv, CleanInv, Early, Last

LEMMA DispatchStep == IInv /\ Dispatch => IInv'
<1> SUFFICES ASSUME IInv, Dispatch PROVE IInv'
  OBVIOUS
<1> DEFINE q == [id |-> Id(op.attempt), fences |-> op.fences,
                 act |-> [do |-> "Remove", attempt |-> op.attempt, gen |-> op.tgen]]
<1>1. /\ UNCHANGED <<op, stable, co, run, installed, rep, pod, peer>>
      /\ net' = net \cup {q} /\ Watching /\ op.fences = Fences(rep[Primary])
  BY DEF Dispatch, primary, target, Executing
<1>2. SamePrimary /\ op.attempt \in Nat /\ op.attempt > 0
  BY <1>1, WatchedPrimary
<1>3. q.fences.gen = 0 /\ q.fences.inst = Inst
  BY <1>1, <1>2 DEF Fences, SamePrimary
<1>4. q.act.attempt \in 1 .. op.attempt /\ q.id = Id(q.act.attempt)
  BY <1>2
<1> HIDE DEF q
<1> QED
  BY <1>1, <1>3, <1>4, NothingMoves

\* record_commit
LEMMA RecordCommitStep == IInv /\ RecordCommit => IInv'
<1> SUFFICES ASSUME IInv, RecordCommit PROVE IInv'
  OBVIOUS
<1> DEFINE how == Merged("none", co.retire)
<1>1. /\ op' = [op EXCEPT !.phase = "RemoveRecordCommit", !.committed = TRUE,
                          !.absent = co.absent, !.retired = how]
      /\ UNCHANGED <<rep, pod, net, co, run, peer, installed, stable>>
      /\ Watching /\ co.commit
  BY PersistFrame DEF RecordCommit, Settled, CommitShown
<1> HIDE DEF how
<1>2. /\ IsRecord(op', OperationFields) /\ op'.attempt = op.attempt /\ op'.pgen = op.pgen
      /\ op'.phase = "RemoveRecordCommit" /\ op'.committed = TRUE /\ op'.absent = co.absent
      /\ op'.deleted = op.deleted
  BY <1>1 DEF IsRecord, OperationFields, IInv, ShapeInv
<1>3. /\ ~op.deleted /\ op.phase \notin Early /\ (co.absent => ~run.conn)
  BY <1>1, WatchedPrimary DEF ReportInv
<1>4. installed /\ stable # "Reduced" /\ stable \in {"Previous", "Reduced"}
  BY <1>1, <1>3 DEF IInv, CommitInv, CleanInv
<1> QED
  BY <1>1, <1>2, <1>3, <1>4, PersistStep DEF AfterCommit, Closed

\* classify_terminal: the attempt is over, and has dispatched nothing.
LEMMA AttemptEndedStep == IInv /\ AttemptEnded => IInv'
<1> SUFFICES ASSUME IInv, AttemptEnded PROVE IInv'
  OBVIOUS
<1>1. CASE \E why : Persist(Poisoned(why))
  BY <1>1, PoisonStep
<1>2. ASSUME NEW phase \in {"RemoveCompensateFinalize", "RemoveFreezeIntent"},
             Persist([op EXCEPT !.phase = phase]), ~op.dispatched
      PROVE  IInv'
  <2>1. /\ op' = [op EXCEPT !.phase = phase]
        /\ UNCHANGED <<rep, pod, net, co, run, peer, installed, stable>>
    BY <1>2, PersistFrame
  <2>2. Kept /\ op'.phase = phase
    BY <2>1 DEF Kept, IsRecord, OperationFields, IInv, ShapeInv
  <2>3. /\ Watching /\ Outcome \notin {"none", "InProgress"} /\ ~co.dispatched
    BY <1>2 DEF AttemptEnded, Settled, ProgressKnown
  <2>4. ~installed /\ SamePrimary /\ ~op.deleted /\ op.attempt \in Nat
        /\ op.phase = "RemoveAwaitCoordination" /\ op.phase \notin Early
    BY <2>3, WatchedPrimary DEF RuntimeInv
  <2>5. co.step = "none"
    <3> SUFFICES ASSUME co.step # "none" PROVE FALSE
      OBVIOUS
    <3>1. /\ rep[Primary].active # NoAction /\ rep[Primary].active.id = Id(co.attempt)
          /\ co.attempt > Over /\ co.attempt \in 0 .. op.attempt /\ Over = op.attempt - 1
      BY <2>4 DEF IInv, AttemptInv, ShapeInv, Over
    <3>2. co.attempt = op.attempt
      BY <2>4, <3>1
    <3> QED
      BY <2>3, <3>1, <3>2 DEF Outcome, Record
  <2>6. Record(rep[Primary], Id(op.attempt)) # "none"
    BY <2>3 DEF Outcome
  <2> QED
    BY <2>1, <2>2, <2>3, <2>4, <2>5, <2>6, KeptStep DEF BeforeCommit, AfterCommit
<1> QED
  BY <1>1, <1>2 DEF AttemptEnded

\* What a reconcile sees of the connection is true of the process it started with.
LEMMA SeenFields ==
    ASSUME IInv
    PROVE  LET seen == CleanupSeen
           IN  /\ IsRecord(seen, OperationFields) /\ seen.attempt = op.attempt
               /\ seen.pgen = op.pgen /\ seen.phase = op.phase /\ seen.committed = op.committed
               /\ seen.deleted = op.deleted
               /\ seen.absent /\ SamePrimary /\ pod[Primary].exists => ~run.conn
<1> DEFINE sees == Exact(Primary) /\ rep[Primary].gen = op.pgen
           gone == ~sees /\ (Observed(Primary) \/ ~SamePod(Primary))
           absent == IF sees THEN ~run.conn \/ co.absent ELSE gone \/ op.absent
           retired == CleanupSeen.retired
<1>1. IsRecord(op, OperationFields) /\ op.pgen = 0
  BY DEF IInv, ShapeInv, AloneInv
<1>2. CleanupSeen.absent = absent /\ CleanupSeen = [op EXCEPT !.absent = absent, !.retired = retired]
  BY <1>1 DEF CleanupSeen, IsRecord, OperationFields
<1>3. absent /\ SamePrimary /\ pod[Primary].exists => ~run.conn
  <2> SUFFICES ASSUME absent, SamePrimary, pod[Primary].exists PROVE ~run.conn
    OBVIOUS
  <2>1. CASE sees
    BY <2>1 DEF IInv, ReportInv
  <2>2. CASE ~sees
    <3>1. ~gone
      BY <1>1, <2>2 DEF Exact, Observed, SamePod, SamePrimary
    <3> QED
      BY <2>2, <3>1 DEF IInv, CleanInv
  <2> QED
    BY <2>1, <2>2
<1> HIDE DEF absent, retired
<1> QED
  BY <1>1, <1>2, <1>3 DEF IsRecord, OperationFields

\* The operator learns of the cleanup, and may enter the phase of the deletion.
LEMMA CleanupStep ==
    ASSUME IInv, op.phase = "RemoveAwaitCleanup",
           UNCHANGED <<rep, pod, net, co, run, peer, installed, stable>>,
           IsRecord(op', OperationFields), op'.attempt = op.attempt, op'.pgen = op.pgen,
           op'.phase \in {"RemoveAwaitCleanup", "RemoveDeleteTargetPod"},
           op'.committed = op.committed, op'.deleted = op.deleted,
           op'.absent /\ SamePrimary /\ pod[Primary].exists => ~run.conn
    PROVE  IInv'
<1>1. /\ op.committed /\ installed /\ ~op.deleted /\ op.phase \notin Early
      /\ stable # "Reduced" /\ stable \in {"Previous", "Reduced"}
  BY DEF IInv, CommitInv, CleanInv, AfterCommit, Early, Last
<1> QED
  BY <1>1, PersistStep DEF AfterCommit, Closed

LEMMA RecordCleanupStep == IInv /\ RecordCleanup => IInv'
<1> SUFFICES ASSUME IInv, RecordCleanup PROVE IInv'
  OBVIOUS
<1> DEFINE seen == CleanupSeen
<1>1. /\ op' = seen /\ UNCHANGED <<rep, pod, net, co, run, peer, installed, stable>>
      /\ op.phase = "RemoveAwaitCleanup"
  BY PersistFrame DEF RecordCleanup, Cleaning
<1>2. /\ IsRecord(seen, OperationFields) /\ seen.attempt = op.attempt
      /\ seen.pgen = op.pgen /\ seen.phase = op.phase /\ seen.committed = op.committed
      /\ seen.deleted = op.deleted
      /\ seen.absent /\ SamePrimary /\ pod[Primary].exists => ~run.conn
  BY SeenFields
<1> HIDE DEF seen
<1> QED
  BY <1>1, <1>2, CleanupStep

LEMMA TargetFencedStep == IInv /\ TargetFenced => IInv'
<1> SUFFICES ASSUME IInv, TargetFenced PROVE IInv'
  OBVIOUS
<1> DEFINE seen == CleanupSeen
           known == [seen EXCEPT !.retired = IF @ = "none" THEN "Unavailable" ELSE @]
           next == [known EXCEPT !.fenced = TRUE,
                      !.phase = IF SamePod(Target) \/ op.fenced THEN "RemoveDeleteTargetPod" ELSE @]
<1>1. /\ op' = next /\ UNCHANGED <<rep, pod, net, co, run, peer, installed, stable>>
      /\ op.phase = "RemoveAwaitCleanup"
  BY PersistFrame DEF TargetFenced, Cleaning, CleanupKnown
<1>2. /\ IsRecord(seen, OperationFields) /\ seen.attempt = op.attempt
      /\ seen.pgen = op.pgen /\ seen.phase = op.phase /\ seen.committed = op.committed
      /\ seen.deleted = op.deleted
      /\ seen.absent /\ SamePrimary /\ pod[Primary].exists => ~run.conn
  BY SeenFields
<1>3. /\ IsRecord(known, OperationFields) /\ known.attempt = seen.attempt
      /\ known.pgen = seen.pgen /\ known.phase = seen.phase /\ known.committed = seen.committed
      /\ known.deleted = seen.deleted /\ known.absent = seen.absent
  <2> HIDE DEF seen
  <2> QED
    BY <1>2 DEF IsRecord, OperationFields
<1>4. /\ IsRecord(next, OperationFields) /\ next.attempt = known.attempt
      /\ next.pgen = known.pgen /\ next.committed = known.committed
      /\ next.deleted = known.deleted /\ next.absent = known.absent
      /\ next.phase \in {known.phase, "RemoveDeleteTargetPod"}
  <2> HIDE DEF known
  <2> QED
    BY <1>3 DEF IsRecord, OperationFields
<1> HIDE DEF seen, known, next
<1> QED
  BY <1>1, <1>2, <1>3, <1>4, CleanupStep

-----------------------------------------------------------------------------
(* The pods.                                                               *)

PodFields == {"exists", "up", "label"}

PodsInv(ps) == IsRecord(ps, Replica) /\ \A r \in Replica : IsRecord(ps[r], PodFields)

LEMMA PodGoes ==
    ASSUME NEW ps, PodsInv(ps), NEW r \in Replica
    PROVE  LET qs == [ps EXCEPT ![r].exists = FALSE]
           IN  /\ PodsInv(qs) /\ \A s \in Replica \ {r} : qs[s] = ps[s]
               /\ ~qs[r].exists /\ qs[r].label = ps[r].label
BY DEF PodsInv, IsRecord, PodFields

LEMMA PodConnects ==
    ASSUME NEW ps, PodsInv(ps), NEW r \in Replica, NEW v
    PROVE  LET qs == [ps EXCEPT ![r].up = v]
           IN  /\ PodsInv(qs) /\ \A s \in Replica \ {r} : qs[s] = ps[s]
               /\ qs[r].exists = ps[r].exists /\ qs[r].label = ps[r].label
BY DEF PodsInv, IsRecord, PodFields

LEMMA PodLabelled ==
    ASSUME NEW ps, PodsInv(ps), NEW r \in Replica, NEW v
    PROVE  LET qs == [ps EXCEPT ![r].label = v]
           IN  /\ PodsInv(qs) /\ \A s \in Replica \ {r} : qs[s] = ps[s]
               /\ qs[r].exists = ps[r].exists /\ qs[r].label = v
BY DEF PodsInv, IsRecord, PodFields

LEMMA BlankFields ==
    ASSUME NEW i, NEW g
    PROVE  LET b == BlankProcess(i, g)
           IN  /\ IsRecord(b, ProcessFields) /\ b.gen = g /\ b.inst = i
               /\ b.role = "Unknown" /\ b.active = NoAction
BY DEF BlankProcess, IsRecord, ProcessFields

\* A step outside the primary's process.
LEMMA PodStep ==
    ASSUME IInv, UNCHANGED <<op, stable, net, co, run, installed>>, PodsInv(pod'),
           pod'[Primary].exists => pod[Primary].exists,
           IsRecord(rep', Replica), rep'[Primary] = rep[Primary],
           \/ /\ rep'[Target] = rep[Target]
              /\ pod'[Target].exists => pod[Target].exists
           \/ /\ pod'[Target].exists => pod[Target].exists
              /\ rep'[Target] = Restarted(rep[Target])
           \/ rep'[Target] = BlankProcess(rep[Target].inst + 1, rep[Target].gen + 1),
           peer' = peer \/ peer' = BlankPeer,
           pod'[Target].label \in {"retired", pod[Target].label} \/ pod'[Target].label = "bootstrap",
           pod'[Target].label = "retired" => installed \/ pod[Target].label = "retired"
    PROVE  IInv'
<1>1. /\ rep[Target].gen \in Nat /\ rep[Target].inst \in Nat /\ Inst = 0
      /\ IsRecord(rep[Target], ProcessFields) /\ IsRecord(peer, {"ver", "active", "done"})
      /\ peer.active # NoAction /\ peer.active.auth => installed
      /\ rep[Target].role = "None" \/ pod[Target].label = "retired" => installed
  BY DEF IInv, ShapeInv, CommitInv, Inst
<1>2. /\ IsRecord(rep'[Target], ProcessFields) /\ rep'[Target].gen \in Nat /\ rep'[Target].inst \in Nat
      /\ rep'[Target].role = "None" => rep[Target].role = "None"
      /\ pod'[Target].exists /\ rep'[Target].inst = Inst => SamePod(Target)
  <2>1. CASE rep'[Target] = rep[Target] /\ (pod'[Target].exists => pod[Target].exists)
    BY <1>1, <2>1 DEF SamePod
  <2>2. CASE rep'[Target] = Restarted(rep[Target]) /\ (pod'[Target].exists => pod[Target].exists)
    <3>1. /\ IsRecord(rep'[Target], ProcessFields) /\ rep'[Target].gen = rep[Target].gen + 1
          /\ rep'[Target].inst = rep[Target].inst /\ rep'[Target].role = "Unknown"
      BY <2>2, BlankFields DEF Restarted
    <3> QED
      BY <1>1, <2>2, <3>1 DEF SamePod
  <2>3. CASE rep'[Target] = BlankProcess(rep[Target].inst + 1, rep[Target].gen + 1)
    <3>1. /\ IsRecord(rep'[Target], ProcessFields) /\ rep'[Target].gen = rep[Target].gen + 1
          /\ rep'[Target].inst = rep[Target].inst + 1 /\ rep'[Target].role = "Unknown"
      BY <2>3, BlankFields
    <3> QED
      BY <1>1, <3>1
  <2> QED
    BY <2>1, <2>2, <2>3
<1>3. /\ IsRecord(peer', {"ver", "active", "done"})
      /\ peer'.active # NoAction /\ peer'.active.auth => installed
  BY <1>1 DEF BlankPeer, IsRecord
<1>4. rep'[Target].role = "None" \/ pod'[Target].label = "retired" => installed
  BY <1>1, <1>2
<1> QED
  BY <1>2, <1>3, <1>4, OutsideStep DEF PodsInv, PodFields

LEMMA KnownPods == IInv => PodsInv(pod)
BY DEF IInv, ShapeInv, PodsInv, PodFields

LEMMA FenceTargetStep == IInv /\ FenceTarget => IInv'
<1> SUFFICES ASSUME IInv, FenceTarget PROVE IInv'
  OBVIOUS
<1> DEFINE qs == [pod EXCEPT ![Target].label = "retired"]
<1>1. /\ UNCHANGED <<op, stable, net, rep, peer, co, run, installed>> /\ pod' = qs
      /\ op.phase = "RemoveAwaitCleanup"
  BY DEF FenceTarget, primary, target, Cleaning
<1>2. installed
  BY <1>1 DEF IInv, CommitInv, AfterCommit
<1>3. /\ PodsInv(qs) /\ qs[Primary] = pod[Primary] /\ qs[Target].exists = pod[Target].exists
      /\ qs[Target].label = "retired"
  BY Ids, KnownPods, PodLabelled
<1> HIDE DEF qs
<1> QED
  BY <1>1, <1>2, <1>3, PodStep DEF IInv, ShapeInv

LEMMA DeleteTargetStep == IInv /\ DeleteTarget => IInv'
<1> SUFFICES ASSUME IInv, DeleteTarget PROVE IInv'
  OBVIOUS
<1>1. CASE SamePod(Target)
  <2> DEFINE qs == [pod EXCEPT ![Target].exists = FALSE]
  <2>1. /\ UNCHANGED <<op, stable, net, co, run, installed>> /\ pod' = qs /\ peer' = BlankPeer
        /\ rep' = [rep EXCEPT ![Target] = Restarted(@)]
    BY <1>1 DEF DeleteTarget, primary
  <2>2. /\ PodsInv(qs) /\ qs[Primary] = pod[Primary] /\ ~qs[Target].exists
        /\ qs[Target].label = pod[Target].label
    BY Ids, KnownPods, PodGoes
  <2>3. /\ IsRecord(rep', Replica) /\ rep'[Primary] = rep[Primary]
        /\ rep'[Target] = Restarted(rep[Target])
    BY <2>1, Ids DEF IInv, ShapeInv, IsRecord
  <2> HIDE DEF qs
  <2> QED
    BY <2>1, <2>2, <2>3, PodStep
<1>2. CASE ~SamePod(Target)
  <2>1. /\ op' = [op EXCEPT !.deleted = TRUE, !.phase = "RemovePublishTopology"]
        /\ UNCHANGED <<rep, pod, net, co, run, peer, installed, stable>>
        /\ op.phase = "RemoveDeleteTargetPod"
    BY <1>2, PersistFrame DEF DeleteTarget
  <2>2. /\ IsRecord(op', OperationFields) /\ op'.attempt = op.attempt /\ op'.pgen = op.pgen
        /\ op'.phase = "RemovePublishTopology" /\ op'.committed = op.committed
        /\ op'.absent = op.absent /\ op'.deleted = TRUE
    BY <2>1 DEF IsRecord, OperationFields, IInv, ShapeInv
  <2>3. /\ op.committed /\ installed /\ op.phase \notin Early
        /\ stable \in {"Previous", "Reduced"} /\ (stable = "Reduced" => op.absent)
        /\ op.absent /\ SamePrimary /\ pod[Primary].exists => ~run.conn
    BY <2>1 DEF IInv, CommitInv, CleanInv, AfterCommit, Early
  <2> QED
    BY <1>2, <2>1, <2>2, <2>3, PersistStep DEF AfterCommit, Closed, Last
<1> QED
  BY <1>1, <1>2

LEMMA PublishTopologyStep == IInv /\ PublishTopology => IInv'
<1> SUFFICES ASSUME IInv, PublishTopology PROVE IInv'
  OBVIOUS
<1>1. CASE op.absent /\ op.retired # "none" /\ op.fenced /\ op.deleted
  <2>1. /\ op' = [op EXCEPT !.phase = "RemoveFinalize"] /\ stable' = "Reduced"
        /\ UNCHANGED <<rep, pod, net, co, run, peer, installed>>
        /\ op.phase = "RemovePublishTopology"
    BY <1>1 DEF PublishTopology, primary, target
  <2>2. /\ IsRecord(op', OperationFields) /\ op'.attempt = op.attempt /\ op'.pgen = op.pgen
        /\ op'.phase = "RemoveFinalize" /\ op'.committed = op.committed
        /\ op'.absent = op.absent /\ op'.deleted = op.deleted
    BY <2>1 DEF IsRecord, OperationFields, IInv, ShapeInv
  <2>3. /\ op.committed /\ installed /\ op.phase \notin Early /\ ~SamePod(Target)
        /\ op.absent /\ SamePrimary /\ pod[Primary].exists => ~run.conn
    BY <1>1, <2>1 DEF IInv, CommitInv, CleanInv, AfterCommit, Early
  <2> QED
    BY <1>1, <2>1, <2>2, <2>3, PersistStep DEF AfterCommit, Closed, Last
<1>2. CASE Persist(Poisoned("InvalidRemovalState"))
  BY <1>2, PoisonStep
<1> QED
  BY <1>1, <1>2 DEF PublishTopology

LEMMA ReconcileStep == IInv /\ Reconcile => IInv'
BY PoisonSteps, PhaseSteps, FreezeAttemptStep, PersistProgressStep, RecordCommitStep,
   AttemptEndedStep, PlanDispatchStep, DispatchStep, RecordCleanupStep, FenceTargetStep,
   TargetFencedStep, DeleteTargetStep, PublishTopologyStep DEF Reconcile

-----------------------------------------------------------------------------
(* Time and faults.                                                        *)

LEMMA ClockStep == IInv /\ Clock => IInv'
BY NothingMoves DEF Clock, Deadline, Expiry, operator, primary, target

LEMMA ConnectionStep ==
    ASSUME IInv, NEW r \in Replica, Disconnect(r) \/ Reconnect(r)
    PROVE  IInv'
<1>1. PICK v \in BOOLEAN : /\ UNCHANGED <<op, stable, net, rep, peer, co, run, installed>>
                          /\ pod' = [pod EXCEPT ![r].up = v]
  BY DEF Disconnect, Reconnect, Fault, primary, target
<1> DEFINE qs == [pod EXCEPT ![r].up = v]
<1>2. /\ PodsInv(qs) /\ \A s \in Replica \ {r} : qs[s] = pod[s]
      /\ qs[r].exists = pod[r].exists /\ qs[r].label = pod[r].label
  BY KnownPods, PodConnects
<1> HIDE DEF qs
<1>3. pod' = qs /\ \A s \in Replica : qs[s].exists = pod[s].exists /\ qs[s].label = pod[s].label
  BY <1>1, <1>2 DEF qs
<1> QED
  BY <1>1, <1>2, <1>3, Ids, PodStep DEF IInv, ShapeInv

\* What a fault does to the pods and to the processes.
LEMMA EndingProcess ==
    ASSUME IInv, NEW r \in Replica, RestartContainer(r) \/ LosePod(r) \/ ReplacePod(r)
    PROVE  /\ UNCHANGED <<op, stable, net, installed>> /\ Ends(r)
           /\ \/ /\ rep' = [rep EXCEPT ![r] = Restarted(@)]
                 /\ pod'[r].exists => pod[r].exists
                 /\ pod'[r].label = pod[r].label
              \/ /\ rep' = [rep EXCEPT ![r] = BlankProcess(@.inst + 1, @.gen + 1)]
                 /\ pod'[r].exists = pod[r].exists
                 /\ pod'[r].label = "bootstrap"
           /\ PodsInv(pod') /\ \A s \in Replica \ {r} : pod'[s] = pod[s]
<1>1. CASE RestartContainer(r)
  BY <1>1, KnownPods DEF RestartContainer, Fault
<1>2. CASE LosePod(r)
  <2> DEFINE qs == [pod EXCEPT ![r].exists = FALSE]
  <2>1. /\ PodsInv(qs) /\ \A s \in Replica \ {r} : qs[s] = pod[s]
        /\ ~qs[r].exists /\ qs[r].label = pod[r].label
    BY KnownPods, PodGoes
  <2>2. /\ UNCHANGED <<op, stable, net, installed>> /\ Ends(r) /\ pod' = qs
        /\ rep' = [rep EXCEPT ![r] = Restarted(@)]
    BY <1>2 DEF LosePod, Fault
  <2> HIDE DEF qs
  <2> QED
    BY <2>1, <2>2
<1>3. CASE ReplacePod(r)
  <2> DEFINE qs == [pod EXCEPT ![r].label = "bootstrap"]
  <2>1. /\ PodsInv(qs) /\ \A s \in Replica \ {r} : qs[s] = pod[s]
        /\ qs[r].exists = pod[r].exists /\ qs[r].label = "bootstrap"
    BY KnownPods, PodLabelled
  <2>2. /\ UNCHANGED <<op, stable, net, installed>> /\ Ends(r) /\ pod' = qs
        /\ rep' = [rep EXCEPT ![r] = BlankProcess(@.inst + 1, @.gen + 1)]
    BY <1>3 DEF ReplacePod, Fault
  <2> HIDE DEF qs
  <2> QED
    BY <2>1, <2>2
<1> QED
  BY <1>1, <1>2, <1>3

\* Another process takes the place of the primary's.
LEMMA PrimaryEnds ==
    ASSUME IInv, RestartContainer(Primary) \/ LosePod(Primary) \/ ReplacePod(Primary)
    PROVE  IInv'
<1>1. /\ UNCHANGED <<op, stable, net, installed, peer>> /\ co' = NoCo /\ run' = BlankRun
      /\ PodsInv(pod') /\ pod'[Target] = pod[Target]
      /\ rep' = [rep EXCEPT ![Primary] = Restarted(@)] \/
         rep' = [rep EXCEPT ![Primary] = BlankProcess(@.inst + 1, @.gen + 1)]
  BY Ids, EndingProcess DEF Ends
<1>2. /\ IsRecord(rep, Replica) /\ rep[Primary].gen \in Nat /\ rep[Primary].inst \in Nat
  BY DEF IInv, ShapeInv
<1>3. \E i \in Nat : rep' = [rep EXCEPT ![Primary] = BlankProcess(i, rep[Primary].gen + 1)]
  BY <1>1, <1>2, Ids DEF Restarted, IsRecord
<1>4. PICK i \in Nat : rep' = [rep EXCEPT ![Primary] = BlankProcess(i, rep[Primary].gen + 1)]
  BY <1>3
<1> DEFINE b == BlankProcess(i, rep[Primary].gen + 1)
<1>5. /\ IsRecord(b, ProcessFields) /\ b.gen = rep[Primary].gen + 1 /\ b.inst = i
      /\ b.role = "Unknown" /\ b.active = NoAction
  BY BlankFields
<1>6. IsRecord(rep', Replica) /\ rep'[Primary] = b /\ rep'[Target] = rep[Target]
  <2> HIDE DEF b
  <2> QED
    BY <1>2, <1>4, Ids DEF IsRecord, b
<1> HIDE DEF b
<1>7. ~SamePrimary'
  BY <1>2, <1>5, <1>6 DEF SamePrimary
<1>8. ShapeInv'
  <2>1. /\ IsRecord(NoCo, CoordinatorFields) /\ NoCo.attempt = 0
        /\ IsRecord(BlankRun, {"conn", "tracker", "queue", "wait"}) /\ BlankRun.queue \in Seq(Calls)
    BY DEF NoCo, IsRecord, CoordinatorFields, BlankRun
  <2>2. op.attempt \in Nat
    BY RemoveAssumption DEF IInv, ShapeInv
  <2>3. 0 \in 0 .. op.attempt
    BY <2>2
  <2>4. /\ IsRecord(rep'[Primary], ProcessFields) /\ rep'[Primary].gen \in Nat
        /\ rep'[Primary].inst \in Nat
    BY <1>2, <1>5, <1>6
  <2> QED
    BY <1>1, <1>6, <2>1, <2>3, <2>4 DEF IInv, ShapeInv, PodsInv, PodFields
<1>9. AloneInv'
  BY <1>1, <1>5, <1>6 DEF IInv, AloneInv, Id
<1>10. CommitInv'
  BY <1>1, <1>6 DEF IInv, CommitInv, NoCo
<1>11. CleanInv'
  BY <1>1, <1>6, <1>7 DEF IInv, CleanInv, SamePod
<1> QED
  BY <1>7, <1>8, <1>9, <1>10, <1>11 DEF IInv, AttemptInv

LEMMA FaultsStep ==
    ASSUME IInv, NEW r \in Replica, Faults(r) \/ Reconnect(r)
    PROVE  IInv'
<1>1. CASE Disconnect(r) \/ Reconnect(r)
  BY <1>1, ConnectionStep
<1>2. CASE RestartContainer(r) \/ LosePod(r) \/ ReplacePod(r)
  <2>1. CASE r = Primary
    BY <1>2, <2>1, PrimaryEnds
  <2>2. CASE r # Primary
    <3>1. /\ UNCHANGED <<op, stable, net, installed>> /\ Ends(r)
          /\ \/ /\ rep' = [rep EXCEPT ![r] = Restarted(@)]
                /\ pod'[r].exists => pod[r].exists
                /\ pod'[r].label = pod[r].label
             \/ /\ rep' = [rep EXCEPT ![r] = BlankProcess(@.inst + 1, @.gen + 1)]
                /\ pod'[r].exists = pod[r].exists
                /\ pod'[r].label = "bootstrap"
          /\ PodsInv(pod') /\ \A s \in Replica \ {r} : pod'[s] = pod[s]
      BY <1>2, EndingProcess
    <3>2. /\ UNCHANGED <<co, run>> /\ (peer' = peer \/ peer' = BlankPeer)
      BY <2>2, <3>1 DEF Ends
    <3>3. IsRecord(rep, Replica)
      BY DEF IInv, ShapeInv
    <3>4. /\ IsRecord(rep', Replica) /\ rep'[Primary] = rep[Primary]
          /\ r # Target => rep'[Target] = rep[Target]
          /\ r = Target => \/ rep'[Target] = Restarted(rep[Target])
                           \/ rep'[Target] = BlankProcess(rep[Target].inst + 1, rep[Target].gen + 1)
      BY <2>2, <3>1, <3>3, Ids DEF IsRecord
    <3>5. CASE r = Target
      BY <2>2, <3>1, <3>2, <3>4, <3>5, Ids, PodStep
    <3>6. CASE r # Target
      BY <2>2, <3>1, <3>2, <3>4, <3>6, Ids, PodStep
    <3> QED
      BY <3>5, <3>6
  <2> QED
    BY <2>1, <2>2
<1> QED
  BY <1>1, <1>2 DEF Faults

LEMMA NextInv == IInv /\ PeerInv /\ [Next]_vars => IInv'
<1> SUFFICES ASSUME IInv, PeerInv, [Next]_vars PROVE IInv'
  OBVIOUS
<1>1. CASE Coordinate
  BY <1>1, HandleIntentStep, ValidateStep, InstallCatchUpStep, CatchUpInstalledStep,
     AwaitQuorumStep, InstallCurrentStep, CurrentInstalledStep, CompensateStep,
     WaitCancelledStep, RemoveConnectionStep, RetireStep, AttestStep DEF Coordinate
<1>2. CASE CallTimesOut \/ AskTimesOut \/ Runtime
  BY <1>2, CallTimesOutStep, AskTimesOutStep, RunEffectStep, FinishWaitStep DEF Runtime
<1>3. CASE Serve
  BY <1>3, ReceiveStageStep, AuthorizeStep, RunStepStep DEF Serve
<1>4. CASE UNCHANGED vars
  BY <1>4, NothingMoves DEF vars
<1> QED
  BY <1>1, <1>2, <1>3, <1>4, ReconcileStep, ClockStep, FaultsStep DEF Next

-----------------------------------------------------------------------------
(* The ledger of the target.                                               *)

LEMMA PeerStays ==
    ASSUME PeerInv, peer' = peer \/ peer' = BlankPeer, \A m \in mail' : m \in mail \/ m.stage = "Retire"
    PROVE  PeerInv'
BY DEF PeerInv, BlankPeer, IsRecord

LEMMA OperatorLeavesPeer ==
    ASSUME Reconcile
    PROVE  mail' = mail /\ (peer' = peer \/ peer' = BlankPeer)
<1>1. ASSUME NEW n, Persist(n)
      PROVE  mail' = mail /\ peer' = peer
  BY <1>1 DEF Persist, target
<1>2. CASE FailClosed \/ DispatchIntent \/ PrimarySilent \/ PrimaryRestarted \/ PersistProgress
  BY <1>1, <1>2 DEF FailClosed, DispatchIntent, PrimarySilent, PrimaryRestarted, PersistProgress
<1>3. CASE RecordCommit \/ AttemptEnded \/ AttemptLost \/ PlanDispatch \/ CompensateFinalize
  BY <1>1, <1>3 DEF RecordCommit, AttemptEnded, AttemptLost, PlanDispatch, CompensateFinalize
<1>4. CASE StartCleanup \/ RecordCleanup \/ TargetFenced \/ Finalize
  BY <1>1, <1>4 DEF StartCleanup, RecordCleanup, TargetFenced, Finalize
<1>5. CASE FreezeAttempt \/ PublishTopology \/ Dispatch \/ FenceTarget
  BY <1>1, <1>5 DEF FreezeAttempt, PublishTopology, Dispatch, FenceTarget, target
<1>6. CASE DeleteTarget
  BY <1>1, <1>6 DEF DeleteTarget
<1> QED
  BY <1>2, <1>3, <1>4, <1>5, <1>6 DEF Reconcile

LEMMA CoordinatorLeavesPeer ==
    ASSUME Coordinate
    PROVE  peer' = peer /\ \A m \in mail' : m \in mail \/ m.stage = "Retire"
<1>1. CASE Retire
  <2> DEFINE m == [id |-> MessageId, stage |-> "Retire", inst |-> Inst, gen |-> co.gen, ver |-> peer.ver]
  <2>1. peer' = peer /\ mail' \in {mail, mail \cup {m}}
    BY <1>1 DEF Retire
  <2>2. m.stage = "Retire"
    OBVIOUS
  <2> HIDE DEF m
  <2> QED
    BY <2>1, <2>2
<1>2. CASE HandleIntent \/ Attest
  BY <1>2 DEF HandleIntent, Attest, target
<1>3. CASE ~Retire /\ ~HandleIntent /\ ~Attest
  <2>1. Quiet
    BY <1>3 DEF Coordinate, Validate, InstallCatchUp, CatchUpInstalled, AwaitQuorum,
                InstallCurrent, CurrentInstalled, Compensate, WaitCancelled, RemoveConnection
  <2> QED
    BY <2>1 DEF Quiet, target
<1> QED
  BY <1>1, <1>2, <1>3

LEMMA ReceiveStagePeer == PeerInv /\ ReceiveStage => PeerInv'
<1> SUFFICES ASSUME PeerInv, ReceiveStage PROVE PeerInv'
  OBVIOUS
<1>1. PICK m \in mail : /\ mail' = mail \ {m}
                        /\ peer' = peer \/ peer' = PeerAccept(peer, m)
  BY DEF ReceiveStage
<1>2. CASE peer' = peer
  BY <1>1, <1>2, PeerStays
<1>3. CASE peer' = PeerAccept(peer, m)
  <2> DEFINE a == PeerAccept(peer, m)
  <2>1. /\ IsRecord(a, PeerFields) /\ IsRecord(a.active, StageFields)
        /\ a.active.stage = m.stage /\ a.active.step = 1
    BY PeerAcceptFields, ZenonT(60) DEF PeerInv, PeerFields
  <2>2. m.stage = "Retire"
    BY DEF PeerInv
  <2> HIDE DEF a
  <2>3. peer' = a
    BY <1>3 DEF a
  <2> QED
    BY <1>1, <2>1, <2>2, <2>3 DEF PeerInv, PeerFields, StageFields
<1> QED
  BY <1>1, <1>2, <1>3

LEMMA AuthorizePeer == PeerInv /\ Authorize => PeerInv'
<1> SUFFICES ASSUME PeerInv, Authorize PROVE PeerInv'
  OBVIOUS
<1>1. mail' = mail /\ IsRecord(peer, PeerFields) /\ peer.active # NoAction
  BY DEF Authorize, PeerInv, PeerFields, Staging
<1>2. CASE peer' = [peer EXCEPT !.active.auth = TRUE]
  <2>1. IsRecord(peer.active, StageFields)
    BY <1>1 DEF PeerInv, StageFields
  <2>2. /\ IsRecord(peer', PeerFields) /\ IsRecord(peer'.active, StageFields)
        /\ peer'.active.stage = peer.active.stage /\ peer'.active.step = peer.active.step
    BY <1>1, <1>2, <2>1 DEF IsRecord, PeerFields, StageFields
  <2> QED
    BY <1>1, <2>2 DEF PeerInv, PeerFields, StageFields
<1>3. CASE peer' = PeerEnd(peer, "Stale")
  BY <1>1, <1>3, PeerEndFields DEF PeerInv, PeerFields
<1> QED
  BY <1>2, <1>3 DEF Authorize

LEMMA RunStepPeer == IInv /\ PeerInv /\ RunStep => PeerInv'
<1> SUFFICES ASSUME IInv, PeerInv, RunStep PROVE PeerInv'
  OBVIOUS
<1> DEFINE res == StepResult(rep[Target], StepAtHand(peer), Epoch)
<1>1. mail' = mail /\ IsRecord(peer, PeerFields) /\ peer.active # NoAction
  BY DEF RunStep, PeerInv, PeerFields, Staging
<1>2. res.out = "Next" => peer.active.step = 1
  BY RunStepResult
<1>3. peer' = PeerStepped(peer, res.out) \/ peer' = PeerEnd(peer, "Failed")
  BY DEF RunStep
<1> HIDE DEF res
<1>4. CASE \E state : peer' = PeerEnd(peer, state)
  BY <1>1, <1>4, PeerEndFields DEF PeerInv, PeerFields
<1>5. CASE res.out = "Next" /\ peer' = PeerStepped(peer, res.out)
  <2> DEFINE n == [peer EXCEPT !.active.step = @ + 1, !.active.auth = FALSE]
  <2>1. IsRecord(peer.active, StageFields) /\ peer.active.stage = "Retire"
    BY <1>1 DEF PeerInv, StageFields
  <2>2. /\ IsRecord(n, PeerFields) /\ IsRecord(n.active, StageFields)
        /\ n.active.stage = "Retire" /\ n.active.step = peer.active.step + 1
    BY <1>1, <2>1, PeerNextFields
  <2>3. n.active.step = 2
    BY <1>2, <1>5, <2>2
  <2>4. peer' = n
    BY <1>5 DEF PeerStepped
  <2> HIDE DEF n
  <2> QED
    BY <1>1, <2>2, <2>3, <2>4 DEF PeerInv, PeerFields, StageFields
<1> QED
  BY <1>3, <1>4, <1>5 DEF PeerStepped

LEMMA NextPeer == IInv /\ PeerInv /\ [Next]_vars => PeerInv'
<1> SUFFICES ASSUME IInv, PeerInv, [Next]_vars PROVE PeerInv'
  OBVIOUS
<1>1. CASE Reconcile
  BY <1>1, OperatorLeavesPeer, PeerStays
<1>2. CASE Coordinate
  BY <1>2, CoordinatorLeavesPeer, PeerStays
<1>3. CASE CallTimesOut \/ AskTimesOut \/ Runtime \/ Clock
  BY <1>3, PeerStays DEF CallTimesOut, AskTimesOut, Runtime, RunEffect, FinishWait, Clock, Deadline,
                         Expiry, target
<1>4. CASE Serve
  BY <1>4, ReceiveStagePeer, AuthorizePeer, RunStepPeer DEF Serve
<1>5. ASSUME NEW r \in Replica, Faults(r) \/ Reconnect(r)
      PROVE  PeerInv'
  BY <1>5, PeerStays DEF Faults, Reconnect, Disconnect, LosePod, RestartContainer, ReplacePod,
                         Fault, Ends, target
<1>6. CASE UNCHANGED vars
  BY <1>6, PeerStays DEF vars
<1> QED
  BY <1>1, <1>2, <1>3, <1>4, <1>5, <1>6 DEF Next

-----------------------------------------------------------------------------
(* The theorems.                                                           *)

LEMMA MemberFields ==
    ASSUME NEW role
    PROVE  LET m == Member(role)
           IN  /\ IsRecord(m, ProcessFields) /\ m.gen = 0 /\ m.inst = Inst /\ m.role = role
               /\ m.active = NoAction /\ m.done = << >>
               /\ role = "Primary" => m.cfg = "Previous"
<1> DEFINE b == BlankProcess(Inst, 0)
<1>1. /\ IsRecord(b, ProcessFields) /\ b.gen = 0 /\ b.inst = Inst /\ b.active = NoAction
      /\ b.done = << >>
  BY DEF BlankProcess, IsRecord, ProcessFields
<1> HIDE DEF b
<1>2. Member(role) =
         [b EXCEPT !.open = TRUE, !.role = role, !.wal = role, !.epoch = Epoch,
            !.write = IF role = "Primary" THEN "Granted" ELSE "NotPrimary",
            !.cfg = IF role = "Primary" THEN "Previous" ELSE NoConfig, !.data = TRUE]
  BY DEF Member, b
<1> QED
  BY <1>1, <1>2 DEF IsRecord, ProcessFields

LEMMA InitInv == Init => IInv /\ PeerInv
<1> SUFFICES ASSUME Init PROVE IInv /\ PeerInv
  OBVIOUS
<1>1. /\ rep[Primary] = Member("Primary") /\ rep[Target] = Member("ActiveSecondary")
      /\ IsRecord(rep, Replica)
  BY Ids DEF Init, IsRecord
<1>2. /\ IsRecord(rep[Primary], ProcessFields) /\ rep[Primary].gen = 0 /\ rep[Primary].inst = 0
      /\ rep[Primary].role = "Primary" /\ rep[Primary].active = NoAction
      /\ rep[Primary].cfg = "Previous"
      /\ IsRecord(rep[Target], ProcessFields) /\ rep[Target].gen = 0 /\ rep[Target].inst = 0
      /\ rep[Target].role = "ActiveSecondary"
  BY <1>1, MemberFields DEF Inst
<1>3. PICK mode \in {"ScaleDown", "Force"}, up \in BOOLEAN :
          /\ op = [mode |-> mode, phase |-> "RemoveFreezeIntent", attempt |-> 0, pgen |-> 0,
                   tgen |-> NoGen, fences |-> << >>, dispatched |-> FALSE, comp |-> FALSE,
                   committed |-> FALSE, absent |-> FALSE, retired |-> "none",
                   fenced |-> FALSE, deleted |-> FALSE, why |-> "none"]
          /\ pod = [r \in Replica |->
                      [exists |-> TRUE, up |-> (r = Target => up),
                       label |-> IF r = Primary THEN "primary" ELSE "secondary"]]
  BY DEF Init
<1>4. /\ IsRecord(op, OperationFields) /\ op.phase = "RemoveFreezeIntent" /\ op.attempt = 0
      /\ op.pgen = 0 /\ op.committed = FALSE /\ op.absent = FALSE /\ op.deleted = FALSE
  BY <1>3 DEF IsRecord, OperationFields
<1>5. PodsInv(pod) /\ pod[Target].label = "secondary"
  BY <1>3, Ids DEF PodsInv, IsRecord, PodFields
<1>6. /\ run = [BlankRun EXCEPT !.conn = TRUE] /\ co = NoCo /\ peer = BlankPeer
      /\ net = {} /\ mail = {} /\ installed = FALSE /\ stable = "Previous"
  BY DEF Init
<1>7. /\ IsRecord(run, {"conn", "tracker", "queue", "wait"}) /\ run.queue = << >>
      /\ run.tracker = "Previous"
  BY <1>6 DEF BlankRun, IsRecord
<1>8. /\ IsRecord(co, CoordinatorFields) /\ co.step = "none" /\ co.attempt = 0 /\ co.asked = FALSE
      /\ co.dispatched = FALSE /\ co.commit = FALSE /\ co.absent = FALSE
  BY <1>6 DEF NoCo, IsRecord, CoordinatorFields
<1>9. /\ IsRecord(peer, {"ver", "active", "done"}) /\ peer.active = NoAction
  BY <1>6 DEF BlankPeer, IsRecord
<1>10. ShapeInv
  <2>1. 0 \in 0 .. MaxAttempts /\ 0 \in 0 .. 0
    BY RemoveAssumption
  <2>2. run.queue \in Seq(Calls)
    BY <1>7
  <2> QED
    BY <1>1, <1>2, <1>4, <1>5, <1>7, <1>8, <1>9, <2>1, <2>2 DEF ShapeInv, PodsInv, PodFields
<1>11. SamePrimary /\ cfg = "Previous"
  BY <1>2 DEF SamePrimary, cfg, Inst
<1>12. AloneInv
  BY <1>4, <1>6, <1>11 DEF AloneInv
<1>13. AttemptInv
  BY <1>2, <1>4, <1>8 DEF AttemptInv
<1>14. RuntimeInv(co, run, cfg, installed) /\ ReportInv(co, rep[Primary].done, run)
  <2>1. Len(run.queue) = 0
    BY <1>7
  <2> QED
    BY <1>6, <1>8, <1>7, <1>11, <2>1 DEF RuntimeInv, ReportInv
<1>15. CommitInv /\ CleanInv
  BY <1>2, <1>4, <1>5, <1>6, <1>8, <1>9 DEF CommitInv, CleanInv, BeforeCommit, AfterCommit, Early
<1>16. PeerInv
  BY <1>6, <1>9 DEF PeerInv
<1> QED
  BY <1>10, <1>12, <1>13, <1>14, <1>15, <1>16 DEF IInv

\* The invariant of the removal holds in every state that the operator, the
\* coordinator, the runtime, the target and the faults can reach.
THEOREM IInvHolds == Spec => [](IInv /\ PeerInv)
<1>1. Init => IInv /\ PeerInv
  BY InitInv
<1>2. (IInv /\ PeerInv) /\ [Next]_vars => (IInv /\ PeerInv)'
  BY NextInv, NextPeer
<1> QED
  BY <1>1, <1>2, PTL DEF Spec

\* Once the primary has installed the reduced configuration as the current one,
\* nothing takes it back while that process lives (no effect that was given up and
\* runs late, no compensation, no later attempt), and the operation never ends as
\* one that failed: decide_remove_replica and the coordinator of replica_agent.rs.
THEOREM CommitIsFinal == Spec => []CommitStands
<1>1. IInv => CommitStands
  BY DEF IInv, CommitInv, RuntimeInv, CommitStands
<1> QED
  BY <1>1, IInvHolds, PTL

\* A member is retired (ensure_remove_target_retirement) or fenced by its label
\* only when the primary's quorums are those of the configuration without it.
THEOREM RetiredIsNeverCounted == Spec => []RetiredIsNotCounted
<1>1. IInv => RetiredIsNotCounted
  BY DEF IInv, CommitInv, RuntimeInv, RetiredIsNotCounted
<1> QED
  BY <1>1, IInvHolds, PTL

\* The state is well typed, a coordinator runs exactly while its intent is active
\* and reports what the agent accepts, its record tells the truth about the commit,
\* and the reduced snapshot is published when nothing of the target is left.
THEOREM ReportsAndPublication == Spec => []Consistent
<1>1. ASSUME IInv PROVE TypeOK
  <2>1. /\ op.phase \in Terminal \cup
              {"RemoveFreezeIntent", "RemoveDispatchIntent", "RemoveAwaitCoordination",
               "RemoveRecordCommit", "RemoveAwaitCleanup", "RemoveDeleteTargetPod",
               "RemovePublishTopology", "RemoveFinalize", "RemoveCompensateFinalize"}
        /\ op.attempt \in 0 .. MaxAttempts /\ stable \in {"Previous", "Reduced"}
    BY <1>1 DEF IInv, CommitInv, ShapeInv, BeforeCommit, AfterCommit, Terminal
  <2>2. CASE SamePrimary
    BY <1>1, <2>1, <2>2 DEF IInv, AttemptInv, RuntimeInv, TypeOK
  <2>3. CASE ~SamePrimary
    <3>1. co = NoCo /\ run = BlankRun /\ rep[Primary].active = NoAction
      BY <1>1, <2>3 DEF IInv, AloneInv
    <3>2. run.tracker = "Previous" /\ co.step = "none" /\ co.asked = FALSE
      BY <3>1 DEF NoCo, BlankRun
    <3> QED
      BY <2>1, <3>1, <3>2 DEF TypeOK
  <2> QED
    BY <2>2, <2>3
<1>2. ASSUME IInv PROVE ReportFits
  <2>1. CASE SamePrimary
    BY <1>2, <2>1 DEF IInv, ReportInv, ReportFits, Fits
  <2>2. CASE ~SamePrimary
    <3>1. co.step = "none" /\ co.attempt = 0
      BY <1>2, <2>2 DEF IInv, AloneInv, NoCo
    <3> QED
      BY <3>1 DEF ReportFits
  <2> QED
    BY <2>1, <2>2
<1>3. IInv => PublishedIsClean
  BY DEF IInv, CommitInv, CleanInv, PublishedIsClean
<1>4. IInv => Consistent
  BY <1>1, <1>2, <1>3 DEF Consistent
<1> QED
  BY <1>4, IInvHolds, PTL
=============================================================================
