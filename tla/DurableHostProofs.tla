------------------------- MODULE DurableHostProofs -------------------------
(***************************************************************************)
(* The promises of the durable execution kernel, for every set of hosts,   *)
(* builds, limits and workflows and any number of faults.  The argument:   *)
(* a checkpoint that is proposed differs from the one it was computed from *)
(* by at most one recorded result, one activity begun and one exposure, in *)
(* this order, or by the end of the execution (`Successor`); the           *)
(* compare-and-swap applies it to that checkpoint or to none.              *)
(***************************************************************************)
EXTENDS DurableHost, FiniteSetTheorems, SequenceTheorems, WellFoundedInduction, TLAPS

Attempts == [host : Hosts, epoch : Nat, build : Builds]

Permits == [seq : Nat, spec : Specs, attempt : Attempts]

Records == [spec : Specs, status : {"scheduled", "exposed", "completed"},
            attempt : Attempts \cup {None}, result : Results \cup {None}]

Actives == [kind : {"active"}, admitted : Nat, history : Seq(Records)]

Terminals == [kind : {"terminal"}, admitted : Nat, outcome : Outcomes, count : Nat]

Checkpoints == {Absent} \cup Actives \cup Terminals

Requests == [expected : Nat, checkpoint : Checkpoints, grant : Permits \cup {None}]

HistoryOf(c) == IF c.kind = "active" THEN c.history ELSE << >>

\* Every record but the last is completed, and completed records have results.
WellFormed(s) ==
    /\ s \in Seq(Records)
    /\ \A i \in 1 .. Len(s) : IF s[i].status = "completed" THEN s[i].result \in Results
                                                           ELSE i = Len(s)

Settled(s) == \A i \in 1 .. Len(s) : s[i].status = "completed"

\* The results of s are the ones the effects had.
Faithful(s, f) ==
    \A i \in 1 .. Len(s) : s[i].status = "completed" =>
        /\ [seq |-> i, spec |-> s[i].spec] \in Activities
        /\ s[i].result = f[[seq |-> i, spec |-> s[i].spec]]

\* What the writes of the kernel do to a history s, giving t.
RecordsResult(s, t, f) ==
    /\ s # << >>
    /\ s[Len(s)].status = "exposed"
    /\ LET a == [seq |-> Len(s), spec |-> s[Len(s)].spec]
       IN  /\ a \in Activities /\ f[a] \in Results
           /\ t = [s EXCEPT ![Len(s)] = Record(a.spec, "completed", None, f[a])]

Schedules(s, t) ==
    /\ Settled(s)
    /\ \E spec \in Specs : t = Append(s, Record(spec, "scheduled", None, None))

Exposes(s, t, g) ==
    /\ s # << >>
    /\ s[Len(s)].status = "scheduled"
    /\ \E a \in Attempts :
          /\ t = [s EXCEPT ![Len(s)] = Record(s[Len(s)].spec, "exposed", a, None)]
          /\ g = [seq |-> Len(s), spec |-> s[Len(s)].spec, attempt |-> a]

Progresses(s, d, g) ==
    \/ /\ d.kind = "active"
       /\ \/ Schedules(s, d.history) /\ g = None
          \/ Exposes(s, d.history, g)
          \/ \E t \in Seq(Records) : Schedules(s, t) /\ Exposes(t, d.history, g)
    \/ d.kind = "terminal" /\ Settled(s) /\ d.count = Len(s) /\ g = None

\* d and the permit g are what a host that loaded c may propose.
Successor(c, d, g, f) ==
    /\ c.kind # "terminal"
    /\ d \in Checkpoints
    /\ \/ Progresses(HistoryOf(c), d, g)
       \/ \E t \in Seq(Records) :
             /\ RecordsResult(HistoryOf(c), t, f)
             /\ \/ d.kind = "active" /\ d.history = t /\ g = None
                \/ Progresses(t, d, g)

\* A request is stale, or proposes a successor of what is stored.
Fits(r) ==
    /\ r \in Requests
    /\ r.expected <= store.rev
    /\ r.expected = store.rev => Successor(store.checkpoint, r.checkpoint, r.grant, fate)

TypeInv ==
    /\ store \in [rev : Nat, checkpoint : Checkpoints]
    /\ host \in [Hosts -> [build : Builds, epoch : Nat, permit : Permits \cup {None}]]
    /\ request \in [Hosts -> Requests \cup {None}]
    /\ fate \in [Activities -> Results \cup {None}]
    /\ grants \in [Places -> Seq(Permits)]
    /\ faults \in [crashes : 0 .. MaxCrashes, losses : 0 .. MaxLosses]
    /\ \A h \in Hosts : host[h].epoch <= faults.crashes

HistoryInv ==
    /\ WellFormed(HistoryOf(store.checkpoint))
    /\ Faithful(HistoryOf(store.checkpoint), fate)

RequestInv ==
    /\ \A h \in Hosts : request[h] # None => Fits(request[h])
    /\ \A r \in late : Fits(r)

\* What was permitted is exposed or completed in checkpoint c.
Backs(c, i, g) ==
    /\ c.kind # "absent"
    /\ c.kind = "active" =>
          /\ i \in 1 .. Len(c.history)
          /\ c.history[i].spec = g.spec
          /\ \/ c.history[i].status = "completed"
             \/ c.history[i].status = "exposed" /\ c.history[i].attempt = g.attempt

PermitInv ==
    \A i \in Places :
        grants[i] # << >> => Len(grants[i]) = 1 /\ Backs(store.checkpoint, i, grants[i][1])

IInv == TypeInv /\ HistoryInv /\ RequestInv /\ PermitInv

----------------------------------------------------------------------------
(* Histories.                                                              *)

\* t has what is durable in s: every specification, every result, and every
\* exposure that has no result yet.
Extends(s, t) ==
    /\ Len(s) <= Len(t)
    /\ \A i \in 1 .. Len(s) :
          /\ t[i].spec = s[i].spec
          /\ s[i].status = "completed" => t[i] = s[i]
          /\ s[i].status = "exposed" => t[i] = s[i] \/ t[i].status = "completed"

\* Extending a history twice extends it.
LEMMA ExtendsTransitive ==
    ASSUME NEW s \in Seq(Records), NEW t \in Seq(Records), NEW u \in Seq(Records),
           Extends(s, t), Extends(t, u)
    PROVE  Extends(s, u)
<1>1. Len(s) \in Nat /\ Len(t) \in Nat /\ Len(u) \in Nat
  BY LenProperties
<1>2. Len(s) <= Len(u)
  BY <1>1 DEF Extends
<1>3. ASSUME NEW i \in 1 .. Len(s)
      PROVE  /\ u[i].spec = s[i].spec
             /\ s[i].status = "completed" => u[i] = s[i]
             /\ s[i].status = "exposed" => u[i] = s[i] \/ u[i].status = "completed"
  <2>1. i \in 1 .. Len(t)
    BY <1>1 DEF Extends
  <2> QED
    BY <2>1 DEF Extends
<1> QED
  BY <1>2, <1>3 DEF Extends

\* A record the kernel writes is typed.
LEMMA RecordType ==
    ASSUME NEW spec \in Specs, NEW a \in Attempts, NEW r \in Results
    PROVE  /\ Record(spec, "scheduled", None, None) \in Records
           /\ Record(spec, "exposed", a, None) \in Records
           /\ Record(spec, "completed", None, r) \in Records
  BY DEF Record, Records

\* Replacing the last record (replace_final_record) leaves the others.
LEMMA ReplaceLast ==
    ASSUME NEW s \in Seq(Records), s # << >>, NEW r \in Records
    PROVE  LET t == [s EXCEPT ![Len(s)] = r]
           IN  /\ t \in Seq(Records) /\ Len(t) = Len(s)
               /\ Len(s) \in Nat /\ Len(s) > 0 /\ s[Len(s)] \in Records
               /\ t[Len(s)] = r
               /\ \A i \in 1 .. Len(s) : i # Len(s) => t[i] = s[i]
<1>1. Len(s) \in Nat /\ Len(s) > 0
  BY EmptySeq, LenProperties
<1>2. Len(s) \in 1 .. Len(s)
  BY <1>1
<1>3. s[Len(s)] \in Records
  BY <1>2, ElementOfSeq
<1> QED
  BY <1>1, <1>2, <1>3, ExceptSeq

\* A recorded result completes the history and changes nothing else.
LEMMA RecordsResultKeeps ==
    ASSUME NEW s, NEW t, NEW f \in [Activities -> Results \cup {None}],
           WellFormed(s), Faithful(s, f), RecordsResult(s, t, f)
    PROVE  /\ WellFormed(t) /\ Faithful(t, f) /\ Extends(s, t) /\ Settled(t)
           /\ Len(t) = Len(s) /\ Len(s) \in Nat /\ Len(s) > 0
<1> DEFINE n == Len(s)
           a == [seq |-> n, spec |-> s[n].spec]
           r == Record(a.spec, "completed", None, f[a])
<1>1. s \in Seq(Records) /\ s # << >> /\ s[n].status = "exposed"
  BY DEF WellFormed, RecordsResult
<1>2. n \in Nat /\ n > 0 /\ n \in 1 .. n /\ s[n] \in Records
  BY <1>1, EmptySeq, LenProperties, ElementOfSeq
<1>3. a \in Activities /\ f[a] \in Results /\ t = [s EXCEPT ![n] = r]
  BY DEF RecordsResult
<1>4. r \in Records /\ r.status = "completed" /\ r.spec = s[n].spec /\ r.result = f[a]
  BY <1>2, <1>3 DEF Record, Records
<1>5. /\ t \in Seq(Records) /\ Len(t) = n /\ t[n] = r
      /\ \A i \in 1 .. n : i # n => t[i] = s[i]
  <2> HIDE DEF r
  <2> QED
    BY <1>1, <1>3, <1>4, ReplaceLast
<1> HIDE DEF r
<1>6. \A i \in 1 .. n : i # n => s[i].status = "completed" /\ s[i].result \in Results
  BY DEF WellFormed
<1>7. WellFormed(t) /\ Settled(t)
  BY <1>2, <1>3, <1>4, <1>5, <1>6 DEF WellFormed, Settled
<1>8. Faithful(t, f)
  <2>1. ASSUME NEW i \in 1 .. n, t[i].status = "completed"
        PROVE  /\ [seq |-> i, spec |-> t[i].spec] \in Activities
               /\ t[i].result = f[[seq |-> i, spec |-> t[i].spec]]
    <3>1. CASE i = n
      BY <1>3, <1>4, <1>5, <3>1
    <3>2. CASE i # n
      BY <1>5, <2>1, <3>2 DEF Faithful
    <3> QED
      BY <3>1, <3>2
  <2> QED
    BY <1>5, <2>1 DEF Faithful
<1>9. Extends(s, t)
  BY <1>1, <1>2, <1>4, <1>5 DEF Extends
<1> QED
  BY <1>2, <1>5, <1>7, <1>8, <1>9

\* A new activity is begun behind results only.
LEMMA SchedulesKeeps ==
    ASSUME NEW s, NEW t, NEW f, WellFormed(s), Faithful(s, f), Schedules(s, t)
    PROVE  /\ WellFormed(t) /\ Faithful(t, f) /\ Extends(s, t) /\ Settled(s)
           /\ t # << >> /\ Len(t) = Len(s) + 1 /\ Len(s) \in Nat
           /\ t[Len(t)].status = "scheduled"
<1> DEFINE n == Len(s)
<1>1. s \in Seq(Records) /\ n \in Nat
  BY LenProperties DEF WellFormed
<1>2. PICK spec \in Specs : t = Append(s, Record(spec, "scheduled", None, None))
  BY DEF Schedules
<1> DEFINE r == Record(spec, "scheduled", None, None)
<1>3. r \in Records /\ r.status = "scheduled"
  BY DEF Record, Records
<1>4. /\ t \in Seq(Records) /\ t # << >> /\ Len(t) = n + 1 /\ t[n + 1] = r
      /\ \A i \in 1 .. n : t[i] = s[i]
  <2> HIDE DEF r
  <2> QED
    BY <1>1, <1>2, <1>3, AppendProperties DEF r
<1> HIDE DEF r
<1>5. Settled(s) /\ \A i \in 1 .. n : s[i].status = "completed" /\ s[i].result \in Results
  BY DEF WellFormed, Schedules, Settled
<1>6. WellFormed(t)
  BY <1>1, <1>3, <1>4, <1>5 DEF WellFormed
<1>7. Faithful(t, f)
  <2>1. ASSUME NEW i \in 1 .. n + 1, t[i].status = "completed"
        PROVE  /\ [seq |-> i, spec |-> t[i].spec] \in Activities
               /\ t[i].result = f[[seq |-> i, spec |-> t[i].spec]]
    <3>1. i \in 1 .. n
      BY <1>1, <1>3, <1>4, <2>1
    <3> QED
      BY <1>4, <2>1, <3>1 DEF Faithful
  <2> QED
    BY <1>4, <2>1 DEF Faithful
<1>8. Extends(s, t)
  BY <1>1, <1>4 DEF Extends
<1> QED
  BY <1>1, <1>3, <1>4, <1>5, <1>6, <1>7, <1>8

\* An exposure replaces the scheduled record and its permit names it.
LEMMA ExposesKeeps ==
    ASSUME NEW s, NEW t, NEW g, NEW f, WellFormed(s), Faithful(s, f), Exposes(s, t, g)
    PROVE  /\ WellFormed(t) /\ Faithful(t, f) /\ Extends(s, t)
           /\ Len(t) = Len(s) /\ Len(s) \in Nat /\ Len(s) > 0
           /\ s[Len(s)].status = "scheduled"
           /\ g \in Permits /\ g.seq = Len(t)
           /\ t[Len(t)].status = "exposed"
           /\ t[Len(t)].spec = g.spec /\ t[Len(t)].attempt = g.attempt
<1> DEFINE n == Len(s)
<1>1. s \in Seq(Records) /\ s # << >> /\ s[n].status = "scheduled"
  BY DEF WellFormed, Exposes
<1>2. n \in Nat /\ n > 0 /\ n \in 1 .. n /\ s[n] \in Records
  BY <1>1, EmptySeq, LenProperties, ElementOfSeq
<1>3. PICK a \in Attempts :
          /\ t = [s EXCEPT ![n] = Record(s[n].spec, "exposed", a, None)]
          /\ g = [seq |-> n, spec |-> s[n].spec, attempt |-> a]
  BY DEF Exposes
<1> DEFINE r == Record(s[n].spec, "exposed", a, None)
<1>4. r \in Records /\ r.status = "exposed" /\ r.spec = s[n].spec /\ r.attempt = a
  BY <1>2 DEF Record, Records
<1>5. /\ t \in Seq(Records) /\ Len(t) = n /\ t[n] = r
      /\ \A i \in 1 .. n : i # n => t[i] = s[i]
  <2>1. t = [s EXCEPT ![n] = r]
    BY <1>3
  <2> HIDE DEF r
  <2> QED
    BY <1>1, <1>4, <2>1, ReplaceLast
<1> HIDE DEF r
<1>6. \A i \in 1 .. n : i # n => s[i].status = "completed" /\ s[i].result \in Results
  BY DEF WellFormed
<1>7. WellFormed(t)
  BY <1>2, <1>4, <1>5, <1>6 DEF WellFormed
<1>8. Faithful(t, f)
  <2>1. ASSUME NEW i \in 1 .. n, t[i].status = "completed"
        PROVE  /\ [seq |-> i, spec |-> t[i].spec] \in Activities
               /\ t[i].result = f[[seq |-> i, spec |-> t[i].spec]]
    <3>1. i # n
      BY <1>4, <1>5, <2>1
    <3> QED
      BY <1>5, <2>1, <3>1 DEF Faithful
  <2> QED
    BY <1>5, <2>1 DEF Faithful
<1>9. Extends(s, t)
  BY <1>1, <1>2, <1>4, <1>5 DEF Extends
<1>10. g \in Permits /\ g.seq = n /\ g.spec = s[n].spec /\ g.attempt = a
  BY <1>2, <1>3 DEF Permits, Records
<1> QED
  BY <1>1, <1>2, <1>4, <1>5, <1>7, <1>8, <1>9, <1>10

----------------------------------------------------------------------------
(* Replay: what evaluate and the plans built on it propose.                *)

\* The cursor stops at the first place it can.
LEMMA CursorIsFirst ==
    ASSUME NEW b, NEW s \in Seq(Records)
    PROVE  /\ Cursor(b, s) \in 0 .. Len(s)
           /\ StopsAt(b, s, Cursor(b, s))
           /\ \A i \in 0 .. Len(s) : i < Cursor(b, s) => ~StopsAt(b, s, i)
<1> DEFINE T == {i \in 0 .. Len(s) : StopsAt(b, s, i)}
<1>1. Len(s) \in Nat
  BY LenProperties
<1>2. Len(s) \in T
  BY <1>1 DEF StopsAt
<1>3. T \subseteq Nat
  BY <1>1
<1>4. PICK x \in T : \A y \in T : ~ (<<y, x>> \in OpToRel(<, Nat))
  <2> HIDE DEF T
  <2> QED
    BY <1>2, <1>3, NatLessThanWellFounded, WFMin
<1>5. \A y \in T : x =< y
  <2>1. \A y \in T : ~(y < x)
    BY <1>3, <1>4 DEF OpToRel
  <2> HIDE DEF T
  <2> QED
    BY <1>3, <2>1
<1>6. Min(T) \in T /\ \A y \in T : Min(T) =< y
  <2> HIDE DEF T
  <2> QED
    BY <1>5 DEF Min
<1>7. Cursor(b, s) = Min(T)
  BY DEF Cursor
<1>8. ASSUME NEW i \in 0 .. Len(s), i < Cursor(b, s)
      PROVE  ~StopsAt(b, s, i)
  <2>1. Cursor(b, s) \in Nat /\ i \in Nat
    BY <1>1, <1>3, <1>6, <1>7
  <2>2. i \notin T
    BY <1>6, <1>7, <1>8, <2>1
  <2> QED
    BY <2>2
<1> QED
  BY <1>6, <1>7, <1>8

\* What is before the cursor is completed.
LEMMA BeforeCursor ==
    ASSUME NEW b, NEW s \in Seq(Records)
    PROVE  \A i \in 1 .. Cursor(b, s) : s[i].status = "completed"
<1>1. Len(s) \in Nat /\ Cursor(b, s) \in 0 .. Len(s)
  BY LenProperties, CursorIsFirst
<1>2. ASSUME NEW i \in 1 .. Cursor(b, s)
      PROVE  s[i].status = "completed"
  <2>1. i - 1 \in 0 .. Len(s) /\ i - 1 < Cursor(b, s) /\ (i - 1) + 1 = i
    BY <1>1
  <2>2. ~StopsAt(b, s, i - 1)
    BY <2>1, CursorIsFirst
  <2> QED
    BY <2>1, <2>2 DEF StopsAt
<1> QED
  BY <1>2

\* The checkpoint an evaluation starts from.
Loaded(b, c) == IF c = Absent THEN Active(Limits[b].bytes, << >>) ELSE c

LEMMA LoadedIsActive ==
    ASSUME NEW b \in Builds, NEW c \in Checkpoints, c.kind # "terminal"
    PROVE  /\ Loaded(b, c) \in Actives
           /\ Loaded(b, c).history = HistoryOf(c)
<1>1. CASE c = Absent
  <2>1. c.kind = "absent"
    BY <1>1 DEF Absent
  <2>2. Limits[b].bytes \in Nat
    BY SizesAreNatural
  <2>3. << >> \in Seq(Records)
    BY EmptySeq
  <2>4. Loaded(b, c) = [kind |-> "active", admitted |-> Limits[b].bytes, history |-> << >>]
    BY <1>1 DEF Loaded, Active
  <2> QED
    BY <2>1, <2>2, <2>3, <2>4 DEF Actives, HistoryOf
<1>2. CASE c # Absent
  <2>1. c \in Actives
    BY <1>2 DEF Checkpoints, Terminals
  <2> QED
    BY <1>2, <2>1 DEF Loaded, Actives, HistoryOf
<1> QED
  BY <1>1, <1>2

\* A valid checkpoint has a history that the workflow may be asked about.
LEMMA AskedIsKnown ==
    ASSUME NEW b \in Builds, NEW c \in Actives, WellFormed(c.history), Valid(c, b)
    PROVE  Asks(b, c.history, Cursor(b, c.history)) \in Specs \cup Outcomes \cup {Stall}
<1> DEFINE s == c.history
           n == Cursor(b, s)
<1>1. s \in Seq(Records) /\ c.kind = "active"
  BY DEF Actives
<1>2. Len(s) \in Nat /\ n \in 0 .. Len(s)
  BY <1>1, LenProperties, CursorIsFirst
<1>3. Len(s) <= Limits[b].records /\ Limits[b].records \in Nat
  BY <1>1, SizesAreNatural DEF Valid
<1>4. \A i \in 1 .. n : s[i].result \in Results
  BY <1>1, <1>2, BeforeCursor DEF WellFormed
<1>5. [j \in 1 .. n |-> s[j].result] \in [1 .. n -> Results]
  BY <1>4
<1>6. n \in 0 .. Limits[b].records
  BY <1>2, <1>3
<1> HIDE DEF n, s
<1>7. Workflow(b, [j \in 1 .. n |-> s[j].result]) \in Specs \cup Outcomes \cup {Stall}
  BY <1>5, <1>6, WorkflowAsks
<1> QED
  BY <1>7 DEF Asks, n, s

\* evaluate schedules behind a settled history, finds the last record
\* unfinished, or ends a settled history.
LEMMA EvaluateProposes ==
    ASSUME NEW b \in Builds, NEW c \in Checkpoints, c.kind # "terminal",
           WellFormed(HistoryOf(c))
    PROVE  LET e == Evaluate(b, c)
               s == HistoryOf(c)
           IN  /\ e.kind = "scheduled" =>
                     e.checkpoint \in Actives /\ Schedules(s, e.checkpoint.history)
               /\ e.kind = "pending" =>
                     /\ e.checkpoint \in Actives /\ e.checkpoint.history = s
                     /\ s # << >> /\ s[Len(s)].status # "completed"
               /\ e.kind = "complete" =>
                     /\ e.checkpoint \in Terminals /\ Settled(s)
                     /\ e.checkpoint.count = Len(s)
<1> DEFINE e == Evaluate(b, c)
           s == HistoryOf(c)
           d == Loaded(b, c)
           n == Cursor(b, s)
           asked == Asks(b, s, n)
           r == Record(asked, "scheduled", None, None)
           t == [d EXCEPT !.history = Append(@, r)]
<1>1. d \in Actives /\ d.history = s
  BY LoadedIsActive
<1>2. s \in Seq(Records) /\ Len(s) \in Nat /\ n \in 0 .. Len(s)
  BY <1>1, LenProperties, CursorIsFirst DEF Actives
<1>3. \A i \in 1 .. n : s[i].status = "completed"
  BY <1>2, BeforeCursor
<1>4. Valid(d, b) => asked \in Specs \cup Outcomes \cup {Stall}
  BY <1>1, AskedIsKnown
<1>5. e = CASE ~Valid(d, b) -> Evaluation("rejected", d)
            [] Valid(d, b) /\ asked = Stall -> Evaluation("nondeterminism", d)
            [] Valid(d, b) /\ asked \in Specs /\ n = Len(s) ->
                  IF Valid(t, b) THEN Evaluation("scheduled", t) ELSE Evaluation("rejected", d)
            [] Valid(d, b) /\ asked \in Specs /\ ~(n = Len(s)) ->
                  IF s[n + 1].spec = asked
                  THEN Evaluation("pending", d) ELSE Evaluation("nondeterminism", d)
            [] Valid(d, b) /\ asked \in Outcomes ->
                  IF n = Len(s)
                  THEN Evaluation("complete", Terminal(d.admitted, asked, n))
                  ELSE Evaluation("nondeterminism", d)
  <2>1. d.history = s
    BY <1>1
  <2> QED
    BY <2>1 DEF Evaluate, Loaded
<1> HIDE DEF e, s, d, n, asked, t
<1>6. e.kind = "scheduled" =>
          Valid(d, b) /\ asked \in Specs /\ n = Len(s) /\ e.checkpoint = t
  BY <1>4, <1>5, ConstantsAreDistinct DEF Evaluation
<1>7. e.kind = "pending" =>
          Valid(d, b) /\ asked \in Specs /\ n # Len(s) /\ s[n + 1].spec = asked /\ e.checkpoint = d
  BY <1>4, <1>5, ConstantsAreDistinct DEF Evaluation
<1>8. e.kind = "complete" =>
          /\ Valid(d, b) /\ asked \in Outcomes /\ n = Len(s)
          /\ e.checkpoint = Terminal(d.admitted, asked, n)
  BY <1>4, <1>5, ConstantsAreDistinct DEF Evaluation
<1>9. n = Len(s) => Settled(s)
  BY <1>3 DEF Settled
<1>10. ASSUME e.kind = "scheduled"
       PROVE  e.checkpoint \in Actives /\ Schedules(s, e.checkpoint.history)
  <2>1. asked \in Specs /\ r \in Records
    BY <1>6, <1>10 DEF Record, Records
  <2>2. Append(s, r) \in Seq(Records)
    BY <1>2, <2>1, AppendProperties
  <2>3. t \in Actives /\ t.history = Append(s, r)
    BY <1>1, <2>2 DEF t, Actives
  <2> QED
    BY <1>6, <1>9, <1>10, <2>1, <2>3 DEF Schedules
<1>11. ASSUME e.kind = "pending"
       PROVE  /\ e.checkpoint \in Actives /\ e.checkpoint.history = s
              /\ s # << >> /\ s[Len(s)].status # "completed"
  <2>1. n < Len(s) /\ StopsAt(b, s, n)
    BY <1>2, <1>7, <1>11, CursorIsFirst DEF n
  <2>2. s[n + 1].status # "completed"
    BY <1>7, <1>11, <2>1 DEF StopsAt, asked
  <2>3. n + 1 = Len(s)
    BY <1>2, <2>1, <2>2 DEF WellFormed, s
  <2> QED
    BY <1>1, <1>2, <1>7, <1>11, <2>1, <2>2, <2>3, EmptySeq
<1>12. ASSUME e.kind = "complete"
       PROVE  e.checkpoint \in Terminals /\ Settled(s) /\ e.checkpoint.count = Len(s)
  BY <1>1, <1>2, <1>8, <1>9, <1>12 DEF Terminal, Terminals, Actives
<1> QED
  BY <1>10, <1>11, <1>12 DEF e, s

\* replace_final_record on a checkpoint.
LEMMA WithFinalHistory ==
    ASSUME NEW c \in Actives, c.history # << >>, NEW r \in Records
    PROVE  /\ WithFinal(c, r) \in Actives
           /\ WithFinal(c, r).history = [c.history EXCEPT ![Len(c.history)] = r]
<1>1. c.history \in Seq(Records)
  BY DEF Actives
<1>2. [c.history EXCEPT ![Len(c.history)] = r] \in Seq(Records)
  BY <1>1, ReplaceLast
<1> QED
  BY <1>2 DEF WithFinal, Actives

\* The attempt of a host is typed.
LEMMA AttemptType ==
    ASSUME TypeInv, NEW h \in Hosts
    PROVE  host[h].build \in Builds /\ NextAttempt(h) \in Attempts
  BY DEF TypeInv, NextAttempt, Attempts

\* prepare_exposure proposes an exposure with the permit that names it.
LEMMA ExposeProposes ==
    ASSUME TypeInv, NEW h \in Hosts, NEW c \in Actives, c.history # << >>,
           LastRecord(c).status = "scheduled", Expose(h, c).swap
    PROVE  LET plan == Expose(h, c)
           IN  /\ plan.checkpoint \in Actives /\ plan.grant \in Permits
               /\ Exposes(c.history, plan.checkpoint.history, plan.grant)
<1> DEFINE s == c.history
           last == LastRecord(c)
           a == NextAttempt(h)
           r == Record(last.spec, "exposed", a, None)
           g == [seq |-> Len(s), spec |-> last.spec, attempt |-> a]
<1>1. s \in Seq(Records) /\ last = s[Len(s)] /\ Len(s) \in Nat /\ last \in Records
  BY ReplaceLast DEF Actives, LastRecord
<1>2. a \in Attempts
  BY AttemptType
<1>3. r \in Records /\ g \in Permits
  BY <1>1, <1>2 DEF Records, Record, Permits
<1>4. Expose(h, c) = Swap(WithFinal(c, r), g)
  BY DEF Expose, NoSwap
<1>5. Expose(h, c).checkpoint = WithFinal(c, r) /\ Expose(h, c).grant = g
  BY <1>4 DEF Swap
<1>6. WithFinal(c, r) \in Actives /\ WithFinal(c, r).history = [s EXCEPT ![Len(s)] = r]
  <2> HIDE DEF r
  <2> QED
    BY <1>3, WithFinalHistory
<1> QED
  BY <1>1, <1>2, <1>3, <1>5, <1>6 DEF Exposes

\* turn and the tail of observe_and_turn propose progress of the history.
LEMMA ProgressProposes ==
    ASSUME TypeInv, NEW h \in Hosts, NEW c \in Checkpoints, c.kind # "terminal",
           NEW f, WellFormed(HistoryOf(c)), Faithful(HistoryOf(c), f), ~IsExposed(c),
           NEW fused \in BOOLEAN, Progress(h, c, fused).swap
    PROVE  LET plan == Progress(h, c, fused)
           IN  /\ plan.checkpoint \in Checkpoints /\ plan.grant \in Permits \cup {None}
               /\ Progresses(HistoryOf(c), plan.checkpoint, plan.grant)
<1> DEFINE plan == Progress(h, c, fused)
           b == host[h].build
           e == Evaluate(b, c)
           s == HistoryOf(c)
           d == e.checkpoint
<1>1. b \in Builds
  BY AttemptType
<1>2. /\ e.kind = "scheduled" => d \in Actives /\ Schedules(s, d.history)
      /\ e.kind = "pending" =>
            d \in Actives /\ d.history = s /\ s # << >> /\ s[Len(s)].status # "completed"
      /\ e.kind = "complete" => d \in Terminals /\ Settled(s) /\ d.count = Len(s)
  BY <1>1, EvaluateProposes
<1>3. plan = CASE e.kind = "scheduled" -> IF fused THEN Expose(h, d) ELSE Swap(d, None)
               [] e.kind = "pending"  -> Expose(h, d)
               [] e.kind = "complete" -> Complete(h, d)
               [] OTHER               -> NoSwap
  BY DEF Progress
<1> HIDE DEF plan, e, s
<1>4. CASE e.kind = "scheduled" /\ ~fused
  <2>1. plan = Swap(d, None)
    BY <1>3, <1>4
  <2>2. plan.checkpoint = d /\ plan.grant = None
    BY <2>1 DEF Swap
  <2>3. d \in Actives /\ d.kind = "active" /\ Schedules(s, d.history)
    BY <1>2, <1>4 DEF Actives
  <2> QED
    BY <2>2, <2>3 DEF Checkpoints, Progresses, plan, s
<1>5. CASE e.kind = "scheduled" /\ fused
  <2>1. plan = Expose(h, d)
    BY <1>3, <1>5
  <2>2. d \in Actives /\ Schedules(s, d.history) /\ d.history \in Seq(Records)
    BY <1>2, <1>5 DEF Actives
  <2>3. d.history # << >> /\ d.history[Len(d.history)].status = "scheduled"
    BY <2>2, SchedulesKeeps DEF s
  <2>4. LastRecord(d).status = "scheduled"
    BY <2>3 DEF LastRecord
  <2>5. /\ plan.checkpoint \in Actives /\ plan.grant \in Permits
        /\ Exposes(d.history, plan.checkpoint.history, plan.grant)
    <3>1. Expose(h, d).swap
      BY <2>1 DEF plan
    <3> QED
      BY <2>1, <2>2, <2>3, <2>4, <3>1, ExposeProposes
  <2>6. plan.checkpoint.kind = "active"
    BY <2>5 DEF Actives
  <2>7. Progresses(s, plan.checkpoint, plan.grant)
    BY <2>2, <2>5, <2>6 DEF Progresses
  <2> QED
    BY <2>5, <2>7 DEF Checkpoints, plan, s
<1>6. CASE e.kind = "pending"
  <2>1. plan = Expose(h, d)
    BY <1>3, <1>6
  <2>2. /\ d \in Actives /\ d.history = s /\ s # << >> /\ s[Len(s)].status # "completed"
    BY <1>2, <1>6
  <2>3. s \in Seq(Records) /\ s[Len(s)] \in Records
    BY <2>2, ReplaceLast DEF Actives
  <2>4. s[Len(s)].status # "exposed"
    <3>1. c.kind = "active" /\ c.history = s
      BY <2>2 DEF s, HistoryOf
    <3> QED
      BY <2>2, <3>1 DEF IsExposed, LastRecord
  <2>5. LastRecord(d).status = "scheduled"
    BY <2>2, <2>3, <2>4 DEF Records, LastRecord
  <2>6. /\ plan.checkpoint \in Actives /\ plan.grant \in Permits
        /\ Exposes(s, plan.checkpoint.history, plan.grant)
    <3>1. Expose(h, d).swap
      BY <2>1 DEF plan
    <3> QED
      BY <2>1, <2>2, <2>5, <3>1, ExposeProposes
  <2>7. plan.checkpoint.kind = "active"
    BY <2>6 DEF Actives
  <2>8. Progresses(s, plan.checkpoint, plan.grant)
    BY <2>6, <2>7 DEF Progresses
  <2> QED
    BY <2>6, <2>8 DEF Checkpoints, plan, s
<1>7. CASE e.kind = "complete"
  <2>1. plan = Complete(h, d) /\ plan.swap
    BY <1>3, <1>7 DEF plan
  <2>2. plan.checkpoint = d /\ plan.grant = None
    BY <2>1 DEF Complete, Swap, NoSwap
  <2>3. d \in Terminals /\ d.kind = "terminal" /\ Settled(s) /\ d.count = Len(s)
    BY <1>2, <1>7 DEF Terminals
  <2> QED
    BY <2>2, <2>3 DEF Checkpoints, Progresses, plan, s
<1>8. CASE e.kind \notin {"scheduled", "pending", "complete"}
  <2>1. plan = NoSwap /\ plan.swap
    BY <1>3, <1>8 DEF plan
  <2> QED
    BY <2>1 DEF NoSwap
<1> QED
  BY <1>4, <1>5, <1>6, <1>7, <1>8

\* What turn and turn_and_expose send is a successor of what they loaded.
LEMMA TurnProposes ==
    ASSUME TypeInv, HistoryInv, NEW h \in Hosts, NEW fused \in BOOLEAN,
           TurnPlan(h, fused).swap
    PROVE  LET plan == TurnPlan(h, fused)
           IN  /\ plan.grant \in Permits \cup {None}
               /\ Successor(store.checkpoint, plan.checkpoint, plan.grant, fate)
<1> DEFINE c == store.checkpoint
<1>1. c \in Checkpoints /\ WellFormed(HistoryOf(c)) /\ Faithful(HistoryOf(c), fate)
  BY DEF TypeInv, HistoryInv
<1>2. /\ c.kind # "terminal" /\ ~IsExposed(c)
      /\ TurnPlan(h, fused) = Progress(h, c, fused)
  BY DEF TurnPlan, NoSwap
<1>3. /\ TurnPlan(h, fused).checkpoint \in Checkpoints
      /\ TurnPlan(h, fused).grant \in Permits \cup {None}
      /\ Progresses(HistoryOf(c), TurnPlan(h, fused).checkpoint, TurnPlan(h, fused).grant)
  BY <1>1, <1>2, ProgressProposes
<1> QED
  BY <1>2, <1>3 DEF Successor

\* What observe and observe_and_turn send is a successor of what they loaded.
LEMMA ObserveProposes ==
    ASSUME TypeInv, HistoryInv, NEW h \in Hosts, NEW fused \in BOOLEAN,
           NEW a \in Activities, fate[a] # None,
           ObservePlan(h, a, fate[a], fused).swap
    PROVE  LET plan == ObservePlan(h, a, fate[a], fused)
           IN  /\ plan.grant \in Permits \cup {None}
               /\ Successor(store.checkpoint, plan.checkpoint, plan.grant, fate)
<1> DEFINE c == store.checkpoint
           s == HistoryOf(c)
           r == Record(a.spec, "completed", None, fate[a])
           d == WithFinal(c, r)
           plan == ObservePlan(h, a, fate[a], fused)
<1>1. c \in Checkpoints /\ WellFormed(s) /\ Faithful(s, fate)
  BY DEF TypeInv, HistoryInv
<1>2. fate \in [Activities -> Results \cup {None}] /\ fate[a] \in Results
  BY DEF TypeInv
<1>3. /\ IsExposed(c) /\ a = [seq |-> Len(c.history), spec |-> LastRecord(c).spec]
      /\ plan = IF fused THEN Progress(h, d, TRUE) ELSE Swap(d, None)
  BY DEF ObservePlan, NoSwap
<1>4. /\ c \in Actives /\ c.kind = "active" /\ s = c.history /\ s # << >>
      /\ s[Len(s)].status = "exposed" /\ a = [seq |-> Len(s), spec |-> s[Len(s)].spec]
  BY <1>1, <1>3 DEF IsExposed, LastRecord, HistoryOf, Checkpoints, Absent, Terminals
<1>5. s \in Seq(Records) /\ s[Len(s)] \in Records
  BY <1>4, ReplaceLast DEF Actives
<1>6. r \in Records
  BY <1>2, <1>4, <1>5 DEF Record, Records
<1>7. d \in Actives /\ d.kind = "active" /\ d.history = [s EXCEPT ![Len(s)] = r]
  <2> HIDE DEF r
  <2> QED
    BY <1>4, <1>6, WithFinalHistory DEF Actives
<1>8. RecordsResult(s, d.history, fate)
  <2> HIDE DEF d
  <2> QED
    BY <1>2, <1>4, <1>7 DEF RecordsResult
<1> HIDE DEF d, s, plan
<1>9. WellFormed(d.history) /\ Faithful(d.history, fate) /\ Settled(d.history)
  BY <1>1, <1>2, <1>8, RecordsResultKeeps
<1>10. d \in Checkpoints /\ HistoryOf(d) = d.history /\ d.history \in Seq(Records)
  BY <1>7, <1>9 DEF Checkpoints, HistoryOf, WellFormed
<1>11. ~IsExposed(d)
  <2>1. Len(d.history) \in Nat /\ (d.history # << >> => Len(d.history) > 0)
    BY <1>10, LenProperties, EmptySeq
  <2> QED
    BY <1>9, <2>1 DEF IsExposed, LastRecord, Settled
<1>12. /\ plan.grant \in Permits \cup {None} /\ plan.checkpoint \in Checkpoints
       /\ \/ plan.checkpoint.kind = "active" /\ plan.checkpoint.history = d.history /\ plan.grant = None
          \/ Progresses(d.history, plan.checkpoint, plan.grant)
  <2>1. CASE fused
    <3>1. plan = Progress(h, d, TRUE) /\ Progress(h, d, TRUE).swap
      BY <1>3, <2>1 DEF plan
    <3> QED
      BY <1>7, <1>9, <1>10, <1>11, <3>1, ProgressProposes, ZenonT(60)
  <2>2. CASE ~fused
    <3>1. plan = Swap(d, None)
      BY <1>3, <2>2
    <3> QED
      BY <1>7, <1>10, <3>1 DEF Swap
  <2> QED
    BY <2>1, <2>2
<1> QED
  BY <1>4, <1>8, <1>10, <1>12 DEF Successor, s, plan

----------------------------------------------------------------------------
(* Successors: what an accepted swap does.                                 *)

\* The exposed and the recorded activities of a history; the begun are all.
ExposedCount(s) ==
    IF s = << >> \/ s[Len(s)].status # "scheduled" THEN Len(s) ELSE Len(s) - 1

RecordedCount(s) ==
    IF s = << >> \/ s[Len(s)].status = "completed" THEN Len(s) ELSE Len(s) - 1

\* The write of the contract that turns s into t, with these parts.
WritesBy(s, t, g, r, b, e) ==
    /\ r => RecordedCount(s) < ExposedCount(s)
    /\ RecordedCount(t) = IF r THEN ExposedCount(s) ELSE RecordedCount(s)
    /\ b => RecordedCount(t) = Len(s)
    /\ Len(t) = IF b THEN Len(s) + 1 ELSE Len(s)
    /\ e => ExposedCount(s) < Len(t)
    /\ ExposedCount(t) = IF e THEN Len(t) ELSE ExposedCount(s)
    /\ g # None => e

WritesNoResult(s, t, g) == \E b, e \in BOOLEAN : WritesBy(s, t, g, FALSE, b, e)

Writes(s, t, g) == \E r, b, e \in BOOLEAN : WritesBy(s, t, g, r, b, e)

FinishesBy(s, r) ==
    /\ r => RecordedCount(s) < ExposedCount(s)
    /\ Len(s) = IF r THEN ExposedCount(s) ELSE RecordedCount(s)
    /\ ExposedCount(s) = Len(s)

FinishesNoResult(s) == FinishesBy(s, FALSE)

Finishes(s) == \E r \in BOOLEAN : FinishesBy(s, r)

\* A history of results only has no outstanding activity.
LEMMA SettledCounts ==
    ASSUME NEW s \in Seq(Records), Settled(s)
    PROVE  ExposedCount(s) = Len(s) /\ RecordedCount(s) = Len(s) /\ Len(s) \in Nat
<1>1. Len(s) \in Nat /\ (s # << >> => Len(s) > 0)
  BY LenProperties, EmptySeq
<1>2. s # << >> => s[Len(s)].status = "completed"
  BY <1>1 DEF Settled
<1> QED
  BY <1>1, <1>2 DEF ExposedCount, RecordedCount

\* A permit that names the last, exposed record of t, which s had not exposed.
Names(g, s, t) ==
    /\ g \in Permits /\ g.seq = Len(t) /\ Len(t) > 0
    /\ t[Len(t)].status = "exposed"
    /\ t[Len(t)].spec = g.spec /\ t[Len(t)].attempt = g.attempt
    /\ Len(t) <= Len(s) => s[Len(t)].status = "scheduled"

\* What a write keeps and what it permits.
Continues(s, t, g, f) ==
    /\ WellFormed(t) /\ Faithful(t, f) /\ Extends(s, t)
    /\ g # None => Names(g, s, t)

\* Progress without a result, and what the contract says of it.
LEMMA ProgressContinues ==
    ASSUME NEW s, NEW f, WellFormed(s), Faithful(s, f),
           NEW d, NEW g, Progresses(s, d, g)
    PROVE  /\ d.kind \in {"active", "terminal"}
           /\ d.kind = "active" =>
                 /\ Continues(s, d.history, g, f)
                 /\ WritesNoResult(s, d.history, g)
           /\ d.kind = "terminal" =>
                 d.count = Len(s) /\ g = None /\ FinishesNoResult(s) /\ Settled(s)
<1> DEFINE t == d.history
<1>1. s \in Seq(Records)
  BY DEF WellFormed
<1>2. CASE d.kind = "active" /\ Schedules(s, t) /\ g = None
  <2>1. /\ WellFormed(t) /\ Faithful(t, f) /\ Extends(s, t) /\ Settled(s)
        /\ t # << >> /\ Len(t) = Len(s) + 1 /\ Len(s) \in Nat /\ t[Len(t)].status = "scheduled"
    BY <1>2, SchedulesKeeps
  <2>2. ExposedCount(t) = Len(s) /\ RecordedCount(t) = Len(s)
    BY <2>1 DEF ExposedCount, RecordedCount
  <2>3. ExposedCount(s) = Len(s) /\ RecordedCount(s) = Len(s)
    BY <1>1, <2>1, SettledCounts
  <2>4. WritesBy(s, t, g, FALSE, TRUE, FALSE)
    BY <1>2, <2>1, <2>2, <2>3 DEF WritesBy
  <2>5. Continues(s, t, g, f)
    BY <1>2, <2>1 DEF Continues
  <2> QED
    BY <1>2, <2>4, <2>5 DEF WritesNoResult
<1>3. CASE d.kind = "active" /\ Exposes(s, t, g)
  <2>1. /\ WellFormed(t) /\ Faithful(t, f) /\ Extends(s, t)
        /\ Len(t) = Len(s) /\ Len(s) \in Nat /\ Len(s) > 0
        /\ s[Len(s)].status = "scheduled" /\ g \in Permits /\ g.seq = Len(t)
        /\ t[Len(t)].status = "exposed"
        /\ t[Len(t)].spec = g.spec /\ t[Len(t)].attempt = g.attempt
    BY <1>3, ExposesKeeps
  <2>2. s # << >> /\ t # << >>
    BY <2>1, EmptySeq
  <2>3. /\ ExposedCount(s) = Len(s) - 1 /\ RecordedCount(s) = Len(s) - 1
        /\ ExposedCount(t) = Len(s) /\ RecordedCount(t) = Len(s) - 1
    BY <2>1, <2>2 DEF ExposedCount, RecordedCount
  <2>4. WritesBy(s, t, g, FALSE, FALSE, TRUE)
    BY <2>1, <2>3 DEF WritesBy
  <2>5. Continues(s, t, g, f)
    BY <2>1 DEF Continues, Names
  <2> QED
    BY <1>3, <2>4, <2>5 DEF WritesNoResult
<1>4. CASE d.kind = "active" /\ \E u \in Seq(Records) : Schedules(s, u) /\ Exposes(u, t, g)
  <2>1. PICK u \in Seq(Records) : Schedules(s, u) /\ Exposes(u, t, g)
    BY <1>4
  <2>2. /\ WellFormed(u) /\ Faithful(u, f) /\ Extends(s, u) /\ Settled(s)
        /\ Len(u) = Len(s) + 1 /\ Len(s) \in Nat
    BY <2>1, SchedulesKeeps
  <2>3. /\ WellFormed(t) /\ Faithful(t, f) /\ Extends(u, t)
        /\ Len(t) = Len(u) /\ g \in Permits /\ g.seq = Len(t)
        /\ t[Len(t)].status = "exposed"
        /\ t[Len(t)].spec = g.spec /\ t[Len(t)].attempt = g.attempt
    BY <2>1, <2>2, ExposesKeeps
  <2>4. Extends(s, t)
    BY <1>1, <2>2, <2>3, ExtendsTransitive DEF WellFormed
  <2>5. t # << >>
    BY <2>2, <2>3, EmptySeq
  <2>6. ExposedCount(t) = Len(s) + 1 /\ RecordedCount(t) = Len(s)
    BY <2>2, <2>3, <2>5 DEF ExposedCount, RecordedCount
  <2>7. ExposedCount(s) = Len(s) /\ RecordedCount(s) = Len(s)
    BY <1>1, <2>2, SettledCounts
  <2>8. WritesBy(s, t, g, FALSE, TRUE, TRUE)
    BY <2>2, <2>3, <2>6, <2>7 DEF WritesBy
  <2>9. Continues(s, t, g, f)
    BY <2>2, <2>3, <2>4 DEF Continues, Names
  <2> QED
    BY <1>4, <2>8, <2>9 DEF WritesNoResult
<1>5. CASE d.kind = "terminal" /\ Settled(s) /\ d.count = Len(s) /\ g = None
  <2>1. ExposedCount(s) = Len(s) /\ RecordedCount(s) = Len(s)
    BY <1>1, <1>5, SettledCounts
  <2> QED
    BY <1>5, <2>1 DEF FinishesBy, FinishesNoResult
<1> QED
  BY <1>2, <1>3, <1>4, <1>5 DEF Progresses

\* An accepted swap continues the history or ends it, as the contract says.
LEMMA SuccessorContinues ==
    ASSUME NEW c, NEW f \in [Activities -> Results \cup {None}], NEW d, NEW g,
           WellFormed(HistoryOf(c)), Faithful(HistoryOf(c), f), Successor(c, d, g, f)
    PROVE  LET s == HistoryOf(c)
           IN  /\ d.kind \in {"active", "terminal"}
               /\ d.kind = "active" =>
                     /\ Continues(s, d.history, g, f)
                     /\ Writes(s, d.history, g)
               /\ d.kind = "terminal" =>
                     /\ d.count = Len(s) /\ g = None
                     /\ Finishes(s)
<1> DEFINE s == HistoryOf(c)
           t == d.history
<1>1. CASE Progresses(s, d, g)
  <2>1. /\ WritesNoResult(s, t, g) => Writes(s, t, g)
        /\ FinishesNoResult(s) => Finishes(s)
    BY DEF WritesNoResult, Writes, FinishesNoResult, Finishes
  <2> HIDE DEF s, t
  <2>2. /\ d.kind \in {"active", "terminal"}
        /\ d.kind = "active" => Continues(s, t, g, f) /\ WritesNoResult(s, t, g)
        /\ d.kind = "terminal" => d.count = Len(s) /\ g = None /\ FinishesNoResult(s)
    BY <1>1, ProgressContinues DEF s, t
  <2> QED
    BY <2>1, <2>2 DEF s, t
<1>2. CASE \E u \in Seq(Records) :
              /\ RecordsResult(s, u, f)
              /\ \/ d.kind = "active" /\ t = u /\ g = None
                 \/ Progresses(u, d, g)
  <2>1. PICK u \in Seq(Records) :
              /\ RecordsResult(s, u, f)
              /\ \/ d.kind = "active" /\ t = u /\ g = None
                 \/ Progresses(u, d, g)
    BY <1>2
  <2>2. /\ WellFormed(u) /\ Faithful(u, f) /\ Extends(s, u) /\ Settled(u)
        /\ Len(u) = Len(s) /\ Len(s) \in Nat /\ Len(s) > 0
    BY <2>1, RecordsResultKeeps
  <2>3. ExposedCount(u) = Len(s) /\ RecordedCount(u) = Len(s)
    BY <2>2, SettledCounts
  <2>4. ExposedCount(s) = Len(s) /\ RecordedCount(s) = Len(s) - 1
    BY <2>1, <2>2 DEF RecordsResult, ExposedCount, RecordedCount
  <2> HIDE DEF s, t
  <2>5. CASE d.kind = "active" /\ t = u /\ g = None
    <3>1. WritesBy(s, t, g, TRUE, FALSE, FALSE)
      BY <2>2, <2>3, <2>4, <2>5 DEF WritesBy
    <3>2. Continues(s, t, g, f)
      BY <2>2, <2>5 DEF Continues
    <3> QED
      BY <2>5, <3>1, <3>2 DEF Writes, s, t
  <2>6. CASE Progresses(u, d, g)
    <3>1. /\ d.kind \in {"active", "terminal"}
          /\ d.kind = "active" =>
                /\ Continues(u, t, g, f)
                /\ WritesNoResult(u, t, g)
          /\ d.kind = "terminal" => d.count = Len(u) /\ g = None
      BY <2>2, <2>6, ProgressContinues DEF t
    <3>2. ASSUME d.kind = "active"
          PROVE  Continues(s, t, g, f) /\ Writes(s, t, g)
      <4>1. Continues(u, t, g, f)
        BY <3>1, <3>2
      <4>2. Extends(s, t)
        BY <2>2, <4>1, ExtendsTransitive DEF Continues, WellFormed, s
      <4>3. g # None => Names(g, s, t)
        <5>1. t \in Seq(Records) /\ Len(t) \in Nat
          BY <4>1, LenProperties DEF Continues, WellFormed
        <5>2. ASSUME g # None, Len(t) <= Len(u), Len(t) > 0, u[Len(t)].status = "scheduled"
              PROVE  FALSE
          BY <2>2, <5>1, <5>2 DEF Settled
        <5> QED
          BY <2>2, <4>1, <5>1, <5>2 DEF Continues, Names
      <4>4. PICK b \in BOOLEAN, e \in BOOLEAN : WritesBy(u, t, g, FALSE, b, e)
        BY <3>1, <3>2 DEF WritesNoResult
      <4>5. WritesBy(s, t, g, TRUE, b, e)
        BY <2>2, <2>3, <2>4, <4>4 DEF WritesBy
      <4> QED
        BY <4>1, <4>2, <4>3, <4>5 DEF Continues, Writes
    <3>3. FinishesBy(s, TRUE)
      BY <2>2, <2>4 DEF FinishesBy
    <3>4. Finishes(s)
      BY <3>3 DEF Finishes
    <3> QED
      BY <2>2, <3>1, <3>2, <3>4 DEF s, t
  <2> QED
    BY <2>1, <2>5, <2>6
<1> QED
  BY <1>1, <1>2 DEF Successor

----------------------------------------------------------------------------
(* The inductive invariant.                                                *)

\* Initially nothing is stored, asked for, run or permitted.
LEMMA InitIInv == Init => IInv
<1> SUFFICES ASSUME Init PROVE IInv
  OBVIOUS
<1>1. << >> \in Seq(Records) /\ Len(<< >>) = 0 /\ << >> \in Seq(Permits)
  BY EmptySeq
<1>2. store = [rev |-> 0, checkpoint |-> Absent] /\ store.checkpoint = Absent
  BY DEF Init
<1>3. HistoryOf(store.checkpoint) = << >>
  BY <1>2 DEF HistoryOf, Absent
<1>4. TypeInv
  <2>1. store \in [rev : Nat, checkpoint : Checkpoints]
    BY <1>2 DEF Checkpoints
  <2>2. host \in [Hosts -> [build : Builds, epoch : Nat, permit : Permits \cup {None}]]
    BY FirstBuildIsABuild DEF Init
  <2>3. request \in [Hosts -> Requests \cup {None}]
    BY DEF Init
  <2>4. fate \in [Activities -> Results \cup {None}]
    BY DEF Init
  <2>5. grants \in [Places -> Seq(Permits)]
    BY <1>1 DEF Init
  <2>6. faults \in [crashes : 0 .. MaxCrashes, losses : 0 .. MaxLosses]
    BY BoundsAreNatural DEF Init
  <2>7. \A h \in Hosts : host[h].epoch <= faults.crashes
    BY DEF Init
  <2> QED
    BY <2>1, <2>2, <2>3, <2>4, <2>5, <2>6, <2>7 DEF TypeInv
<1>5. HistoryInv
  BY <1>1, <1>3 DEF HistoryInv, WellFormed, Faithful
<1>6. RequestInv
  BY DEF Init, RequestInv
<1>7. PermitInv
  BY DEF Init, PermitInv
<1> QED
  BY <1>4, <1>5, <1>6, <1>7 DEF IInv

\* What an effect did once is what it did: later fates do not change what was
\* recorded or is about to be.
LEMMA FateGrows ==
    ASSUME NEW f \in [Activities -> Results \cup {None}], NEW f2,
           \A a \in Activities : f[a] # None => f2[a] = f[a]
    PROVE  /\ \A s : WellFormed(s) /\ Faithful(s, f) => Faithful(s, f2)
           /\ \A c, d, g : Successor(c, d, g, f) => Successor(c, d, g, f2)
<1>1. ASSUME NEW s, WellFormed(s), Faithful(s, f)
      PROVE  Faithful(s, f2)
  <2>1. ASSUME NEW i \in 1 .. Len(s), s[i].status = "completed"
        PROVE  /\ [seq |-> i, spec |-> s[i].spec] \in Activities
               /\ s[i].result = f2[[seq |-> i, spec |-> s[i].spec]]
    <3>1. s[i].result \in Results
      BY <1>1, <2>1 DEF WellFormed
    <3>2. /\ [seq |-> i, spec |-> s[i].spec] \in Activities
          /\ s[i].result = f[[seq |-> i, spec |-> s[i].spec]]
      BY <1>1, <2>1 DEF Faithful
    <3> QED
      BY <3>1, <3>2, ConstantsAreDistinct
  <2> QED
    BY <2>1 DEF Faithful
<1>2. ASSUME NEW s, NEW t, RecordsResult(s, t, f)
      PROVE  RecordsResult(s, t, f2)
  <2> DEFINE a == [seq |-> Len(s), spec |-> s[Len(s)].spec]
  <2>1. a \in Activities /\ f[a] \in Results
    BY <1>2 DEF RecordsResult
  <2>2. f2[a] = f[a]
    BY <2>1, ConstantsAreDistinct
  <2> QED
    BY <1>2, <2>2 DEF RecordsResult
<1>3. ASSUME NEW c, NEW d, NEW g, Successor(c, d, g, f)
      PROVE  Successor(c, d, g, f2)
  BY <1>2, <1>3 DEF Successor
<1> QED
  BY <1>1, <1>3

\* A step that leaves the store and the fates alone leaves requests fitting.
LEMMA FitsStays ==
    ASSUME UNCHANGED <<store, fate>>, NEW r, Fits(r)
    PROVE  Fits(r)'
  BY DEF Fits

\* A step in which effects run leaves requests fitting and results recorded.
LEMMA FitsFates ==
    ASSUME TypeInv, HistoryInv, UNCHANGED store,
           \A a \in Activities : fate[a] # None => fate'[a] = fate[a]
    PROVE  HistoryInv' /\ \A r : Fits(r) => Fits(r)'
<1>1. fate \in [Activities -> Results \cup {None}]
  BY DEF TypeInv
<1>2. /\ \A s : WellFormed(s) /\ Faithful(s, fate) => Faithful(s, fate')
      /\ \A c, d, g : Successor(c, d, g, fate) => Successor(c, d, g, fate')
  BY <1>1, FateGrows
<1>3. HistoryInv'
  BY <1>2 DEF HistoryInv
<1>4. ASSUME NEW r, Fits(r)
      PROVE  Fits(r)'
  BY <1>2, <1>4 DEF Fits
<1> QED
  BY <1>3, <1>4

\* A permit that was given stays behind a durable exposure.
LEMMA BacksStays ==
    ASSUME NEW c \in Checkpoints, NEW d \in Checkpoints, c.kind # "terminal",
           d.kind # "absent",
           d.kind = "active" => Extends(HistoryOf(c), d.history),
           NEW i, NEW g, Backs(c, i, g)
    PROVE  Backs(d, i, g)
<1> SUFFICES ASSUME d.kind = "active" PROVE Backs(d, i, g)
  BY DEF Backs
<1>1. c \in Actives /\ c.kind = "active" /\ HistoryOf(c) = c.history
  BY DEF Backs, Checkpoints, Absent, Terminals, Actives, HistoryOf
<1> DEFINE s == c.history
           t == d.history
<1>2. s \in Seq(Records) /\ t \in Seq(Records)
  BY <1>1 DEF Actives, Checkpoints, Absent, Terminals
<1>3. Len(s) \in Nat /\ Len(t) \in Nat
  BY <1>2, LenProperties
<1>4. Extends(s, t)
  BY <1>1
<1>5. /\ i \in 1 .. Len(s) /\ s[i].spec = g.spec
      /\ s[i].status = "completed" \/ (s[i].status = "exposed" /\ s[i].attempt = g.attempt)
  BY <1>1 DEF Backs
<1>6. i \in 1 .. Len(t)
  BY <1>3, <1>4, <1>5 DEF Extends
<1>7. t[i].spec = g.spec /\ (t[i].status = "completed" \/ t[i] = s[i])
  BY <1>4, <1>5 DEF Extends
<1> QED
  BY <1>5, <1>6, <1>7 DEF Backs

\* The store serves a request: a stale one changes nothing; another one makes
\* its checkpoint the stored one and every other request stale.
LEMMA ServeKeeps ==
    ASSUME TypeInv, HistoryInv, NEW r, Fits(r), store' = Serve(r), UNCHANGED fate
    PROVE  /\ store' \in [rev : Nat, checkpoint : Checkpoints]
           /\ HistoryInv'
           /\ \A q : Fits(q) => Fits(q)'
           /\ \A i, g : Backs(store.checkpoint, i, g) => Backs(store'.checkpoint, i, g)
           /\ store' # store =>
                 /\ store'.checkpoint = r.checkpoint
                 /\ Successor(store.checkpoint, r.checkpoint, r.grant, fate)
<1> DEFINE c == store.checkpoint
           d == r.checkpoint
<1>1. /\ store.rev \in Nat /\ c \in Checkpoints /\ d \in Checkpoints
      /\ fate \in [Activities -> Results \cup {None}]
      /\ WellFormed(HistoryOf(c)) /\ Faithful(HistoryOf(c), fate)
  BY DEF TypeInv, HistoryInv, Fits, Requests
<1>2. CASE r.expected # store.rev
  <2>1. store' = store
    BY <1>2 DEF Serve
  <2> QED
    BY <2>1, FitsStays DEF TypeInv, HistoryInv
<1>3. CASE r.expected = store.rev
  <2>1. store'.rev = store.rev + 1 /\ store'.checkpoint = d
    BY <1>3 DEF Serve
  <2>2. Successor(c, d, r.grant, fate)
    BY <1>3 DEF Fits
  <2>3. store' \in [rev : Nat, checkpoint : Checkpoints]
    BY <1>1, <1>3 DEF Serve
  <2>4. /\ d.kind \in {"active", "terminal"}
        /\ d.kind = "active" => Continues(HistoryOf(c), d.history, r.grant, fate)
    BY <1>1, <2>2, SuccessorContinues
  <2>5. WellFormed(HistoryOf(d)) /\ Faithful(HistoryOf(d), fate)
    <3>1. CASE d.kind = "active"
      BY <2>4, <3>1 DEF Continues, HistoryOf
    <3>2. CASE d.kind = "terminal"
      <4>1. HistoryOf(d) = << >> /\ << >> \in Seq(Records) /\ Len(<< >>) = 0
        BY <3>2, EmptySeq DEF HistoryOf
      <4> QED
        BY <4>1 DEF WellFormed, Faithful
    <3> QED
      BY <2>4, <3>1, <3>2
  <2>6. HistoryInv'
    BY <2>1, <2>5 DEF HistoryInv
  <2>7. ASSUME NEW q, Fits(q)
        PROVE  Fits(q)'
    <3>1. q \in Requests /\ q.expected \in Nat /\ q.expected <= store.rev
      BY <2>7 DEF Fits, Requests
    <3> QED
      BY <1>1, <2>1, <3>1 DEF Fits
  <2>8. ASSUME NEW i, NEW g, Backs(c, i, g)
        PROVE  Backs(store'.checkpoint, i, g)
    <3>1. c.kind # "terminal"
      BY <2>2 DEF Successor
    <3>2. d.kind # "absent" /\ (d.kind = "active" => Extends(HistoryOf(c), d.history))
      BY <2>4 DEF Continues
    <3> QED
      BY <1>1, <2>1, <2>8, <3>1, <3>2, BacksStays
  <2> QED
    BY <2>1, <2>2, <2>3, <2>6, <2>7, <2>8
<1> QED
  BY <1>2, <1>3

\* A swap that leaves a host with a plan for what it loaded.
LEMMA SendKeeps ==
    ASSUME IInv, NEW h \in Hosts, NEW plan, Send(h, plan),
           plan.grant \in Permits \cup {None},
           Successor(store.checkpoint, plan.checkpoint, plan.grant, fate)
    PROVE  IInv'
<1> DEFINE r == [expected |-> store.rev, checkpoint |-> plan.checkpoint, grant |-> plan.grant]
<1>1. /\ request' = [request EXCEPT ![h] = r]
      /\ UNCHANGED <<store, host, late, fate, grants, faults>>
  BY DEF Send
<1>2. store.rev \in Nat
  BY DEF IInv, TypeInv
<1>3. r \in Requests
  BY <1>2 DEF Successor, Requests
<1>4. Fits(r)
  BY <1>2, <1>3 DEF Fits
<1> HIDE DEF r
<1>5. TypeInv'
  BY <1>1, <1>3 DEF IInv, TypeInv
<1>6. RequestInv'
  <2>1. request \in [Hosts -> Requests \cup {None}]
    BY DEF IInv, TypeInv
  <2>2. \A q : Fits(q) => Fits(q)'
    BY <1>1, FitsStays
  <2>3. /\ \A k \in Hosts : request'[k] = IF k = h THEN r ELSE request[k]
        /\ late' = late
    BY <1>1, <2>1
  <2> QED
    BY <1>4, <2>2, <2>3 DEF IInv, RequestInv
<1> QED
  BY <1>1, <1>5, <1>6 DEF IInv, HistoryInv, PermitInv

LEMMA TurnKeeps ==
    ASSUME IInv, NEW h \in Hosts, NEW fused \in BOOLEAN, Turn(h, fused)
    PROVE  IInv'
<1>1. Send(h, TurnPlan(h, fused)) /\ TurnPlan(h, fused).swap
  BY DEF Turn, Send
<1>2. /\ TurnPlan(h, fused).grant \in Permits \cup {None}
      /\ Successor(store.checkpoint, TurnPlan(h, fused).checkpoint,
                   TurnPlan(h, fused).grant, fate)
  BY <1>1, TurnProposes DEF IInv
<1> QED
  BY <1>1, <1>2, SendKeeps

LEMMA ObserveKeeps ==
    ASSUME IInv, NEW h \in Hosts, NEW a \in Activities, NEW fused \in BOOLEAN,
           Observe(h, a, fused)
    PROVE  IInv'
<1> DEFINE plan == ObservePlan(h, a, fate[a], fused)
<1>1. fate[a] # None /\ Send(h, plan) /\ plan.swap
  BY DEF Observe, Send
<1>2. /\ plan.grant \in Permits \cup {None}
      /\ Successor(store.checkpoint, plan.checkpoint, plan.grant, fate)
  BY <1>1, ObserveProposes DEF IInv
<1> HIDE DEF plan
<1> QED
  BY <1>1, <1>2, SendKeeps

\* The permits after a reply: what was permitted still is, and the new permit
\* is the only one for its place.
LEMMA GrantKeeps ==
    ASSUME IInv, NEW h \in Hosts, Reply(h)
    PROVE  grants' \in [Places -> Seq(Permits)] /\ PermitInv'
<1> DEFINE r == request[h]
           c == store.checkpoint
           d == r.checkpoint
           g == IF store' # store THEN r.grant ELSE None
<1>1. Fits(r) /\ r \in Requests /\ store' = Serve(r) /\ UNCHANGED fate /\ Grant(g)
  BY DEF IInv, RequestInv, Reply, Fits
<1>2. /\ \A i, p : Backs(c, i, p) => Backs(store'.checkpoint, i, p)
      /\ store' # store => store'.checkpoint = d /\ Successor(c, d, r.grant, fate)
  BY <1>1, ServeKeeps DEF IInv
<1>3. grants \in [Places -> Seq(Permits)]
  BY DEF IInv, TypeInv
<1>4. CASE g = None
  <2>1. grants' = grants
    BY <1>1, <1>4 DEF Grant
  <2> QED
    BY <1>2, <1>3, <2>1 DEF IInv, PermitInv
<1>5. CASE g # None
  <2>1. /\ grants' = [grants EXCEPT ![g.seq] = Append(@, g)]
        /\ g = r.grant /\ store'.checkpoint = d /\ Successor(c, d, g, fate)
    BY <1>1, <1>2, <1>5 DEF Grant
  <2>2. /\ c \in Checkpoints /\ fate \in [Activities -> Results \cup {None}]
        /\ WellFormed(HistoryOf(c)) /\ Faithful(HistoryOf(c), fate)
    BY DEF IInv, TypeInv, HistoryInv
  <2> DEFINE s == HistoryOf(c)
             t == d.history
  <2>3. d.kind = "active" /\ Names(g, s, t)
    <3> HIDE DEF s, t, g
    <3> QED
      BY <1>5, <2>1, <2>2, SuccessorContinues DEF Continues, s, t
  <2>4. Backs(d, g.seq, g)
    BY <2>3 DEF Names, Backs, Permits
  <2>5. \A p : ~Backs(c, g.seq, p)
    <3>1. c.kind # "terminal"
      BY <2>1 DEF Successor
    <3>2. CASE c.kind = "active"
      <4>1. s = c.history
        BY <3>2 DEF HistoryOf
      <4>2. ASSUME NEW p, Backs(c, g.seq, p)
            PROVE  FALSE
        <5>1. /\ g.seq \in 1 .. Len(s)
              /\ s[g.seq].status \in {"completed", "exposed"}
          BY <3>2, <4>1, <4>2 DEF Backs
        <5>2. s \in Seq(Records) /\ Len(s) \in Nat
          BY <2>2, LenProperties DEF WellFormed
        <5>3. g.seq = Len(t) /\ (Len(t) <= Len(s) => s[Len(t)].status = "scheduled")
          BY <2>3 DEF Names
        <5> QED
          BY <5>1, <5>2, <5>3
      <4> QED
        BY <4>2
    <3>3. CASE c.kind # "active"
      <4>1. c.kind = "absent"
        BY <2>2, <3>1, <3>3 DEF Checkpoints, Absent, Actives, Terminals
      <4> QED
        BY <4>1 DEF Backs
    <3> QED
      BY <3>2, <3>3
  <2> HIDE DEF g
  <2>6. g \in Permits
    BY <2>3 DEF Names
  <2>7. ASSUME NEW i \in Places
        PROVE  /\ grants'[i] \in Seq(Permits)
               /\ grants'[i] # << >> =>
                     Len(grants'[i]) = 1 /\ Backs(store'.checkpoint, i, grants'[i][1])
    <3>1. CASE i = g.seq
      <4>1. grants[i] = << >>
        BY <2>5, <3>1 DEF IInv, PermitInv
      <4>2. grants'[i] = Append(<< >>, g)
        BY <1>3, <2>1, <3>1, <4>1
      <4>3. /\ Append(<< >>, g) \in Seq(Permits) /\ Len(Append(<< >>, g)) = 1
            /\ Append(<< >>, g)[1] = g
        <5>1. << >> \in Seq(Permits) /\ Len(<< >>) = 0
          BY EmptySeq
        <5> QED
          BY <2>6, <5>1, AppendProperties
      <4> QED
        BY <2>1, <2>4, <3>1, <4>2, <4>3
    <3>2. CASE i # g.seq
      <4>1. grants'[i] = grants[i]
        BY <1>3, <2>1, <3>2
      <4> QED
        BY <1>2, <1>3, <4>1 DEF IInv, PermitInv
    <3> QED
      BY <3>1, <3>2
  <2>8. DOMAIN grants' = Places /\ grants' = [i \in Places |-> grants'[i]]
    BY <1>3, <2>1
  <2> QED
    BY <2>7, <2>8 DEF PermitInv
<1> QED
  BY <1>4, <1>5

LEMMA ReplyKeeps ==
    ASSUME IInv, NEW h \in Hosts, Reply(h)
    PROVE  IInv'
<1> DEFINE r == request[h]
           g == IF store' # store THEN r.grant ELSE None
<1>1. /\ r # None /\ Fits(r) /\ r \in Requests /\ store' = Serve(r)
      /\ host' = [host EXCEPT ![h].permit = g]
      /\ request' = [request EXCEPT ![h] = None] /\ UNCHANGED <<late, fate, faults>>
  BY DEF IInv, RequestInv, Reply, Fits
<1>2. /\ store' \in [rev : Nat, checkpoint : Checkpoints] /\ HistoryInv'
      /\ \A q : Fits(q) => Fits(q)'
  BY <1>1, ServeKeeps DEF IInv
<1>3. grants' \in [Places -> Seq(Permits)] /\ PermitInv'
  BY GrantKeeps
<1>4. g \in Permits \cup {None}
  BY <1>1 DEF Requests
<1> HIDE DEF g
<1>5. TypeInv'
  BY <1>1, <1>2, <1>3, <1>4 DEF IInv, TypeInv
<1>6. RequestInv'
  BY <1>1, <1>2 DEF IInv, TypeInv, RequestInv
<1> QED
  BY <1>2, <1>3, <1>5, <1>6 DEF IInv

LEMMA LoseReplyKeeps ==
    ASSUME IInv, NEW h \in Hosts, LoseReply(h) \/ FailBeforeRequest(h)
    PROVE  IInv'
<1>1. /\ request[h] # None /\ request' = [request EXCEPT ![h] = None]
      /\ faults.losses < MaxLosses /\ faults' = [faults EXCEPT !.losses = @ + 1]
      /\ late' = late \/ late' = late \cup {request[h]}
      /\ UNCHANGED <<store, host, fate, grants>>
  BY DEF LoseReply, FailBeforeRequest
<1>2. TypeInv'
  <2>1. faults \in [crashes : 0 .. MaxCrashes, losses : 0 .. MaxLosses]
    BY DEF IInv, TypeInv
  <2>2. faults.losses + 1 \in 0 .. MaxLosses
    BY <1>1, <2>1, BoundsAreNatural
  <2>3. faults' \in [crashes : 0 .. MaxCrashes, losses : 0 .. MaxLosses]
        /\ faults'.crashes = faults.crashes
    BY <1>1, <2>1, <2>2
  <2> QED
    BY <1>1, <2>3 DEF IInv, TypeInv
<1>3. \A q : Fits(q) => Fits(q)'
  BY <1>1, FitsStays
<1>4. RequestInv'
  BY <1>1, <1>3 DEF IInv, TypeInv, RequestInv
<1> QED
  BY <1>1, <1>2, <1>4 DEF IInv, HistoryInv, PermitInv

LEMMA CrashKeeps ==
    ASSUME IInv, NEW h \in Hosts, Crash(h)
    PROVE  IInv'
<1>1. PICK b \in Builds :
          host' = [host EXCEPT ![h] = [build |-> b, epoch |-> @.epoch + 1, permit |-> None]]
  BY DEF Crash
<1>2. /\ request' = [request EXCEPT ![h] = None]
      /\ faults.crashes < MaxCrashes /\ faults' = [faults EXCEPT !.crashes = @ + 1]
      /\ late' = late \/ (request[h] # None /\ late' = late \cup {request[h]})
      /\ UNCHANGED <<store, fate, grants>>
  BY DEF Crash
<1>3. TypeInv'
  <2>1. host' \in [Hosts -> [build : Builds, epoch : Nat, permit : Permits \cup {None}]]
    BY <1>1 DEF IInv, TypeInv
  <2>2. /\ faults' \in [crashes : 0 .. MaxCrashes, losses : 0 .. MaxLosses]
        /\ faults'.crashes = faults.crashes + 1 /\ faults.crashes \in Nat
    <3>1. faults \in [crashes : 0 .. MaxCrashes, losses : 0 .. MaxLosses]
      BY DEF IInv, TypeInv
    <3>2. faults.crashes \in Nat /\ faults.crashes + 1 \in 0 .. MaxCrashes
      BY <1>2, <3>1, BoundsAreNatural
    <3> QED
      BY <1>2, <3>1, <3>2
  <2>3. ASSUME NEW k \in Hosts
        PROVE  host'[k].epoch <= faults'.crashes
    <3>1. host[k].epoch \in Nat /\ host[k].epoch <= faults.crashes
      BY DEF IInv, TypeInv
    <3>2. host'[k].epoch = IF k = h THEN host[k].epoch + 1 ELSE host[k].epoch
      BY <1>1 DEF IInv, TypeInv
    <3> QED
      BY <2>2, <3>1, <3>2
  <2> QED
    BY <1>2, <2>1, <2>2, <2>3 DEF IInv, TypeInv
<1>4. \A q : Fits(q) => Fits(q)'
  BY <1>2, FitsStays
<1>5. RequestInv'
  BY <1>2, <1>4 DEF IInv, TypeInv, RequestInv
<1> QED
  BY <1>2, <1>3, <1>5 DEF IInv, HistoryInv, PermitInv

LEMMA LateKeeps ==
    ASSUME IInv, NEW r \in late, LateArrival(r) \/ LateLoss(r)
    PROVE  IInv'
<1>1. /\ store' = Serve(r) \/ store' = store
      /\ late' \subseteq late /\ UNCHANGED <<host, request, fate, grants, faults>>
  BY DEF LateArrival, LateLoss
<1>2. Fits(r)
  BY DEF IInv, RequestInv
<1>3. CASE store' = Serve(r)
  <2>1. /\ store' \in [rev : Nat, checkpoint : Checkpoints] /\ HistoryInv'
        /\ \A q : Fits(q) => Fits(q)'
        /\ \A i, p : Backs(store.checkpoint, i, p) => Backs(store'.checkpoint, i, p)
    BY <1>1, <1>2, <1>3, ServeKeeps DEF IInv
  <2>2. TypeInv'
    BY <1>1, <2>1 DEF IInv, TypeInv
  <2>3. RequestInv'
    BY <1>1, <2>1 DEF IInv, RequestInv
  <2>4. PermitInv'
    BY <1>1, <2>1 DEF IInv, PermitInv
  <2> QED
    BY <2>1, <2>2, <2>3, <2>4 DEF IInv
<1>4. CASE store' = store
  <2>1. \A q : Fits(q) => Fits(q)'
    BY <1>1, <1>4, FitsStays
  <2>2. TypeInv' /\ HistoryInv' /\ PermitInv'
    BY <1>1, <1>4 DEF IInv, TypeInv, HistoryInv, PermitInv
  <2>3. RequestInv'
    BY <1>1, <2>1 DEF IInv, RequestInv
  <2> QED
    BY <2>2, <2>3 DEF IInv
<1> QED
  BY <1>1, <1>3, <1>4

\* An effect that ran keeps its fate.
LEMMA EffectKeeps ==
    ASSUME IInv, NEW result \in Results,
           (\E h \in Hosts : Dispatch(h, result)) \/ Fence(result)
    PROVE  IInv'
<1> DEFINE Grows ==
             /\ fate' \in [Activities -> Results \cup {None}]
             /\ \A a \in Activities : fate[a] # None => fate'[a] = fate[a]
             /\ host' \in [Hosts -> [build : Builds, epoch : Nat, permit : Permits \cup {None}]]
             /\ \A h \in Hosts : host'[h].epoch = host[h].epoch
             /\ UNCHANGED <<store, request, late, grants, faults>>
<1>1. Grows
  <2>1. ASSUME NEW h \in Hosts, Dispatch(h, result)
        PROVE  Grows
    <3>1. fate \in [Activities -> Results \cup {None}]
      BY DEF IInv, TypeInv
    <3>2. PICK a : fate' = [fate EXCEPT ![a] = IF @ = None THEN result ELSE @]
      BY <2>1 DEF Dispatch
    <3>3. /\ fate' \in [Activities -> Results \cup {None}]
          /\ \A x \in Activities : fate[x] # None => fate'[x] = fate[x]
      BY <3>1, <3>2
    <3>4. /\ host' = [host EXCEPT ![h].permit = None]
          /\ UNCHANGED <<store, request, late, grants, faults>>
      BY <2>1 DEF Dispatch
    <3> QED
      BY <3>3, <3>4 DEF IInv, TypeInv
  <2>2. ASSUME Fence(result)
        PROVE  Grows
    <3>1. fate \in [Activities -> Results \cup {None}]
      BY DEF IInv, TypeInv
    <3>2. PICK a : fate[a] = None /\ fate' = [fate EXCEPT ![a] = result]
      BY <2>2 DEF Fence
    <3>3. /\ fate' \in [Activities -> Results \cup {None}]
          /\ \A x \in Activities : fate[x] # None => fate'[x] = fate[x]
      BY <3>1, <3>2
    <3>4. UNCHANGED <<store, host, request, late, grants, faults>>
      BY <2>2 DEF Fence
    <3> QED
      BY <3>3, <3>4 DEF IInv, TypeInv
  <2> QED
    BY <2>1, <2>2
<1>2. HistoryInv' /\ \A r : Fits(r) => Fits(r)'
  BY <1>1, FitsFates DEF IInv
<1>3. TypeInv'
  BY <1>1 DEF IInv, TypeInv
<1>4. RequestInv'
  BY <1>1, <1>2 DEF IInv, RequestInv
<1> QED
  BY <1>1, <1>2, <1>3, <1>4 DEF IInv, PermitInv

LEMMA NextIInv == IInv /\ [Next]_vars => IInv'
<1> SUFFICES ASSUME IInv, [Next]_vars PROVE IInv'
  OBVIOUS
<1>1. CASE \E h \in Hosts : HostStep(h)
  BY <1>1, TurnKeeps, ObserveKeeps DEF HostStep
<1>2. CASE \E h \in Hosts : Reply(h)
  BY <1>2, ReplyKeeps
<1>3. CASE \E h \in Hosts : LoseReply(h) \/ FailBeforeRequest(h)
  BY <1>3, LoseReplyKeeps
<1>4. CASE \E h \in Hosts : Crash(h)
  BY <1>4, CrashKeeps
<1>5. CASE \E r \in late : LateArrival(r) \/ LateLoss(r)
  BY <1>5, LateKeeps
<1>6. CASE \E result \in Results : (\E h \in Hosts : Dispatch(h, result)) \/ Fence(result)
  BY <1>6, EffectKeeps
<1>7. CASE UNCHANGED vars
  <2>1. UNCHANGED <<store, host, request, late, fate, grants, faults>>
    BY <1>7 DEF vars
  <2>2. \A q : Fits(q) => Fits(q)'
    BY <2>1, FitsStays
  <2> QED
    BY <2>1, <2>2 DEF IInv, TypeInv, HistoryInv, RequestInv, PermitInv
<1> QED
  BY <1>1, <1>2, <1>3, <1>4, <1>5, <1>6, <1>7 DEF Next

\* The inductive invariant holds in every reachable state.
THEOREM IInvHolds == Spec => []IInv
<1>1. Init => IInv
  BY InitIInv
<1>2. IInv /\ [Next]_vars => IInv'
  BY NextIInv
<1> QED
  BY <1>1, <1>2, PTL DEF Spec

----------------------------------------------------------------------------
(* Results.                                                                *)

\* The kernel's state is well typed, and no host waits for a swap from beyond
\* the stored revision (store.rs, host.rs).
THEOREM TypeCorrect == Spec => []TypeOK
<1>1. IInv => TypeOK
  <2> SUFFICES ASSUME IInv PROVE TypeOK
    OBVIOUS
  <2>1. /\ store.rev \in Nat /\ store.checkpoint.kind \in {"absent", "active", "terminal"}
    BY DEF IInv, TypeInv, Checkpoints, Absent, Actives, Terminals
  <2>2. ASSUME NEW h \in Hosts
        PROVE  /\ host[h].build \in Builds
               /\ host[h].epoch \in 0 .. MaxCrashes
               /\ request[h] = None \/ request[h].expected <= store.rev
    <3>1. host[h].build \in Builds /\ host[h].epoch \in Nat /\ host[h].epoch <= faults.crashes
      BY DEF IInv, TypeInv
    <3>2. faults.crashes \in 0 .. MaxCrashes
      BY DEF IInv, TypeInv
    <3>3. host[h].epoch \in 0 .. MaxCrashes
      BY <3>1, <3>2, BoundsAreNatural
    <3> QED
      BY <3>1, <3>3 DEF IInv, RequestInv, Fits
  <2> QED
    BY <2>1, <2>2 DEF IInv, TypeInv, TypeOK
<1> QED
  BY <1>1, IInvHolds, PTL

\* Whatever is lost, delayed or crashed and whichever builds disagree, a place
\* of the history gets one permit at most, and a permit is behind a durable
\* exposure or result of its specification (host.rs, commit_exposure).
THEOREM PermitsAreUniqueAndDurable == Spec => []PermitIsUniqueAndDurable
<1>1. IInv => PermitIsUniqueAndDurable
  <2> SUFFICES ASSUME IInv, NEW i \in Places, grants[i] # << >>
               PROVE  /\ Len(grants[i]) = 1
                      /\ LET c == store.checkpoint
                             g == grants[i][1]
                         IN  CASE c.kind = "absent"   -> FALSE
                               [] c.kind = "terminal" -> TRUE
                               [] c.kind = "active"   ->
                                     /\ i <= Len(c.history)
                                     /\ c.history[i].spec = g.spec
                                     /\ c.history[i].status = "completed"
                                          \/ c.history[i].attempt = g.attempt
    BY DEF PermitIsUniqueAndDurable
  <2> DEFINE c == store.checkpoint
             g == grants[i][1]
  <2>1. Len(grants[i]) = 1 /\ Backs(c, i, g)
    BY DEF IInv, PermitInv
  <2>2. c.kind \in {"absent", "active", "terminal"} /\ c \in Checkpoints
    BY DEF IInv, TypeInv, Checkpoints, Absent, Actives, Terminals
  <2>3. c.kind = "active" => i <= Len(c.history)
    <3> SUFFICES ASSUME c.kind = "active" PROVE i <= Len(c.history)
      OBVIOUS
    <3>1. c.history \in Seq(Records)
      BY <2>2 DEF Checkpoints, Absent, Actives, Terminals
    <3>2. Len(c.history) \in Nat /\ i \in 1 .. Len(c.history)
      BY <2>1, <3>1, LenProperties DEF Backs
    <3> QED
      BY <3>2
  <2> HIDE DEF c, g
  <2>4. CASE c.kind = "active"
    BY <2>1, <2>3, <2>4 DEF Backs, c, g
  <2>5. CASE c.kind = "terminal"
    BY <2>1, <2>5 DEF c, g
  <2>6. c.kind # "absent"
    BY <2>1 DEF Backs
  <2> QED
    BY <2>2, <2>4, <2>5, <2>6
<1> QED
  BY <1>1, IInvHolds, PTL

\* A step stores nothing, or a successor of what is stored; a permit is given
\* by the step that stores its exposure.
LEMMA StoreStep ==
    ASSUME IInv, [Next]_vars
    PROVE  \/ UNCHANGED <<store, grants>>
           \/ \E d, g, p :
                 /\ store'.checkpoint = d /\ UNCHANGED fate
                 /\ Successor(store.checkpoint, d, g, fate)
                 /\ p \in {g, None}
                 /\ Grant(p)
<1>1. CASE \E h \in Hosts : Reply(h)
  <2>1. PICK h \in Hosts : Reply(h)
    BY <1>1
  <2> DEFINE r == request[h]
             p == IF store' # store THEN r.grant ELSE None
  <2>2. Fits(r) /\ store' = Serve(r) /\ UNCHANGED fate /\ Grant(p)
    BY <2>1 DEF IInv, RequestInv, Reply
  <2>3. store' # store => /\ store'.checkpoint = r.checkpoint
                          /\ Successor(store.checkpoint, r.checkpoint, r.grant, fate)
    BY <2>2, ServeKeeps DEF IInv
  <2>4. CASE store' = store
    BY <2>2, <2>4 DEF Grant
  <2>5. CASE store' # store
    <3>1. p = r.grant
      BY <2>5
    <3> HIDE DEF p
    <3> QED
      BY <2>2, <2>3, <2>5, <3>1
  <2> QED
    BY <2>4, <2>5
<1>2. CASE \E r \in late : LateArrival(r)
  <2>1. PICK r \in late : LateArrival(r)
    BY <1>2
  <2>2. Fits(r) /\ store' = Serve(r) /\ UNCHANGED <<fate, grants>>
    BY <2>1 DEF IInv, RequestInv, LateArrival
  <2>3. store' # store => /\ store'.checkpoint = r.checkpoint
                          /\ Successor(store.checkpoint, r.checkpoint, r.grant, fate)
    BY <2>2, ServeKeeps DEF IInv
  <2>4. Grant(None)
    BY <2>2 DEF Grant
  <2> QED
    BY <2>2, <2>3, <2>4
<1>3. CASE UNCHANGED vars
  BY <1>3 DEF vars
<1>4. CASE /\ Next /\ ~(\E h \in Hosts : Reply(h)) /\ ~(\E r \in late : LateArrival(r))
  <2>1. UNCHANGED <<store, grants>>
    BY <1>4 DEF Next, HostStep, Turn, Observe, Send, LoseReply, FailBeforeRequest, Crash,
                Dispatch, LateLoss, Fence
  <2> QED
    BY <2>1
<1> QED
  BY <1>1, <1>2, <1>3, <1>4

\* History is never rewritten by any host, late request or other build: what
\* is durable stays until the terminal checkpoint replaces it, and a recorded
\* result is the one the effect had (host.rs, observe to commit_completion).
THEOREM HistoryGrows == Spec => HistoryIsAppendOnly
<1> DEFINE Grows ==
             LET old == store.checkpoint
                 new == store'.checkpoint
             IN  old.kind = "active" =>
                     CASE new.kind = "absent"   -> FALSE
                       [] new.kind = "terminal" -> new.count >= Len(old.history)
                       [] new.kind = "active"   ->
                            \A i \in DOMAIN old.history :
                                /\ i \in DOMAIN new.history
                                /\ new.history[i].spec = old.history[i].spec
                                /\ old.history[i].status = "completed"
                                     => new.history[i] = old.history[i]
                                /\ new.history[i].status = "completed"
                                     => new.history[i].result =
                                          fate[[seq |-> i, spec |-> new.history[i].spec]]
<1>1. IInv /\ [Next]_vars => [Grows]_vars
  <2> SUFFICES ASSUME IInv, [Next]_vars, store.checkpoint.kind = "active" PROVE Grows
    OBVIOUS
  <2> DEFINE old == store.checkpoint
             new == store'.checkpoint
             s == old.history
             t == new.history
  <2>1. /\ HistoryOf(old) = s /\ WellFormed(s) /\ Faithful(s, fate)
        /\ fate \in [Activities -> Results \cup {None}]
    BY DEF IInv, HistoryInv, TypeInv, HistoryOf
  <2>2. s \in Seq(Records) /\ Len(s) \in Nat /\ DOMAIN s = 1 .. Len(s)
    BY <2>1, LenProperties DEF WellFormed
  <2>3. \/ new.kind = "terminal" /\ new.count = Len(s)
        \/ new.kind = "active" /\ Extends(s, t) /\ Faithful(t, fate) /\ WellFormed(t)
    <3>1. CASE UNCHANGED store
      <4>1. Extends(s, s)
        BY <2>2 DEF Extends
      <4> QED
        BY <2>1, <3>1, <4>1
    <3>2. CASE \E d, g : store'.checkpoint = d /\ Successor(store.checkpoint, d, g, fate)
      <4>1. PICK d, g : store'.checkpoint = d /\ Successor(store.checkpoint, d, g, fate)
        BY <3>2
      <4>2. /\ d.kind \in {"active", "terminal"}
            /\ d.kind = "active" => Continues(s, d.history, g, fate)
            /\ d.kind = "terminal" => d.count = Len(s)
        BY <2>1, <4>1, SuccessorContinues
      <4> QED
        BY <4>1, <4>2 DEF Continues
    <3> QED
      BY <3>1, <3>2, StoreStep
  <2> HIDE DEF old, new
  <2>4. CASE new.kind = "terminal" /\ new.count = Len(s)
    BY <2>2, <2>4 DEF old, new
  <2>5. CASE new.kind = "active" /\ Extends(s, t) /\ Faithful(t, fate) /\ WellFormed(t)
    <3>1. t \in Seq(Records) /\ Len(t) \in Nat /\ DOMAIN t = 1 .. Len(t)
      BY <2>5, LenProperties DEF WellFormed
    <3>2. \A i \in DOMAIN s : i \in DOMAIN t
      BY <2>2, <2>5, <3>1 DEF Extends
    <3>3. \A i \in DOMAIN s :
              /\ t[i].spec = s[i].spec
              /\ s[i].status = "completed" => t[i] = s[i]
      BY <2>2, <2>5 DEF Extends
    <3>4. \A i \in DOMAIN t : t[i].status = "completed"
              => t[i].result = fate[[seq |-> i, spec |-> t[i].spec]]
      BY <2>5, <3>1 DEF Faithful
    <3> QED
      BY <2>5, <3>2, <3>3, <3>4 DEF old, new
  <2> QED
    BY <2>3, <2>4, <2>5
<1> QED
  BY <1>1, IInvHolds, PTL DEF Spec, HistoryIsAppendOnly

----------------------------------------------------------------------------
(* The refinement of the contract.                                         *)

\* CountIn of a checkpoint c.
CountedIn(c, statuses) ==
    CASE c.kind = "absent"   -> 0
      [] c.kind = "active"   ->
             Cardinality({i \in DOMAIN c.history : c.history[i].status \in statuses})
      [] c.kind = "terminal" -> c.count

Any       == {"scheduled", "exposed", "completed"}
Disclosed == {"exposed", "completed"}
Kept      == {"completed"}

\* The counts of a well-formed history follow from its length and its last
\* record.
LEMMA CountOfHistory ==
    ASSUME NEW s, WellFormed(s), NEW S, "completed" \in S
    PROVE  Cardinality({i \in DOMAIN s : s[i].status \in S}) =
               IF s = << >> \/ s[Len(s)].status \in S THEN Len(s) ELSE Len(s) - 1
<1> DEFINE T == {i \in DOMAIN s : s[i].status \in S}
           n == IF s = << >> \/ s[Len(s)].status \in S THEN Len(s) ELSE Len(s) - 1
<1>1. s \in Seq(Records) /\ Len(s) \in Nat /\ DOMAIN s = 1 .. Len(s)
  BY LenProperties DEF WellFormed
<1>2. s # << >> => Len(s) > 0
  BY <1>1, EmptySeq
<1>3. n \in Nat /\ n <= Len(s)
  BY <1>1, <1>2
<1>4. \A i \in 1 .. Len(s) : i # Len(s) => s[i].status \in S
  BY DEF WellFormed
<1>5. T = 1 .. n
  <2>1. CASE s = << >>
    BY <1>1, <2>1, EmptySeq
  <2>2. CASE s # << >> /\ s[Len(s)].status \in S
    <3>1. n = Len(s)
      BY <2>2
    <3>2. \A i \in 1 .. Len(s) : s[i].status \in S
      BY <1>4, <2>2
    <3> QED
      BY <1>1, <3>1, <3>2
  <2>3. CASE s # << >> /\ s[Len(s)].status \notin S
    <3>1. n = Len(s) - 1 /\ Len(s) > 0
      BY <1>2, <2>3
    <3>2. ASSUME NEW i \in T
          PROVE  i \in 1 .. Len(s) - 1
      <4>1. i \in 1 .. Len(s) /\ i # Len(s)
        BY <1>1, <2>3
      <4> QED
        BY <1>1, <4>1
    <3>3. ASSUME NEW i \in 1 .. Len(s) - 1
          PROVE  i \in T
      <4>1. \A k \in Nat : \A j \in 1 .. k - 1 : j \in 1 .. k /\ j # k
        OBVIOUS
      <4>2. i \in 1 .. Len(s) /\ i # Len(s)
        BY <1>1, <4>1
      <4> QED
        BY <1>1, <1>4, <4>2
    <3>4. T = 1 .. Len(s) - 1
      <4> HIDE DEF T
      <4> QED
        BY <3>2, <3>3
    <3> QED
      BY <3>1, <3>4
  <2> QED
    BY <2>1, <2>2, <2>3
<1> HIDE DEF T, n
<1>6. Cardinality(1 .. n) = n
  <2>1. 1 \in Int /\ n \in Int
    BY <1>3
  <2>2. Cardinality(1 .. n) = IF 1 > n THEN 0 ELSE n - 1 + 1
    BY <2>1, FS_Interval
  <2> QED
    BY <1>3, <2>2
<1> QED
  BY <1>5, <1>6 DEF T, n

\* What the contract sees of a checkpoint.
LEMMA CountsOfCheckpoint ==
    ASSUME NEW c \in Checkpoints, WellFormed(HistoryOf(c))
    PROVE  LET s == HistoryOf(c)
           IN  /\ c.kind # "terminal" =>
                     /\ CountedIn(c, Any) = Len(s)
                     /\ CountedIn(c, Disclosed) = ExposedCount(s)
                     /\ CountedIn(c, Kept) = RecordedCount(s)
               /\ c.kind = "terminal" =>
                     /\ CountedIn(c, Any) = c.count
                     /\ CountedIn(c, Disclosed) = c.count
                     /\ CountedIn(c, Kept) = c.count
<1> DEFINE s == HistoryOf(c)
<1>1. c.kind \in {"absent", "active", "terminal"}
  BY DEF Checkpoints, Absent, Actives, Terminals
<1>2. CASE c.kind = "absent"
  <2>1. s = << >> /\ Len(<< >>) = 0
    BY <1>2, EmptySeq DEF HistoryOf
  <2> QED
    BY <1>2, <2>1 DEF CountedIn, ExposedCount, RecordedCount
<1>3. CASE c.kind = "terminal"
  BY <1>3 DEF CountedIn
<1>4. CASE c.kind = "active"
  <2>1. s = c.history
    BY <1>4 DEF HistoryOf
  <2>2. ASSUME NEW S, "completed" \in S
        PROVE  CountedIn(c, S) =
                   IF s = << >> \/ s[Len(s)].status \in S THEN Len(s) ELSE Len(s) - 1
    <3>1. CountedIn(c, S) = Cardinality({i \in DOMAIN s : s[i].status \in S})
      BY <1>4, <2>1 DEF CountedIn
    <3> QED
      BY <2>2, <3>1, CountOfHistory
  <2>3. s # << >> => s[Len(s)].status \in Any
    <3>1. s # << >> => s[Len(s)] \in Records
      BY ReplaceLast, EmptySeq, LenProperties, ElementOfSeq DEF WellFormed
    <3> QED
      BY <3>1 DEF Records, Any
  <2>4. CountedIn(c, Any) = Len(s)
    BY <2>2, <2>3 DEF Any
  <2>5. CountedIn(c, Disclosed) = ExposedCount(s)
    BY <2>2, <2>3 DEF Any, Disclosed, ExposedCount
  <2>6. CountedIn(c, Kept) = RecordedCount(s)
    BY <2>2 DEF Kept, RecordedCount
  <2> QED
    BY <1>4, <2>4, <2>5, <2>6
<1> QED
  BY <1>1, <1>2, <1>3, <1>4

Issued == {i \in Places : grants[i] # << >>}

\* A permit is issued for its own place, or for none.
LEMMA GrantIssues ==
    ASSUME grants \in [Places -> Seq(Permits)], NEW p, p # None => p \in Permits, Grant(p)
    PROVE  Issued' = Issued \/ (p # None /\ Issued' = Issued \cup {p.seq})
<1>1. CASE p = None \/ p.seq \notin Places
  <2>1. grants' = grants
    BY <1>1 DEF Grant
  <2> QED
    BY <2>1 DEF Issued
<1>2. CASE p # None /\ p.seq \in Places
  <2>1. grants' = [grants EXCEPT ![p.seq] = Append(@, p)]
    BY <1>2 DEF Grant
  <2>2. grants'[p.seq] # << >>
    <3>1. grants[p.seq] \in Seq(Permits) /\ grants'[p.seq] = Append(grants[p.seq], p)
      BY <1>2, <2>1
    <3> QED
      BY <1>2, <3>1, AppendProperties
  <2>3. \A i \in Places : i # p.seq => grants'[i] = grants[i]
    BY <2>1
  <2>4. Issued' = Issued \cup {p.seq}
    BY <1>2, <2>2, <2>3 DEF Issued
  <2> QED
    BY <1>2, <2>4
<1> QED
  BY <1>1, <1>2

\* The kernel implements its contract: under every schedule of loads, swaps,
\* losses, late requests and crashes of all hosts one write begins, exposes and
\* records in order, and a permit is issued only by the write that exposes its
\* activity (host.rs, turn to commit_completion).
THEOREM Refinement == Spec => ImplementsContract
<1>1. Init => Contract!Init
  <2> SUFFICES ASSUME Init PROVE Contract!Init
    OBVIOUS
  <2>1. store.checkpoint = Absent /\ store.checkpoint.kind = "absent"
    BY DEF Init, Absent
  <2>2. \A S : CountIn(S) = 0
    BY <2>1 DEF CountIn
  <2>3. {i \in Places : grants[i] # << >>} = {}
    BY DEF Init
  <2>4. (store.checkpoint.kind = "terminal") = FALSE
    BY <2>1
  <2> QED
    BY <2>2, <2>3, <2>4 DEF Contract!Init
<1>2. IInv /\ IInv' /\ [Next]_vars => [Contract!Next]_(Contract!vars)
  <2> SUFFICES ASSUME IInv, IInv', [Next]_vars
               PROVE  [Contract!Next]_(Contract!vars)
    OBVIOUS
  <2> DEFINE c == store.checkpoint
             d == store'.checkpoint
             s == HistoryOf(c)
             t == d.history
  <2>1. /\ c \in Checkpoints /\ WellFormed(s) /\ Faithful(s, fate)
        /\ d \in Checkpoints /\ WellFormed(HistoryOf(d))
        /\ fate \in [Activities -> Results \cup {None}]
        /\ grants \in [Places -> Seq(Permits)]
    BY DEF IInv, TypeInv, HistoryInv
  <2>2. /\ CountIn(Any) = CountedIn(c, Any) /\ CountIn(Any)' = CountedIn(d, Any)
        /\ CountIn(Disclosed) = CountedIn(c, Disclosed)
        /\ CountIn(Disclosed)' = CountedIn(d, Disclosed)
        /\ CountIn(Kept) = CountedIn(c, Kept) /\ CountIn(Kept)' = CountedIn(d, Kept)
    BY DEF CountIn, CountedIn, Any, Disclosed, Kept
  <2>3. CASE UNCHANGED <<store, grants>>
    BY <2>3 DEF Contract!vars, CountIn
  <2>4. CASE \E g, p : /\ Successor(c, d, g, fate) /\ p \in {g, None} /\ Grant(p)
    <3>1. PICK g, p : Successor(c, d, g, fate) /\ p \in {g, None} /\ Grant(p)
      BY <2>4
    <3>2. /\ c.kind # "terminal" /\ d.kind \in {"active", "terminal"}
          /\ d.kind = "active" => Continues(s, t, g, fate) /\ Writes(s, t, g)
          /\ d.kind = "terminal" => d.count = Len(s) /\ g = None /\ Finishes(s)
      BY <2>1, <3>1, SuccessorContinues DEF Successor
    <3>3. /\ CountIn(Any) = Len(s) /\ CountIn(Disclosed) = ExposedCount(s)
          /\ CountIn(Kept) = RecordedCount(s)
      BY <2>1, <2>2, <3>2, CountsOfCheckpoint
    <3>4. CASE d.kind = "active"
      <4>1. HistoryOf(d) = t
        BY <3>4 DEF HistoryOf
      <4>2. /\ CountIn(Any)' = Len(t) /\ CountIn(Disclosed)' = ExposedCount(t)
            /\ CountIn(Kept)' = RecordedCount(t)
        BY <2>1, <2>2, <3>4, <4>1, CountsOfCheckpoint
      <4>3. p # None => p = g /\ p \in Permits /\ p.seq = Len(t)
        BY <3>1, <3>2, <3>4 DEF Continues, Names
      <4>4. Issued' = Issued \/ (g # None /\ Issued' = Issued \cup {Len(t)})
        BY <2>1, <3>1, <4>3, GrantIssues
      <4>5. PICK r \in BOOLEAN, b \in BOOLEAN, e \in BOOLEAN : WritesBy(s, t, g, r, b, e)
        BY <3>2, <3>4 DEF Writes
      <4>6. Contract!Write(r, b, e)
        BY <3>2, <3>3, <3>4, <4>2, <4>4, <4>5
           DEF Contract!Write, Contract!Record, WritesBy, Any, Disclosed, Kept, Issued
      <4> QED
        BY <4>6 DEF Contract!Next
    <3>5. CASE d.kind = "terminal"
      <4>1. /\ CountIn(Any)' = Len(s) /\ CountIn(Disclosed)' = Len(s)
            /\ CountIn(Kept)' = Len(s)
        BY <2>1, <2>2, <3>2, <3>5, CountsOfCheckpoint
      <4>2. Issued' = Issued
        BY <2>1, <3>1, <3>2, <3>5, GrantIssues
      <4>3. PICK r \in BOOLEAN : FinishesBy(s, r)
        BY <3>2, <3>5 DEF Finishes
      <4>4. Contract!Finish(r)
        BY <3>2, <3>3, <3>5, <4>1, <4>2, <4>3
           DEF Contract!Finish, Contract!Record, FinishesBy, Any, Disclosed, Kept, Issued
      <4> QED
        BY <4>4 DEF Contract!Next
    <3> QED
      BY <3>2, <3>4, <3>5
  <2> QED
    BY <2>3, <2>4, StoreStep
<1> QED
  BY <1>1, <1>2, IInvHolds, PTL DEF Spec, ImplementsContract, Contract!Spec

-----------------------------------------------------------------------------
(***************************************************************************)
(* The capacity reserved before an effect is exposed is there when its     *)
(* result comes.  The size of a history is a sum over its records; what    *)
(* the proof needs of it is that replacing the last record changes the sum *)
(* by the difference of that record alone, which follows from the least    *)
(* place where two sums could differ.                                      *)
(***************************************************************************)

\* f is the sum that HistoryBytes takes over s.
Sums(s, f) ==
    f = [n \in 0 .. Len(s) |-> IF n = 0 THEN 0 ELSE f[n - 1] + RecordBytes(s[n])]

Sized(s) == s \in Seq(Records) /\ \A i \in 1 .. Len(s) : RecordBytes(s[i]) \in Nat

\* A set of naturals that is not empty has a least element.
LEMMA LeastOf ==
    ASSUME NEW T \in SUBSET Nat, T # {}
    PROVE  \E x \in T : \A y \in T : x <= y
<1>1. PICK x \in T : \A y \in T : ~ (<<y, x>> \in OpToRel(<, Nat))
  BY NatLessThanWellFounded, WFMin
<1>2. \A y \in T : ~(y < x)
  BY <1>1 DEF OpToRel
<1> QED
  BY <1>2

\* The sum of a history exists.
LEMMA SumExists ==
    ASSUME NEW s, Sized(s)
    PROVE  \E f : Sums(s, f)
<1> DEFINE Upto(n, f) == /\ f \in [0 .. n -> Nat] /\ f[0] = 0
                         /\ \A i \in 1 .. n : f[i] = f[i - 1] + RecordBytes(s[i])
           T == {n \in 0 .. Len(s) : ~ \E f : Upto(n, f)}
<1> HIDE DEF Upto
<1>1. Len(s) \in Nat
  BY LenProperties DEF Sized
<1>2. T = {}
  <2> SUFFICES ASSUME T # {} PROVE FALSE
    OBVIOUS
  <2>1. T \in SUBSET Nat
    BY <1>1
  <2>2. PICK n \in T : \A m \in T : n <= m
    <3> HIDE DEF T
    <3> QED
      BY <2>1, LeastOf
  <2>3. n \in 0 .. Len(s) /\ n \in Nat /\ ~ \E f : Upto(n, f)
    BY <1>1, <2>2
  <2>4. n # 0
    <3> DEFINE z == [i \in 0 .. 0 |-> 0]
    <3>1. Upto(0, z)
      BY DEF Upto
    <3> HIDE DEF z
    <3> QED
      BY <2>3, <3>1
  <2>5. n - 1 \in 0 .. Len(s) /\ n - 1 \in Nat
    BY <1>1, <2>3, <2>4
  <2>6. n - 1 \notin T
    <3> HIDE DEF T
    <3> QED
      BY <2>2, <2>3, <2>5
  <2>7. PICK f : Upto(n - 1, f)
    BY <2>5, <2>6
  <2> DEFINE w == RecordBytes(s[n])
             g == [i \in 0 .. n |-> IF i = n THEN f[n - 1] + w ELSE f[i]]
  <2>8. w \in Nat
    BY <1>1, <2>3, <2>4 DEF Sized
  <2>9. f \in [0 .. (n - 1) -> Nat] /\ f[0] = 0
        /\ \A i \in 1 .. (n - 1) : f[i] = f[i - 1] + RecordBytes(s[i])
    BY <2>7 DEF Upto
  <2> HIDE DEF w
  <2>10. g \in [0 .. n -> Nat]
    <3>1. ASSUME NEW i \in 0 .. n PROVE g[i] \in Nat
      <4>1. CASE i = n
        BY <2>3, <2>5, <2>8, <2>9, <4>1
      <4>2. CASE i # n
        BY <2>3, <2>9, <4>2
      <4> QED
        BY <4>1, <4>2
    <3> QED
      BY <3>1
  <2>11. g[0] = 0
    BY <2>3, <2>4, <2>9
  <2>12. ASSUME NEW i \in 1 .. n
         PROVE  g[i] = g[i - 1] + RecordBytes(s[i])
    <3>1. CASE i = n
      BY <2>3, <2>4, <3>1 DEF w
    <3>2. CASE i # n
      <4>1. i \in 1 .. (n - 1) /\ i \in 0 .. n /\ i - 1 \in 0 .. n /\ i - 1 # n
        BY <2>3, <3>2
      <4> QED
        BY <2>9, <3>2, <4>1
    <3> QED
      BY <3>1, <3>2
  <2>13. Upto(n, g)
    <3> HIDE DEF g
    <3> QED
      BY <2>10, <2>11, <2>12 DEF Upto
  <2> HIDE DEF g
  <2> QED
    BY <2>3, <2>13
<1>3. Len(s) \notin T
  BY <1>2
<1>4. PICK f : Upto(Len(s), f)
  BY <1>1, <1>3
<1>5. Sums(s, f)
  <2>1. f = [n \in 0 .. Len(s) |-> f[n]]
    BY <1>4 DEF Upto
  <2>2. ASSUME NEW n \in 0 .. Len(s)
        PROVE  f[n] = IF n = 0 THEN 0 ELSE f[n - 1] + RecordBytes(s[n])
    BY <1>1, <1>4 DEF Upto
  <2> QED
    BY <2>1, <2>2 DEF Sums
<1> QED
  BY <1>5

\* HistoryBytes is such a sum.
LEMMA HistoryBytesIsSum ==
    ASSUME NEW s, Sized(s)
    PROVE  \E f : Sums(s, f) /\ HistoryBytes(s) = f[Len(s)]
<1> DEFINE g == CHOOSE g : g = [n \in 0 .. Len(s) |->
                                 IF n = 0 THEN 0 ELSE g[n - 1] + RecordBytes(s[n])]
<1>1. PICK f : Sums(s, f)
  BY SumExists
<1>2. f = [n \in 0 .. Len(s) |-> IF n = 0 THEN 0 ELSE f[n - 1] + RecordBytes(s[n])]
  BY <1>1 DEF Sums
<1>3. g = [n \in 0 .. Len(s) |-> IF n = 0 THEN 0 ELSE g[n - 1] + RecordBytes(s[n])]
  BY <1>2
<1>4. HistoryBytes(s) = g[Len(s)]
  BY DEF HistoryBytes
<1> HIDE DEF g
<1>5. Sums(s, g)
  BY <1>3 DEF Sums
<1> QED
  BY <1>4, <1>5

\* Two sums agree, and are natural, as far as the histories agree.
LEMMA SumsAgree ==
    ASSUME NEW s, NEW t, Sized(s), Sized(t), NEW f, NEW g, Sums(s, f), Sums(t, g),
           NEW k \in Nat, k <= Len(s), k <= Len(t), \A i \in 1 .. k : s[i] = t[i]
    PROVE  f[k] \in Nat /\ f[k] = g[k]
<1> DEFINE T == {n \in 0 .. k : ~(f[n] \in Nat /\ f[n] = g[n])}
<1>1. Len(s) \in Nat /\ Len(t) \in Nat
  BY LenProperties DEF Sized
<1>2. \A n \in 0 .. Len(s) : f[n] = IF n = 0 THEN 0 ELSE f[n - 1] + RecordBytes(s[n])
  BY DEF Sums
<1>3. \A n \in 0 .. Len(t) : g[n] = IF n = 0 THEN 0 ELSE g[n - 1] + RecordBytes(t[n])
  BY DEF Sums
<1>4. T = {}
  <2> SUFFICES ASSUME T # {} PROVE FALSE
    OBVIOUS
  <2>1. T \in SUBSET Nat
    OBVIOUS
  <2>2. PICK n \in T : \A m \in T : n <= m
    <3> HIDE DEF T
    <3> QED
      BY <2>1, LeastOf
  <2>3. n \in 0 .. k /\ n \in Nat /\ ~(f[n] \in Nat /\ f[n] = g[n])
    BY <2>2
  <2>4. n # 0
    <3>1. f[0] = 0 /\ g[0] = 0
      BY <1>1, <1>2, <1>3
    <3> QED
      BY <2>3, <3>1
  <2>5. n - 1 \in 0 .. k /\ n - 1 \notin T
    BY <2>1, <2>2, <2>3, <2>4
  <2>6. f[n - 1] \in Nat /\ f[n - 1] = g[n - 1]
    BY <2>5
  <2>7. n \in 1 .. k /\ n \in 1 .. Len(s) /\ n \in 0 .. Len(s) /\ n \in 0 .. Len(t)
    BY <1>1, <2>3, <2>4
  <2>8. f[n] = f[n - 1] + RecordBytes(s[n]) /\ g[n] = g[n - 1] + RecordBytes(t[n])
    BY <1>2, <1>3, <2>4, <2>7
  <2>9. s[n] = t[n] /\ RecordBytes(s[n]) \in Nat
    BY <2>7 DEF Sized
  <2> QED
    BY <2>3, <2>6, <2>8, <2>9
<1>5. k \in 0 .. k
  OBVIOUS
<1> QED
  BY <1>4, <1>5

\* Records of a well-formed history have a size.
LEMMA RecordBytesType ==
    ASSUME NEW r \in Records, r.status = "completed" => r.result \in Results
    PROVE  RecordBytes(r) \in Nat
<1>1. CASE r.status = "completed"
  <2>1. ResultBytes[r.result] \in Nat
    BY <1>1, SizesAreNatural
  <2> QED
    BY <1>1, <2>1, SizesAreNatural DEF RecordBytes
<1>2. CASE r.status = "scheduled"
  BY <1>2, SizesAreNatural DEF RecordBytes
<1>3. CASE r.status = "exposed"
  BY <1>3, SizesAreNatural DEF RecordBytes
<1> QED
  BY <1>1, <1>2, <1>3 DEF Records

LEMMA WellFormedIsSized ==
    ASSUME NEW s, WellFormed(s)
    PROVE  Sized(s)
<1>1. ASSUME NEW i \in 1 .. Len(s)
      PROVE  RecordBytes(s[i]) \in Nat
  <2>1. s[i] \in Records /\ (s[i].status = "completed" => s[i].result \in Results)
    BY ElementOfSeq DEF WellFormed
  <2> QED
    BY <2>1, RecordBytesType
<1> QED
  BY <1>1 DEF Sized, WellFormed

\* Replacing the last record changes the size by the difference of the two.
LEMMA HistoryBytesOfLast ==
    ASSUME NEW s, WellFormed(s), s # << >>, NEW t, WellFormed(t), Len(t) = Len(s),
           \A i \in 1 .. Len(s) : i # Len(s) => t[i] = s[i]
    PROVE  /\ HistoryBytes(s) \in Nat /\ HistoryBytes(t) \in Nat
           /\ RecordBytes(s[Len(s)]) \in Nat /\ RecordBytes(t[Len(s)]) \in Nat
           /\ HistoryBytes(t) - RecordBytes(t[Len(s)]) =
                 HistoryBytes(s) - RecordBytes(s[Len(s)])
<1> DEFINE n == Len(s)
<1>1. n \in Nat /\ n > 0
  BY LenProperties, EmptySeq DEF WellFormed
<1>2. Sized(s) /\ Sized(t)
  BY WellFormedIsSized
<1>3. PICK f : Sums(s, f) /\ HistoryBytes(s) = f[n]
  BY <1>2, HistoryBytesIsSum
<1>4. PICK g : Sums(t, g) /\ HistoryBytes(t) = g[n]
  BY <1>2, HistoryBytesIsSum
<1>5. RecordBytes(s[n]) \in Nat /\ RecordBytes(t[n]) \in Nat
  BY <1>1, <1>2 DEF Sized
<1>6. f[n - 1] \in Nat /\ f[n - 1] = g[n - 1]
  <2>1. n - 1 \in Nat /\ n - 1 <= Len(s) /\ n - 1 <= Len(t)
    BY <1>1
  <2>2. \A i \in 1 .. (n - 1) : s[i] = t[i]
    BY <1>1
  <2> QED
    BY <1>2, <1>3, <1>4, <2>1, <2>2, SumsAgree, SMTT(60)
<1>7. f[n] = f[n - 1] + RecordBytes(s[n])
  BY <1>1, <1>3 DEF Sums
<1>8. g[n] = g[n - 1] + RecordBytes(t[n])
  BY <1>1, <1>4 DEF Sums
<1> QED
  BY <1>3, <1>4, <1>5, <1>6, <1>7, <1>8

----------------------------------------------------------------------------
(* The reservation.                                                        *)

\* The build that exposed the last activity of c found c valid and had room
\* for a result of the declared size.
Reserved(c) ==
    IsExposed(c) =>
        LET b == LastRecord(c).attempt.build
        IN  /\ b \in Builds
            /\ Valid(c, b)
            /\ MaxCompletedBytes(c) <= Limits[b].bytes

ReserveInv ==
    /\ Reserved(store.checkpoint)
    /\ \A h \in Hosts : request[h] # None => Reserved(request[h].checkpoint)
    /\ \A r \in late : Reserved(r.checkpoint)

\* prepare_exposure reserves.
LEMMA ExposeReserves ==
    ASSUME TypeInv, NEW h \in Hosts, NEW c \in Actives, WellFormed(c.history),
           c.history # << >>, LastRecord(c).status = "scheduled", Expose(h, c).swap
    PROVE  Reserved(Expose(h, c).checkpoint)
<1> DEFINE s == c.history
           last == LastRecord(c)
           a == NextAttempt(h)
           b == host[h].build
           r == Record(last.spec, "exposed", a, None)
           d == WithFinal(c, r)
           t == d.history
<1>1. s \in Seq(Records) /\ last = s[Len(s)] /\ last \in Records /\ Len(s) \in Nat /\ Len(s) > 0
  BY ReplaceLast DEF Actives, LastRecord
<1>2. b \in Builds /\ a \in Attempts /\ a.build = b
  BY AttemptType DEF NextAttempt
<1>3. r \in Records /\ r.spec = last.spec /\ r.status = "exposed" /\ r.attempt = a
  BY <1>1, <1>2 DEF Record, Records
<1>4. /\ MaxCompletedBytes(c) <= Limits[b].bytes /\ Valid(d, b)
      /\ Expose(h, c).checkpoint = d
  BY DEF Expose, NoSwap, Swap
<1> HIDE DEF r
<1>5. d \in Actives /\ t = [s EXCEPT ![Len(s)] = r]
  BY <1>3, WithFinalHistory
<1>6. /\ t \in Seq(Records) /\ Len(t) = Len(s) /\ t[Len(s)] = r
      /\ \A i \in 1 .. Len(s) : i # Len(s) => t[i] = s[i]
  BY <1>1, <1>3, <1>5, ReplaceLast
<1> HIDE DEF d
<1>7. WellFormed(t)
  BY <1>1, <1>3, <1>6 DEF WellFormed
<1>8. LastRecord(d) = r
  BY <1>6 DEF LastRecord
<1>9. MaxCompletedBytes(d) = MaxCompletedBytes(c)
  <2>1. /\ HistoryBytes(s) \in Nat /\ HistoryBytes(t) \in Nat
        /\ RecordBytes(s[Len(s)]) \in Nat /\ RecordBytes(t[Len(s)]) \in Nat
        /\ HistoryBytes(t) - RecordBytes(t[Len(s)]) = HistoryBytes(s) - RecordBytes(s[Len(s)])
    BY <1>6, <1>7, HistoryBytesOfLast
  <2>2. /\ MaxCompletedBytes(c) = HistoryBytes(s) - RecordBytes(s[Len(s)])
                                    + CompletedBytes + MaxResult[last.spec]
        /\ MaxCompletedBytes(d) = HistoryBytes(t) - RecordBytes(t[Len(s)])
                                    + CompletedBytes + MaxResult[last.spec]
    BY <1>1, <1>3, <1>6, <1>8 DEF MaxCompletedBytes
  <2> QED
    BY <2>1, <2>2
<1> QED
  BY <1>2, <1>3, <1>4, <1>8, <1>9 DEF Reserved

\* A checkpoint whose last record is not exposed needs no reservation.
LEMMA UnexposedIsReserved ==
    ASSUME NEW c, c.kind = "active" => c.history[Len(c.history)].status # "exposed"
    PROVE  Reserved(c)
  BY DEF Reserved, IsExposed, LastRecord

LEMMA ProgressReserves ==
    ASSUME TypeInv, NEW h \in Hosts, NEW c \in Checkpoints, c.kind # "terminal",
           NEW f, WellFormed(HistoryOf(c)), Faithful(HistoryOf(c), f), ~IsExposed(c),
           NEW fused \in BOOLEAN, Progress(h, c, fused).swap
    PROVE  Reserved(Progress(h, c, fused).checkpoint)
<1> DEFINE plan == Progress(h, c, fused)
           b == host[h].build
           e == Evaluate(b, c)
           s == HistoryOf(c)
           d == e.checkpoint
<1>1. b \in Builds
  BY AttemptType
<1>2. /\ e.kind = "scheduled" => d \in Actives /\ Schedules(s, d.history)
      /\ e.kind = "pending" =>
            d \in Actives /\ d.history = s /\ s # << >> /\ s[Len(s)].status # "completed"
      /\ e.kind = "complete" => d \in Terminals
  BY <1>1, EvaluateProposes
<1>3. plan = CASE e.kind = "scheduled" -> IF fused THEN Expose(h, d) ELSE Swap(d, None)
               [] e.kind = "pending"  -> Expose(h, d)
               [] e.kind = "complete" -> Complete(h, d)
               [] OTHER               -> NoSwap
  BY DEF Progress
<1> HIDE DEF plan, e, s
<1>4. CASE e.kind = "scheduled"
  <2>1. /\ d \in Actives /\ WellFormed(d.history) /\ d.history # << >>
        /\ d.history[Len(d.history)].status = "scheduled"
    BY <1>2, <1>4, SchedulesKeeps DEF s
  <2>2. LastRecord(d).status = "scheduled"
    BY <2>1 DEF LastRecord
  <2>3. CASE fused
    <3>1. plan = Expose(h, d) /\ Expose(h, d).swap
      BY <1>3, <1>4, <2>3 DEF plan
    <3> QED
      BY <2>1, <2>2, <3>1, ExposeReserves DEF plan
  <2>4. CASE ~fused
    <3>1. plan.checkpoint = d
      BY <1>3, <1>4, <2>4 DEF Swap
    <3> QED
      BY <2>1, <3>1, UnexposedIsReserved DEF plan
  <2> QED
    BY <2>3, <2>4
<1>5. CASE e.kind = "pending"
  <2>1. /\ d \in Actives /\ d.history = s /\ s # << >> /\ s[Len(s)].status # "completed"
        /\ WellFormed(d.history)
    BY <1>2, <1>5 DEF s
  <2>2. s \in Seq(Records) /\ s[Len(s)] \in Records
    BY <2>1, ReplaceLast DEF Actives
  <2>3. s[Len(s)].status # "exposed"
    <3>1. c.kind = "active" /\ c.history = s
      BY <2>1 DEF s, HistoryOf
    <3> QED
      BY <2>1, <3>1 DEF IsExposed, LastRecord
  <2>4. LastRecord(d).status = "scheduled"
    BY <2>1, <2>2, <2>3 DEF Records, LastRecord
  <2>5. plan = Expose(h, d) /\ Expose(h, d).swap
    BY <1>3, <1>5 DEF plan
  <2> QED
    BY <2>1, <2>4, <2>5, ExposeReserves DEF plan
<1>6. CASE e.kind = "complete"
  <2>1. plan = Complete(h, d) /\ plan.swap
    BY <1>3, <1>6 DEF plan
  <2>2. plan.checkpoint = d /\ d.kind = "terminal"
    BY <1>2, <1>6, <2>1 DEF Complete, Swap, NoSwap, Terminals
  <2> QED
    BY <2>2, UnexposedIsReserved DEF plan
<1>7. CASE e.kind \notin {"scheduled", "pending", "complete"}
  <2>1. plan = NoSwap /\ plan.swap
    BY <1>3, <1>7 DEF plan
  <2> QED
    BY <2>1 DEF NoSwap
<1> QED
  BY <1>4, <1>5, <1>6, <1>7

LEMMA TurnReserves ==
    ASSUME TypeInv, HistoryInv, NEW h \in Hosts, NEW fused \in BOOLEAN,
           TurnPlan(h, fused).swap
    PROVE  Reserved(TurnPlan(h, fused).checkpoint)
<1> DEFINE c == store.checkpoint
<1>1. c \in Checkpoints /\ WellFormed(HistoryOf(c)) /\ Faithful(HistoryOf(c), fate)
  BY DEF TypeInv, HistoryInv
<1>2. /\ c.kind # "terminal" /\ ~IsExposed(c)
      /\ TurnPlan(h, fused) = Progress(h, c, fused)
  BY DEF TurnPlan, NoSwap
<1> QED
  BY <1>1, <1>2, ProgressReserves

LEMMA ObserveReserves ==
    ASSUME TypeInv, HistoryInv, NEW h \in Hosts, NEW fused \in BOOLEAN,
           NEW a \in Activities, fate[a] # None,
           ObservePlan(h, a, fate[a], fused).swap
    PROVE  Reserved(ObservePlan(h, a, fate[a], fused).checkpoint)
<1> DEFINE c == store.checkpoint
           s == HistoryOf(c)
           r == Record(a.spec, "completed", None, fate[a])
           d == WithFinal(c, r)
           plan == ObservePlan(h, a, fate[a], fused)
<1>1. c \in Checkpoints /\ WellFormed(s) /\ Faithful(s, fate)
  BY DEF TypeInv, HistoryInv
<1>2. fate \in [Activities -> Results \cup {None}] /\ fate[a] \in Results
  BY DEF TypeInv
<1>3. /\ IsExposed(c) /\ a = [seq |-> Len(c.history), spec |-> LastRecord(c).spec]
      /\ plan = IF fused THEN Progress(h, d, TRUE) ELSE Swap(d, None)
  BY DEF ObservePlan, NoSwap
<1>4. /\ c \in Actives /\ c.kind = "active" /\ s = c.history /\ s # << >>
      /\ s[Len(s)].status = "exposed" /\ a = [seq |-> Len(s), spec |-> s[Len(s)].spec]
  BY <1>1, <1>3 DEF IsExposed, LastRecord, HistoryOf, Checkpoints, Absent, Terminals
<1>5. s \in Seq(Records) /\ s[Len(s)] \in Records
  BY <1>4, ReplaceLast DEF Actives
<1>6. r \in Records
  BY <1>2, <1>4, <1>5 DEF Record, Records
<1>7. d \in Actives /\ d.kind = "active" /\ d.history = [s EXCEPT ![Len(s)] = r]
  <2> HIDE DEF r
  <2> QED
    BY <1>4, <1>6, WithFinalHistory DEF Actives
<1>8. RecordsResult(s, d.history, fate)
  <2> HIDE DEF d
  <2> QED
    BY <1>2, <1>4, <1>7 DEF RecordsResult
<1> HIDE DEF d, s, plan
<1>9. /\ WellFormed(d.history) /\ Faithful(d.history, fate) /\ Settled(d.history)
      /\ Len(d.history) \in Nat /\ Len(d.history) > 0
  BY <1>1, <1>2, <1>8, RecordsResultKeeps
<1>10. d \in Checkpoints /\ HistoryOf(d) = d.history
  BY <1>7 DEF Checkpoints, HistoryOf
<1>11. d.history[Len(d.history)].status = "completed"
  BY <1>9 DEF Settled
<1>12. ~IsExposed(d)
  BY <1>11 DEF IsExposed, LastRecord
<1>13. CASE fused
  <2>1. plan = Progress(h, d, TRUE) /\ Progress(h, d, TRUE).swap
    BY <1>3, <1>13 DEF plan
  <2> QED
    BY <1>7, <1>9, <1>10, <1>12, <2>1, ProgressReserves DEF plan
<1>14. CASE ~fused
  <2>1. plan.checkpoint = d
    BY <1>3, <1>14 DEF Swap
  <2> QED
    BY <1>11, <2>1, UnexposedIsReserved DEF plan
<1> QED
  BY <1>13, <1>14

\* Everything stored or on its way is reserved.
LEMMA NextReserves ==
    ASSUME IInv, ReserveInv, [Next]_vars
    PROVE  ReserveInv'
<1>1. request \in [Hosts -> Requests \cup {None}]
  BY DEF IInv, TypeInv
<1>2. ASSUME NEW h \in Hosts, NEW plan, Send(h, plan), Reserved(plan.checkpoint)
      PROVE  ReserveInv'
  <2>1. /\ request' = [request EXCEPT ![h] =
                [expected |-> store.rev, checkpoint |-> plan.checkpoint, grant |-> plan.grant]]
        /\ UNCHANGED <<store, late>>
    BY <1>2 DEF Send
  <2>2. \A k \in Hosts : IF k = h THEN request'[k].checkpoint = plan.checkpoint
                                  ELSE request'[k] = request[k]
    BY <1>1, <2>1
  <2> QED
    BY <1>2, <2>1, <2>2 DEF ReserveInv
<1>3. ASSUME NEW h \in Hosts, HostStep(h)
      PROVE  ReserveInv'
  <2>1. ASSUME NEW fused \in BOOLEAN, Turn(h, fused)
        PROVE  ReserveInv'
    <3>1. Send(h, TurnPlan(h, fused)) /\ TurnPlan(h, fused).swap
      BY <2>1 DEF Turn, Send
    <3>2. Reserved(TurnPlan(h, fused).checkpoint)
      BY <3>1, TurnReserves DEF IInv
    <3> QED
      BY <1>2, <3>1, <3>2
  <2>2. ASSUME NEW a \in Activities, NEW fused \in BOOLEAN, Observe(h, a, fused)
        PROVE  ReserveInv'
    <3>1. /\ fate[a] # None /\ Send(h, ObservePlan(h, a, fate[a], fused))
          /\ ObservePlan(h, a, fate[a], fused).swap
      BY <2>2 DEF Observe, Send
    <3>2. Reserved(ObservePlan(h, a, fate[a], fused).checkpoint)
      BY <3>1, ObserveReserves DEF IInv
    <3> QED
      BY <1>2, <3>1, <3>2
  <2> QED
    BY <1>3, <2>1, <2>2 DEF HostStep
<1>4. ASSUME NEW h \in Hosts,
             Reply(h) \/ LoseReply(h) \/ FailBeforeRequest(h) \/ Crash(h)
      PROVE  ReserveInv'
  <2>1. /\ \A k \in Hosts : request'[k] = request[k] \/ request'[k] = None
        /\ late' = late \/ (request[h] # None /\ late' = late \cup {request[h]})
    BY <1>1, <1>4 DEF Reply, LoseReply, FailBeforeRequest, Crash
  <2>2. \/ store'.checkpoint = store.checkpoint
        \/ request[h] # None /\ store'.checkpoint = request[h].checkpoint
    BY <1>4 DEF Reply, LoseReply, FailBeforeRequest, Crash, Serve
  <2> QED
    BY <2>1, <2>2 DEF ReserveInv
<1>5. ASSUME NEW r \in late, LateArrival(r) \/ LateLoss(r)
      PROVE  ReserveInv'
  <2>1. /\ UNCHANGED request /\ late' \subseteq late
        /\ store'.checkpoint = store.checkpoint \/ store'.checkpoint = r.checkpoint
    BY <1>5 DEF LateArrival, LateLoss, Serve
  <2> QED
    BY <2>1 DEF ReserveInv
<1>6. ASSUME UNCHANGED <<store, request, late>>
      PROVE  ReserveInv'
  BY <1>6 DEF ReserveInv
<1>7. CASE \E result \in Results : Fence(result) \/ \E h \in Hosts : Dispatch(h, result)
  BY <1>6, <1>7 DEF Fence, Dispatch
<1>8. CASE UNCHANGED vars
  BY <1>6, <1>8 DEF vars
<1> QED
  BY <1>3, <1>4, <1>5, <1>7, <1>8 DEF Next

\* What is reserved takes every result within its declaration.
LEMMA ReservedFits ==
    ASSUME NEW c \in Checkpoints, WellFormed(HistoryOf(c)), IsExposed(c), Reserved(c),
           NEW b \in Builds, Limits[b].bytes >= Limits[LastRecord(c).attempt.build].bytes,
           Limits[b].records >= Limits[LastRecord(c).attempt.build].records
    PROVE  ResultFits(c, b)
<1> DEFINE s == c.history
           last == LastRecord(c)
           x == last.attempt.build
<1>1. c \in Actives /\ c.kind = "active" /\ s # << >> /\ WellFormed(s) /\ last.status = "exposed"
  BY DEF IsExposed, HistoryOf, Checkpoints, Absent, Terminals
<1>2. /\ s \in Seq(Records) /\ last = s[Len(s)] /\ last \in Records
      /\ Len(s) \in Nat /\ Len(s) > 0 /\ last.spec \in Specs
  <2>1. /\ s \in Seq(Records) /\ last = s[Len(s)] /\ last \in Records
        /\ Len(s) \in Nat /\ Len(s) > 0
    BY <1>1, ReplaceLast DEF Actives, LastRecord
  <2> QED
    BY <2>1 DEF Records
<1>3. x \in Builds /\ Valid(c, x) /\ MaxCompletedBytes(c) <= Limits[x].bytes
  BY DEF Reserved
<1>4. /\ Limits[x].bytes \in Nat /\ Limits[b].bytes \in Nat /\ MaxResult[last.spec] \in Nat
      /\ Limits[x].records \in Nat /\ Limits[b].records \in Nat /\ CompletedBytes \in Nat
  BY <1>2, <1>3, SizesAreNatural
<1>5. ASSUME NEW result \in Results, ResultBytes[result] <= MaxResult[last.spec]
      PROVE  Valid(WithFinal(c, Record(last.spec, "completed", None, result)), b)
  <2> DEFINE r == Record(last.spec, "completed", None, result)
             d == WithFinal(c, r)
             t == d.history
  <2>1. r \in Records /\ r.status = "completed" /\ r.result = result /\ r.spec = last.spec
    BY <1>2 DEF Record, Records
  <2> HIDE DEF r
  <2>2. /\ d \in Actives /\ t = [s EXCEPT ![Len(s)] = r]
        /\ d.admitted = c.admitted /\ d.kind = "active"
    <3>1. d \in Actives /\ t = [s EXCEPT ![Len(s)] = r]
      BY <1>1, <2>1, WithFinalHistory
    <3>2. d.admitted = c.admitted /\ d.kind = "active"
      BY <1>1 DEF WithFinal, Actives
    <3> QED
      BY <3>1, <3>2
  <2> HIDE DEF d
  <2>3. /\ t \in Seq(Records) /\ Len(t) = Len(s) /\ t[Len(s)] = r /\ DOMAIN t = 1 .. Len(s)
        /\ \A i \in 1 .. Len(s) : i # Len(s) => t[i] = s[i]
    BY <1>1, <1>2, <2>1, <2>2, ReplaceLast, LenProperties
  <2>4. WellFormed(t)
    BY <1>1, <1>2, <2>1, <2>3 DEF WellFormed
  <2>5. /\ HistoryBytes(s) \in Nat /\ HistoryBytes(t) \in Nat
        /\ RecordBytes(s[Len(s)]) \in Nat /\ RecordBytes(t[Len(s)]) \in Nat
        /\ HistoryBytes(t) - RecordBytes(t[Len(s)]) = HistoryBytes(s) - RecordBytes(s[Len(s)])
    BY <1>1, <2>3, <2>4, HistoryBytesOfLast
  <2>6. RecordBytes(t[Len(s)]) = CompletedBytes + ResultBytes[result]
    BY <2>1, <2>3 DEF RecordBytes
  <2>7. MaxCompletedBytes(c) = HistoryBytes(s) - RecordBytes(s[Len(s)])
                                 + CompletedBytes + MaxResult[last.spec]
    BY <1>2 DEF MaxCompletedBytes
  <2>8. ResultBytes[result] \in Nat
    BY SizesAreNatural
  <2>9. HistoryBytes(t) <= Limits[b].bytes
    <3> DEFINE before == HistoryBytes(s) - RecordBytes(s[Len(s)])
    <3>1. before \in Int
      BY <2>5
    <3>2. HistoryBytes(t) = before + CompletedBytes + ResultBytes[result]
      BY <1>4, <2>5, <2>6, <2>8
    <3>3. before + CompletedBytes + MaxResult[last.spec] <= Limits[x].bytes
      BY <1>3, <2>7
    <3> HIDE DEF before
    <3> QED
      BY <1>4, <1>5, <2>8, <3>1, <3>2, <3>3
  <2>10. EncodedBytes(d) <= Limits[b].bytes
    BY <2>2, <2>9 DEF EncodedBytes
  <2>11. ValidHistory(t)
    <3>1. DOMAIN s = 1 .. Len(s) /\ ValidHistory(s)
      BY <1>1, <1>2, <1>3, LenProperties DEF Valid
    <3>2. ASSUME NEW i \in 1 .. Len(s)
          PROVE  IF t[i].status = "completed"
                 THEN ResultBytes[t[i].result] <= MaxResult[t[i].spec]
                 ELSE i = Len(t)
      <4>1. CASE i = Len(s)
        BY <1>5, <2>1, <2>3, <4>1
      <4>2. CASE i # Len(s)
        <5>1. t[i] = s[i] /\ s[i].status = "completed"
          BY <1>1, <2>3, <4>2 DEF WellFormed
        <5> QED
          BY <3>1, <5>1 DEF ValidHistory
      <4> QED
        BY <4>1, <4>2
    <3> QED
      BY <2>3, <3>2 DEF ValidHistory
  <2>12. Len(t) <= Limits[b].records
    BY <1>1, <1>2, <1>3, <1>4, <2>3 DEF Valid
  <2>13. Limits[b].bytes >= d.admitted /\ MaxTerminalPayload <= d.admitted
    <3>1. c.admitted \in Nat /\ Limits[x].bytes >= c.admitted /\ MaxTerminalPayload <= c.admitted
      BY <1>1, <1>3 DEF Valid, Actives
    <3> QED
      BY <1>4, <2>2, <3>1
  <2> QED
    BY <2>2, <2>10, <2>11, <2>12, <2>13 DEF Valid, d, r
<1> QED
  BY <1>5 DEF ResultFits

\* The state is well typed, and a result within its declaration is never
\* refused for capacity by a host with the limits of the one that exposed it
\* (host.rs, prepare_exposure): whatever conflicts, crashes or is upgraded.
THEOREM ReservationIsKept == Spec => []Consistent
<1>1. Init => ReserveInv
  BY UnexposedIsReserved DEF Init, ReserveInv, Absent
<1>2. IInv /\ ReserveInv /\ [Next]_vars => ReserveInv'
  BY NextReserves
<1>3. IInv /\ ReserveInv => ExposedResultFits
  <2> SUFFICES ASSUME IInv, ReserveInv, IsExposed(store.checkpoint), NEW b \in Builds,
                      LET exposer == LastRecord(store.checkpoint).attempt.build
                      IN  /\ Limits[b].bytes >= Limits[exposer].bytes
                          /\ Limits[b].records >= Limits[exposer].records
               PROVE  ResultFits(store.checkpoint, b)
    BY DEF ExposedResultFits
  <2>1. /\ store.checkpoint \in Checkpoints /\ WellFormed(HistoryOf(store.checkpoint))
        /\ Reserved(store.checkpoint)
    BY DEF IInv, TypeInv, HistoryInv, ReserveInv
  <2> QED
    BY <2>1, ReservedFits
<1>4. TypeOK /\ ExposedResultFits => Consistent
  BY DEF Consistent
<1> QED
  BY <1>1, <1>2, <1>3, <1>4, IInvHolds, TypeCorrect, PTL DEF Spec
=============================================================================
