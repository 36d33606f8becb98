---------------------------- MODULE DurableHost ----------------------------
(***************************************************************************)
(* The durable execution kernel (durable-execution/src): hosts replay one  *)
(* execution's workflow against its checkpoint and advance it by           *)
(* compare-and-swap.  A turn is two steps with the store between them: a   *)
(* load, after which replay and the proposal are pure, and the swap, whose *)
(* reply may be lost while the request is applied, dropped or delayed.     *)
(* Hosts crash and restart under a new epoch, possibly with another build  *)
(* of the workflow and other limits.                                       *)
(*                                                                         *)
(* Abstractions: a byte count is a small number; the execution identity,   *)
(* its input and the checkpoint format are fixed, so that the checks on    *)
(* them are not modelled; an activity is its sequence number and its spec. *)
(***************************************************************************)
EXTENDS Naturals, Sequences, FiniteSets, FiniteSetsExt

CONSTANTS
    Hosts,              \* operator processes that hold a DurableHost
    Builds,             \* builds of the workflow a host may run
    FirstBuild,         \* the one every host starts with
    Limits,             \* CheckpointLimits of a build: [records, bytes]
    Specs,              \* activity specifications a workflow may request
    MaxResult,          \* declared max_result_bytes of a specification
    Results,            \* results an effect may have
    ResultBytes,        \* their sizes
    Outcomes,           \* terminal outcomes
    OutcomeBytes,       \* their sizes
    MaxTerminalPayload, \* max_terminal_payload_bytes of the execution
    Workflow(_, _),     \* what a build asks after these results: a spec,
                        \* an outcome, or Stall
    Stall, None,
    ScheduledBytes, ExposedBytes, CompletedBytes, \* record sizes, no result
    MaxCrashes, MaxLosses \* bounds on faults

ASSUME ConstantsAreDistinct ==
    /\ Specs \cap Outcomes = {}
    /\ Stall \notin Specs \cup Outcomes
    /\ None \notin Results

ASSUME SizesAreNatural ==
    /\ MaxResult \in [Specs -> Nat]
    /\ ResultBytes \in [Results -> Nat]
    /\ OutcomeBytes \in [Outcomes -> Nat]
    /\ ScheduledBytes \in Nat /\ ExposedBytes \in Nat /\ CompletedBytes \in Nat
    /\ Limits \in [Builds -> [records : Nat, bytes : Nat]]

ASSUME FirstBuildIsABuild == FirstBuild \in Builds

ASSUME BoundsAreNatural == MaxCrashes \in Nat /\ MaxLosses \in Nat

\* What a workflow does with the results of as many activities as its own
\* limits admit: it asks for another one, ends, or has nothing to ask.
ASSUME WorkflowAsks ==
    \A b \in Builds : \A n \in 0 .. Limits[b].records :
        \A results \in [1 .. n -> Results] :
            Workflow(b, results) \in Specs \cup Outcomes \cup {Stall}

VARIABLES
    store,      \* the checkpoint object: [rev, checkpoint]
    host,       \* per host: build, epoch, permit held
    request,    \* per host: the swap it is waiting for, or None
    late,       \* swaps whose sender gave up and that may still arrive
    fate,       \* per activity: what became of its effect outside
    grants,     \* history: the permits given for each sequence number
    faults      \* crashes and lost replies so far

vars == <<store, host, request, late, fate, grants, faults>>

Places == 1 .. Max({Limits[b].records : b \in Builds})

Activities == [seq : Places, spec : Specs]

----------------------------------------------------------------------------
(* Checkpoints *)

Absent == [kind |-> "absent"]

Active(admitted, history) ==
    [kind |-> "active", admitted |-> admitted, history |-> history]

Terminal(admitted, outcome, count) ==
    [kind |-> "terminal", admitted |-> admitted,
     outcome |-> outcome, count |-> count]

Record(spec, status, attempt, result) ==
    [spec |-> spec, status |-> status, attempt |-> attempt, result |-> result]

LastRecord(c) == c.history[Len(c.history)]

\* replace_final_record
WithFinal(c, r) == [c EXCEPT !.history[Len(c.history)] = r]

RecordBytes(r) ==
    CASE r.status = "scheduled" -> ScheduledBytes
      [] r.status = "exposed"   -> ExposedBytes
      [] r.status = "completed" -> CompletedBytes + ResultBytes[r.result]

HistoryBytes(h) ==
    LET sum[n \in 0 .. Len(h)] == IF n = 0 THEN 0 ELSE sum[n - 1] + RecordBytes(h[n])
    IN  sum[Len(h)]

EncodedBytes(c) ==
    IF c.kind = "active" THEN HistoryBytes(c.history) ELSE OutcomeBytes[c.outcome]

\* The encoded size of completing the final record at its declared maximum.
MaxCompletedBytes(c) ==
    HistoryBytes(c.history) - RecordBytes(LastRecord(c))
        + CompletedBytes + MaxResult[LastRecord(c).spec]

ValidHistory(h) ==
    \A i \in DOMAIN h :
        IF h[i].status = "completed"
        THEN ResultBytes[h[i].result] <= MaxResult[h[i].spec]
        ELSE i = Len(h)

\* validate_internal and the size check: what every loaded and every
\* proposed checkpoint must pass under the limits of the build in charge.
Valid(c, b) ==
    /\ Limits[b].bytes >= c.admitted
    /\ MaxTerminalPayload <= c.admitted
    /\ IF c.kind = "active"
       THEN Len(c.history) <= Limits[b].records /\ ValidHistory(c.history)
       ELSE OutcomeBytes[c.outcome] <= MaxTerminalPayload
    /\ EncodedBytes(c) <= Limits[b].bytes

----------------------------------------------------------------------------
(* Replay: evaluate polls the workflow once against the history *)

Asks(b, h, i) == Workflow(b, [j \in 1 .. i |-> h[j].result])

\* poll_activity: the workflow goes on past record i + 1 only if it asks for
\* that record's exact specification and the record is completed.
StopsAt(b, h, i) ==
    \/ i = Len(h)
    \/ Asks(b, h, i) # h[i + 1].spec
    \/ h[i + 1].status # "completed"

Cursor(b, h) == Min({i \in 0 .. Len(h) : StopsAt(b, h, i)})

Evaluation(kind, c) == [kind |-> kind, checkpoint |-> c]

EvaluateIgnoringTail(b, loaded) ==
    LET c      == IF loaded = Absent THEN Active(Limits[b].bytes, << >>) ELSE loaded
        cursor == Cursor(b, c.history)
        asked  == Asks(b, c.history, cursor)
        atEnd  == cursor = Len(c.history)
        scheduled == [c EXCEPT !.history =
                          Append(@, Record(asked, "scheduled", None, None))]
    IN  CASE ~Valid(c, b) -> Evaluation("rejected", c)
          [] Valid(c, b) /\ asked = Stall -> Evaluation("nondeterminism", c)
          [] Valid(c, b) /\ asked \in Specs /\ atEnd ->
                IF Valid(scheduled, b) THEN Evaluation("scheduled", scheduled)
                                       ELSE Evaluation("rejected", c)
          [] Valid(c, b) /\ asked \in Specs /\ ~atEnd ->
                IF c.history[cursor + 1].spec = asked
                THEN Evaluation("pending", c) ELSE Evaluation("nondeterminism", c)
          [] Valid(c, b) /\ asked \in Outcomes ->
                Evaluation("complete", Terminal(c.admitted, asked, cursor))

Evaluate(b, loaded) ==
    LET c      == IF loaded = Absent THEN Active(Limits[b].bytes, << >>) ELSE loaded
        cursor == Cursor(b, c.history)
        asked  == Asks(b, c.history, cursor)
        atEnd  == cursor = Len(c.history)
        scheduled == [c EXCEPT !.history =
                          Append(@, Record(asked, "scheduled", None, None))]
    IN  CASE ~Valid(c, b) -> Evaluation("rejected", c)
          [] Valid(c, b) /\ asked = Stall -> Evaluation("nondeterminism", c)
          [] Valid(c, b) /\ asked \in Specs /\ atEnd ->
                IF Valid(scheduled, b) THEN Evaluation("scheduled", scheduled)
                                       ELSE Evaluation("rejected", c)
          [] Valid(c, b) /\ asked \in Specs /\ ~atEnd ->
                IF c.history[cursor + 1].spec = asked
                THEN Evaluation("pending", c) ELSE Evaluation("nondeterminism", c)
          [] Valid(c, b) /\ asked \in Outcomes ->
                IF atEnd
                THEN Evaluation("complete", Terminal(c.admitted, asked, cursor))
                ELSE Evaluation("nondeterminism", c)

----------------------------------------------------------------------------
(* What a call proposes after its load: a swap, or no swap at all *)

NoSwap == [swap |-> FALSE]
Swap(c, grant) == [swap |-> TRUE, checkpoint |-> c, grant |-> grant]

\* AttemptId: the host epoch, which stands for one process and hence for one
\* build; its counter, never read again, is left out.
NextAttempt(h) == [host |-> h, epoch |-> host[h].epoch, build |-> host[h].build]

ExposeUnreserved(h, c) ==
    LET last    == LastRecord(c)
        exposed == WithFinal(c, Record(last.spec, "exposed", NextAttempt(h), None))
    IN  IF Valid(exposed, host[h].build)
        THEN Swap(exposed, [seq |-> Len(c.history), spec |-> last.spec,
                            attempt |-> NextAttempt(h)])
        ELSE NoSwap

\* prepare_exposure: no effect is exposed whose result might not fit.
Expose(h, c) ==
    LET last    == LastRecord(c)
        exposed == WithFinal(c, Record(last.spec, "exposed", NextAttempt(h), None))
    IN  IF MaxCompletedBytes(c) <= Limits[host[h].build].bytes
               /\ Valid(exposed, host[h].build)
        THEN Swap(exposed, [seq |-> Len(c.history), spec |-> last.spec,
                            attempt |-> NextAttempt(h)])
        ELSE NoSwap

\* commit_completion: the outcome is bounded by into_terminal.
Complete(h, c) == IF Valid(c, host[h].build) THEN Swap(c, None) ELSE NoSwap

\* The tail shared by turn, turn_and_expose and observe_and_turn.
Progress(h, loaded, fused) ==
    LET e == Evaluate(host[h].build, loaded) IN
    CASE e.kind = "scheduled" ->
            IF fused THEN Expose(h, e.checkpoint) ELSE Swap(e.checkpoint, None)
      [] e.kind = "pending"  -> Expose(h, e.checkpoint)
      [] e.kind = "complete" -> Complete(h, e.checkpoint)
      [] OTHER               -> NoSwap

IsExposed(c) ==
    c.kind = "active" /\ c.history # << >> /\ LastRecord(c).status = "exposed"

TurnPlanWithoutQuarantine(h, fused) ==
    LET c == store.checkpoint IN
    IF \/ c # Absent /\ ~Valid(c, host[h].build)
       \/ c.kind = "terminal"
    THEN NoSwap
    ELSE Progress(h, c, fused)

\* turn and turn_and_expose: a terminal checkpoint is reported, an exposed
\* activity is quarantined, anything else is replayed.
TurnPlan(h, fused) ==
    LET c == store.checkpoint IN
    IF \/ c # Absent /\ ~Valid(c, host[h].build)
       \/ c.kind = "terminal"
       \/ IsExposed(c)
    THEN NoSwap
    ELSE Progress(h, c, fused)

ObservePlanAnyActivity(h, a, result, fused) ==
    LET c    == store.checkpoint
        done == WithFinal(c, Record(LastRecord(c).spec, "completed", None, result))
    IN  IF /\ c # Absent
           /\ Valid(c, host[h].build)
           /\ IsExposed(c)
           /\ ResultBytes[result] <= MaxResult[LastRecord(c).spec]
           /\ Valid(done, host[h].build)
        THEN IF fused THEN Progress(h, done, TRUE) ELSE Swap(done, None)
        ELSE NoSwap

\* observe and observe_and_turn: only the exact exposed activity takes a
\* result, and only one within its declared bound.
ObservePlan(h, a, result, fused) ==
    LET c    == store.checkpoint
        done == WithFinal(c, Record(a.spec, "completed", None, result))
    IN  IF /\ c # Absent
           /\ Valid(c, host[h].build)
           /\ IsExposed(c)
           /\ a = [seq |-> Len(c.history), spec |-> LastRecord(c).spec]
           /\ ResultBytes[result] <= MaxResult[a.spec]
           /\ Valid(done, host[h].build)
        THEN IF fused THEN Progress(h, done, TRUE) ELSE Swap(done, None)
        ELSE NoSwap

----------------------------------------------------------------------------
(* Steps *)

Init ==
    /\ store = [rev |-> 0, checkpoint |-> Absent]
    /\ host \in [Hosts -> [build : {FirstBuild}, epoch : {0}, permit : {None}]]
    /\ request = [h \in Hosts |-> None]
    /\ late = {}
    /\ fate = [a \in Activities |-> None]
    /\ grants = [i \in Places |-> << >>]
    /\ faults = [crashes |-> 0, losses |-> 0]

\* The host's lock lets one call run at a time; a held permit is dealt with
\* before the next call.
Idle(h) == request[h] = None /\ host[h].permit = None

\* The swap leaves the host with the revision it loaded.
Send(h, plan) ==
    /\ plan.swap
    /\ request' = [request EXCEPT ![h] =
           [expected |-> store.rev, checkpoint |-> plan.checkpoint,
            grant |-> plan.grant]]
    /\ UNCHANGED <<store, host, late, fate, grants, faults>>

Turn(h, fused) == Idle(h) /\ Send(h, TurnPlan(h, fused))

\* The caller reports what is known of activity a, which need not be the
\* activity the checkpoint is at.
Observe(h, a, fused) ==
    /\ Idle(h)
    /\ fate[a] # None
    /\ Send(h, ObservePlan(h, a, fate[a], fused))

\* The store serves a swap: it is applied only at the expected revision.
Serve(r) ==
    IF r.expected = store.rev
    THEN [rev |-> store.rev + 1, checkpoint |-> r.checkpoint]
    ELSE store

Grant(g) ==
    grants' = IF g = None THEN grants ELSE [grants EXCEPT ![g.seq] = Append(@, g)]

\* The store answers Accepted or Conflict; a permit needs Accepted.
Reply(h) ==
    /\ request[h] # None
    /\ store' = Serve(request[h])
    /\ LET g == IF store' # store THEN request[h].grant ELSE None
       IN  host' = [host EXCEPT ![h].permit = g] /\ Grant(g)
    /\ request' = [request EXCEPT ![h] = None]
    /\ UNCHANGED <<late, fate, faults>>

\* OutcomeUnknown: the host reloads; the request has arrived, will, or is lost.
LoseReply(h) ==
    /\ request[h] # None
    /\ faults.losses < MaxLosses
    /\ faults' = [faults EXCEPT !.losses = @ + 1]
    /\ late' = late \cup {request[h]}
    /\ request' = [request EXCEPT ![h] = None]
    /\ UNCHANGED <<store, host, fate, grants>>

\* StoreFailed: the request was never dispatched.
FailBeforeRequest(h) ==
    /\ request[h] # None
    /\ faults.losses < MaxLosses
    /\ faults' = [faults EXCEPT !.losses = @ + 1]
    /\ request' = [request EXCEPT ![h] = None]
    /\ UNCHANGED <<store, host, late, fate, grants>>

LateArrival(r) ==
    /\ store' = Serve(r)
    /\ late' = late \ {r}
    /\ UNCHANGED <<host, request, fate, grants, faults>>

LateLoss(r) ==
    /\ late' = late \ {r}
    /\ UNCHANGED <<store, host, request, fate, grants, faults>>

\* The effect runs under the permit, unless its target was fenced against it.
Dispatch(h, result) ==
    /\ host[h].permit # None
    /\ LET p == host[h].permit
           a == [seq |-> p.seq, spec |-> p.spec]
       IN  fate' = [fate EXCEPT ![a] = IF @ = None THEN result ELSE @]
    /\ host' = [host EXCEPT ![h].permit = None]
    /\ UNCHANGED <<store, request, late, grants, faults>>

\* Authoritative evidence that an exposed effect was and will not be admitted.
Fence(result) ==
    LET c == store.checkpoint
        a == [seq |-> Len(c.history), spec |-> LastRecord(c).spec]
    IN  /\ IsExposed(c)
        /\ fate[a] = None
        /\ fate' = [fate EXCEPT ![a] = result]
        /\ UNCHANGED <<store, host, request, late, grants, faults>>

\* The process dies and restarts under a new epoch; its permit is lost.
Crash(h) ==
    /\ faults.crashes < MaxCrashes
    /\ faults' = [faults EXCEPT !.crashes = @ + 1]
    /\ \E b \in Builds :
           host' = [host EXCEPT ![h] = [build |-> b, epoch |-> @.epoch + 1,
                                        permit |-> None]]
    /\ late' = IF request[h] = None THEN late ELSE late \cup {request[h]}
    /\ request' = [request EXCEPT ![h] = None]
    /\ UNCHANGED <<store, fate, grants>>

HostStep(h) ==
    \/ \E fused \in BOOLEAN : Turn(h, fused)
    \/ \E a \in Activities, fused \in BOOLEAN : Observe(h, a, fused)

Next ==
    \/ \E h \in Hosts :
           \/ HostStep(h)
           \/ Reply(h)
           \/ LoseReply(h)
           \/ FailBeforeRequest(h)
           \/ Crash(h)
           \/ \E result \in Results : Dispatch(h, result)
    \/ \E r \in late : LateArrival(r) \/ LateLoss(r)
    \/ \E result \in Results : Fence(result)

Spec == Init /\ [][Next]_vars

----------------------------------------------------------------------------
(* Properties *)

\* The store, the hosts and their requests have the types store.rs and host.rs
\* give them; no request expects a revision the store has not reached.
TypeOK ==
    /\ store.rev \in Nat
    /\ store.checkpoint.kind \in {"absent", "active", "terminal"}
    /\ \A h \in Hosts :
           /\ host[h].build \in Builds
           /\ host[h].epoch \in 0 .. MaxCrashes
           /\ request[h] = None \/ request[h].expected <= store.rev
    /\ fate \in [Activities -> Results \cup {None}]
    /\ faults \in [crashes : 0 .. MaxCrashes, losses : 0 .. MaxLosses]

\* Whatever is lost, delayed, conflicting or crashed between the swap that
\* exposes an activity and its reply, and whichever builds disagree about the
\* workflow, no two permits are ever given for one place in the history, and a
\* permit that was given is behind an exposure (or a result) that is durable
\* with exactly that specification (host.rs, commit_exposure).
PermitIsUniqueAndDurable ==
    \A i \in Places :
        grants[i] # << >> =>
            /\ Len(grants[i]) = 1
            /\ LET c == store.checkpoint
                   g == grants[i][1]
               IN  CASE c.kind = "absent"   -> FALSE
                     [] c.kind = "terminal" -> TRUE
                     [] c.kind = "active"   ->
                           /\ i <= Len(c.history)
                           /\ c.history[i].spec = g.spec
                           /\ c.history[i].status = "completed"
                                \/ c.history[i].attempt = g.attempt

\* A result of activity c's last record that keeps its declared bound is
\* accepted by build b.
ResultFits(c, b) ==
    \A r \in Results :
        ResultBytes[r] <= MaxResult[LastRecord(c).spec] =>
            Valid(WithFinal(c, Record(LastRecord(c).spec, "completed", None, r)), b)

\* The capacity reserved before an effect is exposed (prepare_exposure) is
\* there when its result comes: no result within its declared bound is refused
\* by a host that has at least the limits of the one that exposed it.
ExposedResultFits ==
    LET c == store.checkpoint IN
    IsExposed(c) =>
        LET exposer == LastRecord(c).attempt.build IN
        \A b \in Builds :
            (/\ Limits[b].bytes >= Limits[exposer].bytes
             /\ Limits[b].records >= Limits[exposer].records)
                => ResultFits(c, b)

\* The state is well typed and what is exposed can be completed: the reservation
\* of prepare_exposure survives conflicts, crashes and other builds.
Consistent ==
    /\ TypeOK
    /\ ExposedResultFits

\* What durable-execution/README.md says of that reservation: later hosts may
\* use any limit not smaller than the one the execution was admitted under,
\* and a permitted result within its declaration cannot fail for capacity.
\* TLC refutes it; see Known counterexamples in the README.
ReservationHoldsForLaterHosts ==
    LET c == store.checkpoint IN
    IsExposed(c) =>
        \A b \in Builds : Limits[b].bytes >= c.admitted => ResultFits(c, b)

\* History is never rewritten: a result that is durable, and the specification
\* of every activity begun, stay as they are until the terminal checkpoint
\* replaces the history, and the result recorded is the one its effect had.
HistoryIsAppendOnly ==
    [][LET old == store.checkpoint
           new == store'.checkpoint
       IN  old.kind = "active" =>
               CASE new.kind = "absent"   -> FALSE
                 [] new.kind = "terminal" -> new.count >= Len(old.history)
                 [] new.kind = "active"   ->
                      \A i \in DOMAIN old.history :
                          /\ i \in DOMAIN new.history
                          /\ new.history[i].spec = old.history[i].spec
                          /\ old.history[i].status = "completed"
                               => new.history[i] = old.history[i]
                          /\ new.history[i].status = "completed"
                               => new.history[i].result =
                                    fate[[seq |-> i, spec |-> new.history[i].spec]]
      ]_vars

\* The records of the history with one of these statuses; all of them once it
\* was replaced by its count.
CountIn(statuses) ==
    LET c == store.checkpoint IN
    CASE c.kind = "absent"   -> 0
      [] c.kind = "active"   ->
             Cardinality({i \in DOMAIN c.history : c.history[i].status \in statuses})
      [] c.kind = "terminal" -> c.count

Contract ==
    INSTANCE DurableExecution WITH
        begun    <- CountIn({"scheduled", "exposed", "completed"}),
        exposed  <- CountIn({"exposed", "completed"}),
        recorded <- CountIn({"completed"}),
        done     <- store.checkpoint.kind = "terminal",
        issued   <- {i \in Places : grants[i] # << >>}

\* Every schedule of loads, swaps, losses, late requests and crashes of all
\* hosts is a behaviour of the contract of DurableExecution: one write begins,
\* exposes and records in order, and no permit is issued except by the write
\* that exposes its activity (host.rs, turn to commit_completion).
ImplementsContract == Contract!Spec
=============================================================================
