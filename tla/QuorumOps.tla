------------------------------ MODULE QuorumOps ------------------------------
(***************************************************************************)
(* The replicator's quorum tracker (kuberic-core/src/replicator/quorum.rs) *)
(* as operators on a tracker record.  Every method of `QuorumTracker` is   *)
(* one operator that takes the tracker and returns the tracker after the   *)
(* call; QuorumTracker.tla and Replication.tla turn them into actions.     *)
(*                                                                         *)
(* Representation.                                                         *)
(*  - A deadline is kept as the time that is left: `ttl` counts down, and  *)
(*    "deadline <= now" is ttl = 0.                                        *)
(*  - A oneshot reply channel is the number of the call that waits on it;  *)
(*    sending on the channel adds a record to `answers`.                   *)
(*  - `commits` is the set of LSNs that were committed or seeded; the      *)
(*    code keeps its maximum, CommittedLsn.                                *)
(*  - HashMaps with default 0 are total functions on Replica.              *)
(***************************************************************************)
EXTENDS Integers, FiniteSets

CONSTANTS Replica,        \* replica identifiers
          QuorumTimeout   \* clock steps an operation or a waiter is given

ASSUME ReplicaAssumption == IsFiniteSet(Replica)
ASSUME QuorumTimeoutAssumption == QuorumTimeout \in Nat \ {0}

Mode == {"Write", "All"}
WaitId == {"none", "tracked"}          \* an untracked wait has no id

\* Replies a call can receive; "Internal" is the data-loss reset.
Result == {"Ok", "NoWriteQuorum", "NotPrimary", "Closed", "Cancelled", "Internal"}

PendingOp == [lsn : Nat, call : Nat, acked : SUBSET Replica, ttl : 0..QuorumTimeout]
CatchUpWaiter == [call : Nat, id : WaitId, mode : Mode, ttl : 0..QuorumTimeout]
Configuration == [members : SUBSET Replica, quorum : Nat]
Answer == [call : Nat, lsn : Nat, result : Result]

NoConfiguration == [members |-> {}, quorum |-> 0]

Tracker == [pending     : SUBSET PendingOp,
            cur         : Configuration,
            prev        : Configuration,
            mustCatchUp : SUBSET Replica,
            ackedLsn    : [Replica -> Nat],
            commits     : SUBSET Nat,
            highest     : Nat,
            baseline    : Nat,
            waiters     : SUBSET CatchUpWaiter,
            failed      : BOOLEAN,
            active      : BOOLEAN,
            answers     : SUBSET Answer]

NewTracker ==
    [pending     |-> {},
     cur         |-> NoConfiguration,
     prev        |-> NoConfiguration,
     mustCatchUp |-> {},
     ackedLsn    |-> [r \in Replica |-> 0],
     commits     |-> {0},
     highest     |-> 0,
     baseline    |-> 0,
     waiters     |-> {},
     failed      |-> FALSE,
     active      |-> FALSE,
     answers     |-> {}]

Larger(a, b) == IF a >= b THEN a ELSE b

CommittedLsn(t) == CHOOSE l \in t.commits : \A k \in t.commits : l >= k

-----------------------------------------------------------------------------
(* Replies.                                                                *)

OpAnswers(ops, result) ==
    {[call |-> o.call, lsn |-> o.lsn, result |-> result] : o \in ops}

WaiterAnswers(ws, result) ==
    {[call |-> w.call, lsn |-> 0, result |-> result] : w \in ws}

\* The calls that wait on, or were answered through, a set of these records.
CallsOf(S) == {x.call : x \in S}

-----------------------------------------------------------------------------
(* Quorum and catch-up conditions.                                         *)

CountReached(acked, config) ==
    Cardinality(acked \cap config.members) >= config.quorum

\* Mutant: the previous configuration is not consulted.
IsQuorumMetInCurrent(t, acked) ==
    t.cur.quorum # 0 /\ CountReached(acked, t.cur)

IsQuorumMet(t, acked) ==
    /\ t.cur.quorum # 0
    /\ CountReached(acked, t.cur)
    /\ \/ t.prev.members = {}
       \/ t.prev.quorum # 0 /\ CountReached(acked, t.prev)

IsCaughtUp(t, mode) ==
    /\ t.pending = {}
    /\ \/ t.highest <= t.baseline
       \/ LET required == IF mode = "Write" THEN t.mustCatchUp ELSE t.cur.members
          IN  \A r \in required : t.ackedLsn[r] >= t.highest

-----------------------------------------------------------------------------
(* Private steps.                                                          *)

\* Reply to operations, or to catch-up waiters, and forget them.
AnswerOps(t, ops, result) ==
    [t EXCEPT !.pending = @ \ ops, !.answers = @ \cup OpAnswers(ops, result)]

AnswerWaiters(t, ws, result) ==
    [t EXCEPT !.waiters = @ \ ws, !.answers = @ \cup WaiterAnswers(ws, result)]

\* commit_op for a set of operations removed from `pending` together.
CommitOps(t, ops) ==
    [AnswerOps(t, ops, "Ok") EXCEPT !.commits = @ \cup {o.lsn : o \in ops}]

TryCommitPending(t) ==
    CommitOps(t, {o \in t.pending : IsQuorumMet(t, o.acked)})

NotifyCatchUpWaiters(t) ==
    IF t.failed
    THEN AnswerWaiters(t, t.waiters, "NoWriteQuorum")
    ELSE AnswerWaiters(t, {w \in t.waiters : IsCaughtUp(t, w.mode)}, "Ok")

\* The operations half of expire_due: answer what is due, remember that an
\* active catch-up attempt lost an operation.
ExpireOps(t) ==
    LET due == {o \in t.pending : o.ttl = 0}
    IN  [AnswerOps(t, due, "NoWriteQuorum") EXCEPT !.failed = @ \/ (t.active /\ due # {})]

\* The waiters half of expire_due, on the tracker ExpireOps returns.
ExpireWaiters(t) ==
    LET refused == {w \in t.waiters : t.failed \/ w.ttl = 0}
        caught  == {w \in t.waiters \ refused : IsCaughtUp(t, w.mode)}
    IN  AnswerWaiters(AnswerWaiters(t, refused, "NoWriteQuorum"), caught, "Ok")

ExpireDue(t) == ExpireWaiters(ExpireOps(t))

RaiseAck(t, r, lsn) == [t EXCEPT !.ackedLsn[r] = Larger(@, lsn)]

-----------------------------------------------------------------------------
(* Public methods.                                                         *)

\* Mutant: the commit point is taken for the next LSN.
SeedBelow(t, progress, committed) ==
    [t EXCEPT !.highest = Larger(@, progress),
              !.commits = @ \cup {committed - 1}]

\* Mutant: the uncommitted tail of the promoted replica is not counted.
SeedWithoutTail(t, progress, committed) ==
    [t EXCEPT !.highest = Larger(@, committed),
              !.commits = @ \cup {committed}]

SeedProgress(t, progress, committed) ==
    [t EXCEPT !.highest = Larger(@, progress),
              !.commits = @ \cup {committed}]

FailAll(t, result) ==
    [AnswerWaiters(AnswerOps(t, t.pending, result), t.waiters, result)
        EXCEPT !.active = FALSE, !.failed = FALSE]

ResetProgressAfterDataLoss(t, progress, committed) ==
    [FailAll(t, "Internal") EXCEPT !.highest  = progress,
                                   !.commits  = {committed},
                                   !.baseline = progress,
                                   !.ackedLsn = [r \in Replica |-> 0]]

\* Mutant: every update starts a new attempt.
BeginAttemptAgain(t) ==
    [t EXCEPT !.baseline = t.highest, !.failed = FALSE, !.active = TRUE]

\* Only the first update of an attempt sets the baseline and clears `failed`.
BeginAttempt(t) ==
    IF t.active
    THEN t
    ELSE [t EXCEPT !.baseline = t.highest, !.failed = FALSE, !.active = TRUE]

\* The assignments of set_catch_up_configuration, after its expire_due.
InstallCatchUp(t, current, previous, must, progress) ==
    [BeginAttempt(t) EXCEPT
        !.cur         = current,
        !.prev        = previous,
        !.mustCatchUp = must,
        !.ackedLsn    = [r \in Replica |-> Larger(@[r], progress[r])]]

SetCatchUpConfiguration(t, current, previous, must, progress) ==
    NotifyCatchUpWaiters(TryCommitPending(
        InstallCatchUp(ExpireDue(t), current, previous, must, progress)))

InstallCurrent(t, current) ==
    [t EXCEPT !.cur         = current,
              !.prev        = NoConfiguration,
              !.mustCatchUp = {},
              !.active      = FALSE,
              !.failed      = FALSE]

SetCurrentConfiguration(t, current) ==
    NotifyCatchUpWaiters(TryCommitPending(InstallCurrent(ExpireDue(t), current)))

\* HashMap::insert: an operation pending under the same LSN would be replaced
\* and its reply channel dropped.
InsertPending(t, op) ==
    [t EXCEPT !.pending = {o \in @ : o.lsn # op.lsn} \cup {op}]

Register(t, lsn, primary, call) ==
    LET seen == RaiseAck([t EXCEPT !.highest = Larger(@, lsn)], primary, lsn)
        op   == [lsn |-> lsn, call |-> call, acked |-> {primary}, ttl |-> QuorumTimeout]
    IN  IF IsQuorumMet(seen, op.acked)
        THEN NotifyCatchUpWaiters(CommitOps(seen, {op}))
        ELSE InsertPending(seen, op)

\* The pending operations after replica r is added to acked_by of `lsn`.
MarkAcked(t, lsn, r) ==
    [t EXCEPT !.pending = {IF o.lsn = lsn THEN [o EXCEPT !.acked = @ \cup {r}] ELSE o : o \in @}]

\* ack after its expire_due.
RecordAck(t, lsn, r) ==
    LET seen   == RaiseAck(t, r, lsn)
        marked == MarkAcked(seen, lsn, r)
        op     == {o \in marked.pending : o.lsn = lsn}
    IN  IF op = {}
        THEN NotifyCatchUpWaiters(seen)
        ELSE IF \E o \in op : IsQuorumMet(marked, o.acked)
             THEN NotifyCatchUpWaiters(TryCommitPending(CommitOps(marked, op)))
             ELSE marked

\* Mutant: the ACK is recorded before due work expires.
AckBeforeExpiry(t, lsn, r) == ExpireDue(RecordAck(t, lsn, r))

Ack(t, lsn, r) == RecordAck(ExpireDue(t), lsn, r)

\* Mutant: the waiter is removed and its channel dropped.
CancelSilently(t, id) ==
    [t EXCEPT !.waiters = {w \in @ : w.id # id}]

CancelCatchUpWait(t, id) ==
    AnswerWaiters(t, {w \in t.waiters : w.id = id}, "Cancelled")

\* wait_for_catch_up_inner
AddWaiter(t, w) ==
    IF t.failed
    THEN [t EXCEPT !.answers = @ \cup WaiterAnswers({w}, "NoWriteQuorum")]
    ELSE IF IsCaughtUp(t, w.mode)
         THEN [t EXCEPT !.answers = @ \cup WaiterAnswers({w}, "Ok")]
         ELSE [t EXCEPT !.waiters = @ \cup {w}]

\* A tracked wait first cancels the waiter that holds its id.
WaitForCatchUp(t, call, id, mode) ==
    LET w == [call |-> call, id |-> id, mode |-> mode, ttl |-> QuorumTimeout]
    IN  AddWaiter(IF id = "none" THEN t ELSE CancelCatchUpWait(t, id), w)

\* Mutant: the deadlines of catch-up waiters are overlooked.
OpDeadlines(t) == {o.ttl : o \in t.pending}

Deadlines(t) == {o.ttl : o \in t.pending} \cup {w.ttl : w \in t.waiters}

\* Time left until the earliest deadline, when there is one.
NextDeadline(t) == CHOOSE d \in Deadlines(t) : \A e \in Deadlines(t) : d <= e

\* One step of the clock, for everything the tracker holds.
Elapse(t) ==
    LET Less(n) == IF n = 0 THEN 0 ELSE n - 1
    IN  [t EXCEPT !.pending = {[o EXCEPT !.ttl = Less(@)] : o \in @},
                  !.waiters = {[w EXCEPT !.ttl = Less(@)] : w \in @}]
=============================================================================
