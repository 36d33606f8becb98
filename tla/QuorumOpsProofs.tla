--------------------------- MODULE QuorumOpsProofs ---------------------------
(***************************************************************************)
(* What every operation of the quorum tracker preserves.  `Sound` is the   *)
(* invariant of a tracker whose replies belong to the calls in C: its      *)
(* fields are typed, each call is tracked or answered exactly once, and    *)
(* its counters are ordered.  One lemma per operator of QuorumOps shows    *)
(* that the operator keeps it; QuorumTrackerProofs lifts the lemmas to the *)
(* actor's specification.                                                  *)
(***************************************************************************)
EXTENDS QuorumOps, FiniteSetTheorems, WellFoundedInduction, TLAPS

\* Each call in C is tracked or answered, never both and never twice.
Accounted(tk, C) ==
    /\ CallsOf(tk.pending) \cup CallsOf(tk.waiters) \cup CallsOf(tk.answers) = C
    /\ CallsOf(tk.pending) \cap CallsOf(tk.waiters) = {}
    /\ (CallsOf(tk.pending) \cup CallsOf(tk.waiters)) \cap CallsOf(tk.answers) = {}
    /\ \A a, b \in tk.answers : a.call = b.call => a = b
    /\ \A o, p \in tk.pending : o.call = p.call \/ o.lsn = p.lsn => o = p
    /\ \A v, w \in tk.waiters : v.call = w.call => v = w

\* Nothing is committed, pending, acknowledged or a baseline beyond `highest`.
Ordered(tk) ==
    /\ tk.commits # {}
    /\ \A c \in tk.commits : c <= tk.highest
    /\ \A o \in tk.pending : o.lsn <= tk.highest
    /\ \A r \in Replica : tk.ackedLsn[r] <= tk.highest
    /\ tk.baseline <= tk.highest

Sound(tk, C) == tk \in Tracker /\ Accounted(tk, C) /\ Ordered(tk)

\* u follows tk without a new operation and without taking back an answer.
Settles(tk, u) == u.highest = tk.highest /\ tk.answers \subseteq u.answers

-----------------------------------------------------------------------------
(* Minimum and maximum of sets of LSNs and deadlines.                      *)

\* A nonempty set of naturals has a least element (the earliest deadline).
LEMMA NatMin ==
    ASSUME NEW T \in SUBSET Nat, T # {}
    PROVE  \E x \in T : \A y \in T : x <= y
<1>1. PICK x \in T : \A y \in T : ~ (<<y, x>> \in OpToRel(<, Nat))
  BY NatLessThanWellFounded, WFMin
<1>2. \A y \in T : ~(y < x)
  BY <1>1 DEF OpToRel
<1> QED
  BY <1>2

\* A bounded nonempty set of naturals has a greatest element (committed_lsn).
LEMMA NatMax ==
    ASSUME NEW T \in SUBSET Nat, T # {}, NEW b \in Nat, \A y \in T : y <= b
    PROVE  \E x \in T : \A y \in T : x >= y
<1> DEFINE U == {b - y : y \in T}
<1>1. U \in SUBSET Nat
  OBVIOUS
<1>2. U # {}
  <2>1. PICK y \in T : TRUE
    OBVIOUS
  <2>2. b - y \in U
    OBVIOUS
  <2> QED
    BY <2>2
<1>3. PICK u \in U : \A v \in U : u <= v
  BY <1>1, <1>2, NatMin
<1>4. PICK x \in T : u = b - x
  OBVIOUS
<1>5. \A y \in T : b - y \in U
  OBVIOUS
<1>6. \A y \in T : u <= b - y
  BY <1>3, <1>5
<1> QED
  BY <1>4, <1>6

\* The committed LSN of the code, a maximum, exists and is within `highest`.
LEMMA CommittedLsnIsMax ==
    ASSUME NEW tk \in Tracker, Ordered(tk)
    PROVE  CommittedLsn(tk) \in Nat /\ CommittedLsn(tk) <= tk.highest
<1>1. tk.commits \in SUBSET Nat /\ tk.highest \in Nat
  BY DEF Tracker
<1>2. \E l \in tk.commits : \A k \in tk.commits : l >= k
  BY <1>1, NatMax DEF Ordered
<1>3. CommittedLsn(tk) \in tk.commits
  BY <1>2 DEF CommittedLsn
<1> QED
  BY <1>1, <1>3 DEF Ordered

\* The scheduler's alarm is a time left, at most the timeout.
LEMMA NextDeadlineType ==
    ASSUME NEW tk \in Tracker, Deadlines(tk) # {}
    PROVE  NextDeadline(tk) \in 0..QuorumTimeout
<1>1. Deadlines(tk) \in SUBSET (0..QuorumTimeout)
  BY DEF Deadlines, Tracker, PendingOp, CatchUpWaiter
<1>2. Deadlines(tk) \in SUBSET Nat
  BY <1>1, QuorumTimeoutAssumption
<1>3. \E d \in Deadlines(tk) : \A e \in Deadlines(tk) : d <= e
  BY <1>2, NatMin
<1>4. NextDeadline(tk) \in Deadlines(tk)
  BY <1>3 DEF NextDeadline
<1> QED
  BY <1>1, <1>4

-----------------------------------------------------------------------------
(* Calls of sets of records.                                               *)

\* Forgetting some records forgets exactly their calls when calls are unique.
LEMMA CallsOfDiff ==
    ASSUME NEW S, NEW A \in SUBSET S, \A x, y \in S : x.call = y.call => x = y
    PROVE  CallsOf(S \ A) = CallsOf(S) \ CallsOf(A)
BY DEF CallsOf

\* CallsOf distributes over union and is monotone.
LEMMA CallsOfUnion ==
    ASSUME NEW S, NEW T
    PROVE  /\ CallsOf(S \cup T) = CallsOf(S) \cup CallsOf(T)
           /\ S \subseteq T => CallsOf(S) \subseteq CallsOf(T)
BY DEF CallsOf

\* Answering a set of records answers exactly its calls.
LEMMA CallsOfAnswers ==
    ASSUME NEW S, NEW res
    PROVE  /\ CallsOf(OpAnswers(S, res)) = CallsOf(S)
           /\ CallsOf(WaiterAnswers(S, res)) = CallsOf(S)
<1>1. CallsOf(OpAnswers(S, res)) = CallsOf(S)
  <2>1. ASSUME NEW c \in CallsOf(S)
        PROVE  c \in CallsOf(OpAnswers(S, res))
    <3>1. PICK o \in S : c = o.call
      BY <2>1 DEF CallsOf
    <3>2. [call |-> o.call, lsn |-> o.lsn, result |-> res] \in OpAnswers(S, res)
      BY DEF OpAnswers
    <3> QED
      BY <3>1, <3>2 DEF CallsOf
  <2>2. CallsOf(OpAnswers(S, res)) \subseteq CallsOf(S)
    BY DEF CallsOf, OpAnswers
  <2> QED
    BY <2>1, <2>2
<1>2. CallsOf(WaiterAnswers(S, res)) = CallsOf(S)
  <2>1. ASSUME NEW c \in CallsOf(S)
        PROVE  c \in CallsOf(WaiterAnswers(S, res))
    <3>1. PICK w \in S : c = w.call
      BY <2>1 DEF CallsOf
    <3>2. [call |-> w.call, lsn |-> 0, result |-> res] \in WaiterAnswers(S, res)
      BY DEF WaiterAnswers
    <3> QED
      BY <3>1, <3>2 DEF CallsOf
  <2>2. CallsOf(WaiterAnswers(S, res)) \subseteq CallsOf(S)
    BY DEF CallsOf, WaiterAnswers
  <2> QED
    BY <2>1, <2>2
<1> QED
  BY <1>1, <1>2

\* Records with different calls get different answers, of the right type.
LEMMA AnswersUnique ==
    ASSUME NEW S, NEW res, \A x, y \in S : x.call = y.call => x = y
    PROVE  /\ \A a, b \in OpAnswers(S, res) : a.call = b.call => a = b
           /\ \A a, b \in WaiterAnswers(S, res) : a.call = b.call => a = b
BY DEF OpAnswers, WaiterAnswers

\* Two sets without a common call keep calls unique when they are joined.
LEMMA UniqueUnion ==
    ASSUME NEW S, NEW T, CallsOf(S) \cap CallsOf(T) = {},
           \A x, y \in S : x.call = y.call => x = y,
           \A x, y \in T : x.call = y.call => x = y
    PROVE  \A x, y \in S \cup T : x.call = y.call => x = y
BY DEF CallsOf

\* Answers have their type.
LEMMA AnswersType ==
    ASSUME NEW ops \in SUBSET PendingOp, NEW ws \in SUBSET CatchUpWaiter, NEW res \in Result
    PROVE  /\ OpAnswers(ops, res) \in SUBSET Answer
           /\ WaiterAnswers(ws, res) \in SUBSET Answer
BY DEF OpAnswers, WaiterAnswers, PendingOp, CatchUpWaiter, Answer

-----------------------------------------------------------------------------
(* Private steps of the tracker.                                           *)

\* Replying to pending operations and forgetting them keeps the invariant.
LEMMA AnswerOpsSound ==
    ASSUME NEW tk, NEW C, Sound(tk, C), NEW ops \in SUBSET tk.pending, NEW res \in Result
    PROVE  Sound(AnswerOps(tk, ops, res), C) /\ Settles(tk, AnswerOps(tk, ops, res))
<1> DEFINE u == AnswerOps(tk, ops, res)
           N == OpAnswers(ops, res)
<1>1. N \in SUBSET Answer
  BY AnswersType DEF Sound, Tracker
<1>2. /\ u \in Tracker
      /\ u.pending = tk.pending \ ops /\ u.waiters = tk.waiters
      /\ u.answers = tk.answers \cup N
      /\ u.highest = tk.highest /\ u.commits = tk.commits
      /\ u.baseline = tk.baseline /\ u.ackedLsn = tk.ackedLsn
  BY <1>1 DEF AnswerOps, Sound, Tracker
<1>3. CallsOf(N) = CallsOf(ops) /\ CallsOf(ops) \subseteq CallsOf(tk.pending)
  BY CallsOfAnswers, CallsOfUnion
<1>4. \A x, y \in tk.pending : x.call = y.call => x = y
  BY DEF Sound, Accounted
<1>5. \A a, b \in N : a.call = b.call => a = b
  BY <1>4, AnswersUnique
<1> HIDE DEF u, N
<1>6. CallsOf(u.pending) = CallsOf(tk.pending) \ CallsOf(ops)
  <2>1. CallsOf(tk.pending \ ops) = CallsOf(tk.pending) \ CallsOf(ops)
    BY <1>4, CallsOfDiff
  <2> QED
    BY <1>2, <2>1
<1>7. CallsOf(u.answers) = CallsOf(tk.answers) \cup CallsOf(ops)
  BY <1>2, <1>3, CallsOfUnion
<1>8. \A a, b \in u.answers : a.call = b.call => a = b
  <2>1. \A a, b \in tk.answers : a.call = b.call => a = b
    BY DEF Sound, Accounted
  <2>2. CallsOf(tk.answers) \cap CallsOf(N) = {}
    BY <1>3 DEF Sound, Accounted
  <2> QED
    BY <1>2, <1>5, <2>1, <2>2, UniqueUnion
<1>9. Accounted(u, C)
  BY <1>2, <1>3, <1>6, <1>7, <1>8 DEF Sound, Accounted
<1>10. Ordered(u)
  BY <1>2 DEF Sound, Ordered
<1> QED
  BY <1>2, <1>9, <1>10 DEF Sound, Settles, u

\* The same for catch-up waiters.
LEMMA AnswerWaitersSound ==
    ASSUME NEW tk, NEW C, Sound(tk, C), NEW ws \in SUBSET tk.waiters, NEW res \in Result
    PROVE  Sound(AnswerWaiters(tk, ws, res), C) /\ Settles(tk, AnswerWaiters(tk, ws, res))
<1> DEFINE u == AnswerWaiters(tk, ws, res)
           N == WaiterAnswers(ws, res)
<1>1. N \in SUBSET Answer
  BY AnswersType DEF Sound, Tracker
<1>2. /\ u \in Tracker
      /\ u.waiters = tk.waiters \ ws /\ u.pending = tk.pending
      /\ u.answers = tk.answers \cup N
      /\ u.highest = tk.highest /\ u.commits = tk.commits
      /\ u.baseline = tk.baseline /\ u.ackedLsn = tk.ackedLsn
  BY <1>1 DEF AnswerWaiters, Sound, Tracker
<1>3. CallsOf(N) = CallsOf(ws) /\ CallsOf(ws) \subseteq CallsOf(tk.waiters)
  BY CallsOfAnswers, CallsOfUnion
<1>4. \A x, y \in tk.waiters : x.call = y.call => x = y
  BY DEF Sound, Accounted
<1>5. \A a, b \in N : a.call = b.call => a = b
  BY <1>4, AnswersUnique
<1> HIDE DEF u, N
<1>6. CallsOf(u.waiters) = CallsOf(tk.waiters) \ CallsOf(ws)
  <2>1. CallsOf(tk.waiters \ ws) = CallsOf(tk.waiters) \ CallsOf(ws)
    BY <1>4, CallsOfDiff
  <2> QED
    BY <1>2, <2>1
<1>7. CallsOf(u.answers) = CallsOf(tk.answers) \cup CallsOf(ws)
  BY <1>2, <1>3, CallsOfUnion
<1>8. \A a, b \in u.answers : a.call = b.call => a = b
  <2>1. \A a, b \in tk.answers : a.call = b.call => a = b
    BY DEF Sound, Accounted
  <2>2. CallsOf(tk.answers) \cap CallsOf(N) = {}
    BY <1>3 DEF Sound, Accounted
  <2> QED
    BY <1>2, <1>5, <2>1, <2>2, UniqueUnion
<1>9. Accounted(u, C)
  BY <1>2, <1>3, <1>6, <1>7, <1>8 DEF Sound, Accounted
<1>10. Ordered(u)
  BY <1>2 DEF Sound, Ordered
<1> QED
  BY <1>2, <1>9, <1>10 DEF Sound, Settles, u

\* Settles is transitive.
LEMMA SettlesTrans ==
    ASSUME NEW tk, NEW u, NEW v, Settles(tk, u), Settles(u, v)
    PROVE  Settles(tk, v)
BY DEF Settles

\* A commit answers operations and records their LSNs.
LEMMA CommitOpsSound ==
    ASSUME NEW tk, NEW C, Sound(tk, C), NEW ops \in SUBSET tk.pending
    PROVE  Sound(CommitOps(tk, ops), C) /\ Settles(tk, CommitOps(tk, ops))
<1> DEFINE v == AnswerOps(tk, ops, "Ok")
           K == {o.lsn : o \in ops}
<1>1. Sound(v, C) /\ Settles(tk, v)
  BY AnswerOpsSound DEF Result
<1>2. K \in SUBSET Nat /\ \A k \in K : k <= tk.highest
  BY DEF Sound, Ordered, Tracker, PendingOp
<1> HIDE DEF v, K
<1>3. Sound([v EXCEPT !.commits = @ \cup K], C) /\ Settles(tk, [v EXCEPT !.commits = @ \cup K])
  BY <1>1, <1>2 DEF Sound, Accounted, Ordered, Settles, Tracker
<1> QED
  BY <1>3 DEF CommitOps, v, K

\* try_commit_pending keeps the invariant.
LEMMA TryCommitPendingSound ==
    ASSUME NEW tk, NEW C, Sound(tk, C)
    PROVE  Sound(TryCommitPending(tk), C) /\ Settles(tk, TryCommitPending(tk))
<1> DEFINE ops == {o \in tk.pending : IsQuorumMet(tk, o.acked)}
<1>1. ops \in SUBSET tk.pending
  OBVIOUS
<1> HIDE DEF ops
<1>2. Sound(CommitOps(tk, ops), C) /\ Settles(tk, CommitOps(tk, ops))
  BY <1>1, CommitOpsSound
<1> QED
  BY <1>2 DEF TryCommitPending, ops

\* notify_catch_up_waiters keeps the invariant and the pending operations.
LEMMA NotifySound ==
    ASSUME NEW tk, NEW C, Sound(tk, C)
    PROVE  /\ Sound(NotifyCatchUpWaiters(tk), C) /\ Settles(tk, NotifyCatchUpWaiters(tk))
           /\ NotifyCatchUpWaiters(tk).pending = tk.pending
<1> DEFINE caught == {w \in tk.waiters : IsCaughtUp(tk, w.mode)}
<1>1. caught \in SUBSET tk.waiters /\ tk.waiters \in SUBSET tk.waiters
  OBVIOUS
<1> HIDE DEF caught
<1>2. /\ Sound(AnswerWaiters(tk, caught, "Ok"), C)
      /\ Settles(tk, AnswerWaiters(tk, caught, "Ok"))
  BY <1>1, AnswerWaitersSound DEF Result
<1>3. /\ Sound(AnswerWaiters(tk, tk.waiters, "NoWriteQuorum"), C)
      /\ Settles(tk, AnswerWaiters(tk, tk.waiters, "NoWriteQuorum"))
  BY <1>1, AnswerWaitersSound DEF Result
<1>4. \A ws, res : AnswerWaiters(tk, ws, res).pending = tk.pending
  BY DEF AnswerWaiters, Sound, Tracker
<1> QED
  BY <1>2, <1>3, <1>4 DEF NotifyCatchUpWaiters, caught

\* expire_due, operations.
LEMMA ExpireOpsSound ==
    ASSUME NEW tk, NEW C, Sound(tk, C)
    PROVE  Sound(ExpireOps(tk), C) /\ Settles(tk, ExpireOps(tk))
<1> DEFINE due == {o \in tk.pending : o.ttl = 0}
           v == AnswerOps(tk, due, "NoWriteQuorum")
           f == v.failed \/ (tk.active /\ due # {})
<1>1. Sound(v, C) /\ Settles(tk, v)
  BY AnswerOpsSound DEF Result
<1>2. f \in BOOLEAN
  OBVIOUS
<1>3. ExpireOps(tk) = [v EXCEPT !.failed = f]
  BY DEF ExpireOps
<1> HIDE DEF v, f
<1>4. Sound([v EXCEPT !.failed = f], C) /\ Settles(tk, [v EXCEPT !.failed = f])
  BY <1>1, <1>2 DEF Sound, Accounted, Ordered, Settles, Tracker
<1> QED
  BY <1>3, <1>4

\* expire_due, catch-up waiters.
LEMMA ExpireWaitersSound ==
    ASSUME NEW tk, NEW C, Sound(tk, C)
    PROVE  Sound(ExpireWaiters(tk), C) /\ Settles(tk, ExpireWaiters(tk))
<1> DEFINE refused == {w \in tk.waiters : tk.failed \/ w.ttl = 0}
           caught  == {w \in tk.waiters \ refused : IsCaughtUp(tk, w.mode)}
           v == AnswerWaiters(tk, refused, "NoWriteQuorum")
<1>1. refused \in SUBSET tk.waiters
  OBVIOUS
<1>2. Sound(v, C) /\ Settles(tk, v)
  BY <1>1, AnswerWaitersSound DEF Result
<1>3. caught \in SUBSET v.waiters
  <2>1. v.waiters = tk.waiters \ refused
    BY DEF AnswerWaiters, Sound, Tracker
  <2> QED
    BY <2>1
<1>4. ExpireWaiters(tk) = AnswerWaiters(v, caught, "Ok")
  BY DEF ExpireWaiters
<1> HIDE DEF v, caught
<1>5. Sound(AnswerWaiters(v, caught, "Ok"), C) /\ Settles(v, AnswerWaiters(v, caught, "Ok"))
  BY <1>2, <1>3, AnswerWaitersSound DEF Result
<1> QED
  BY <1>2, <1>4, <1>5, SettlesTrans

\* expire_due keeps the invariant and refuses every operation that is due.
LEMMA ExpireDueSound ==
    ASSUME NEW tk, NEW C, Sound(tk, C)
    PROVE  /\ Sound(ExpireDue(tk), C) /\ Settles(tk, ExpireDue(tk))
           /\ \A o \in tk.pending : o.ttl = 0 =>
                 [call |-> o.call, lsn |-> o.lsn, result |-> "NoWriteQuorum"]
                    \in ExpireDue(tk).answers
<1>1. Sound(ExpireOps(tk), C) /\ Settles(tk, ExpireOps(tk))
  BY ExpireOpsSound
<1>2. Sound(ExpireDue(tk), C) /\ Settles(ExpireOps(tk), ExpireDue(tk))
  BY <1>1, ExpireWaitersSound DEF ExpireDue
<1>3. ASSUME NEW o \in tk.pending, o.ttl = 0
      PROVE  [call |-> o.call, lsn |-> o.lsn, result |-> "NoWriteQuorum"] \in ExpireOps(tk).answers
  <2> DEFINE due == {x \in tk.pending : x.ttl = 0}
  <2>1. ExpireOps(tk).answers = tk.answers \cup OpAnswers(due, "NoWriteQuorum")
    BY DEF ExpireOps, AnswerOps, Sound, Tracker
  <2>2. [call |-> o.call, lsn |-> o.lsn, result |-> "NoWriteQuorum"]
           \in OpAnswers(due, "NoWriteQuorum")
    BY <1>3 DEF OpAnswers
  <2> QED
    BY <2>1, <2>2
<1> QED
  BY <1>1, <1>2, <1>3, SettlesTrans DEF Settles

\* Recording an acknowledgement within `highest` keeps the invariant.
LEMMA RaiseAckSound ==
    ASSUME NEW tk, NEW C, Sound(tk, C), NEW r \in Replica, NEW lsn \in Nat, lsn <= tk.highest
    PROVE  /\ Sound(RaiseAck(tk, r, lsn), C) /\ Settles(tk, RaiseAck(tk, r, lsn))
           /\ RaiseAck(tk, r, lsn).pending = tk.pending
<1> DEFINE n == Larger(tk.ackedLsn[r], lsn)
           u == [tk EXCEPT !.ackedLsn = [tk.ackedLsn EXCEPT ![r] = n]]
<1>1. n \in Nat /\ n <= tk.highest
  BY DEF Larger, Sound, Ordered, Tracker
<1>2. RaiseAck(tk, r, lsn) = u
  BY DEF RaiseAck
<1> HIDE DEF n
<1>3. Sound(u, C) /\ Settles(tk, u) /\ u.pending = tk.pending
  BY <1>1 DEF Sound, Accounted, Ordered, Settles, Tracker
<1> QED
  BY <1>2, <1>3

-----------------------------------------------------------------------------
(* Public methods of the tracker.                                          *)

\* fail_all answers everything that is tracked, with the given refusal.
LEMMA FailAllSound ==
    ASSUME NEW tk, NEW C, Sound(tk, C), NEW res \in Result
    PROVE  /\ Sound(FailAll(tk, res), C) /\ Settles(tk, FailAll(tk, res))
           /\ FailAll(tk, res).pending = {}
           /\ \A o \in tk.pending :
                 [call |-> o.call, lsn |-> o.lsn, result |-> res] \in FailAll(tk, res).answers
<1> DEFINE v == AnswerOps(tk, tk.pending, res)
           w == AnswerWaiters(v, tk.waiters, res)
           u == [w EXCEPT !.active = FALSE, !.failed = FALSE]
<1>1. Sound(v, C) /\ Settles(tk, v)
  BY AnswerOpsSound
<1>2. v.waiters = tk.waiters /\ v.pending = {}
  BY DEF AnswerOps, Sound, Tracker
<1>3. v.answers = tk.answers \cup OpAnswers(tk.pending, res)
  BY DEF AnswerOps, Sound, Tracker
<1>4. \A o \in tk.pending : [call |-> o.call, lsn |-> o.lsn, result |-> res] \in v.answers
  BY <1>3 DEF OpAnswers
<1> HIDE DEF v
<1>5. Sound(w, C) /\ Settles(v, w)
  BY <1>1, <1>2, AnswerWaitersSound
<1>6. w.pending = {}
  BY <1>1, <1>2 DEF AnswerWaiters, Sound, Tracker
<1> HIDE DEF w
<1>7. Sound(u, C) /\ Settles(w, u) /\ u.pending = {}
  BY <1>5, <1>6 DEF Sound, Accounted, Ordered, Settles, Tracker
<1>8. FailAll(tk, res) = u
  BY DEF FailAll, u, w, v
<1> HIDE DEF u
<1> QED
  BY <1>1, <1>4, <1>5, <1>7, <1>8, SettlesTrans DEF Settles

\* seed_progress, on promotion.
LEMMA SeedProgressSound ==
    ASSUME NEW tk, NEW C, Sound(tk, C),
           NEW progress \in Nat, NEW committed \in Nat, committed <= progress
    PROVE  /\ Sound(SeedProgress(tk, progress, committed), C)
           /\ SeedProgress(tk, progress, committed).highest = Larger(tk.highest, progress)
           /\ SeedProgress(tk, progress, committed).answers = tk.answers
           /\ SeedProgress(tk, progress, committed).pending = tk.pending
<1> DEFINE h == Larger(tk.highest, progress)
           u == [tk EXCEPT !.highest = h, !.commits = @ \cup {committed}]
<1>1. h \in Nat /\ h >= tk.highest /\ h >= progress
  BY DEF Larger, Sound, Tracker
<1>2. SeedProgress(tk, progress, committed) = u
  BY DEF SeedProgress
<1> HIDE DEF h
<1>3. /\ u \in Tracker /\ Accounted(u, C)
      /\ u.highest = h /\ u.answers = tk.answers /\ u.pending = tk.pending
  BY <1>1 DEF Sound, Accounted, Tracker
<1>4. Ordered(u)
  BY <1>1 DEF Sound, Ordered, Tracker, PendingOp
<1> QED
  BY <1>2, <1>3, <1>4 DEF Sound, h

\* reset_progress_after_data_loss moves every counter back together.
LEMMA ResetProgressSound ==
    ASSUME NEW tk, NEW C, Sound(tk, C),
           NEW progress \in Nat, NEW committed \in Nat, committed <= progress
    PROVE  LET u == ResetProgressAfterDataLoss(tk, progress, committed)
           IN  /\ Sound(u, C) /\ u.highest = progress
               /\ \A o \in tk.pending :
                     [call |-> o.call, lsn |-> o.lsn, result |-> "Internal"] \in u.answers
<1> DEFINE v == FailAll(tk, "Internal")
           u == [v EXCEPT !.highest = progress, !.commits = {committed},
                          !.baseline = progress, !.ackedLsn = [r \in Replica |-> 0]]
<1>1. /\ Sound(v, C) /\ v.pending = {}
      /\ \A o \in tk.pending :
            [call |-> o.call, lsn |-> o.lsn, result |-> "Internal"] \in v.answers
  BY FailAllSound DEF Result
<1>2. ResetProgressAfterDataLoss(tk, progress, committed) = u
  BY DEF ResetProgressAfterDataLoss
<1> HIDE DEF v
<1>3. u \in Tracker /\ Accounted(u, C) /\ u.highest = progress /\ u.answers = v.answers
  BY <1>1 DEF Sound, Accounted, Tracker
<1>4. Ordered(u)
  BY <1>1 DEF Sound, Ordered, Tracker
<1> QED
  BY <1>1, <1>2, <1>3, <1>4 DEF Sound

\* The assignments of set_catch_up_configuration.
LEMMA InstallCatchUpSound ==
    ASSUME NEW tk, NEW C, Sound(tk, C),
           NEW current \in Configuration, NEW previous \in Configuration,
           NEW must \in SUBSET Replica, NEW progress \in [Replica -> Nat],
           \A r \in Replica : progress[r] <= tk.highest
    PROVE  /\ Sound(InstallCatchUp(tk, current, previous, must, progress), C)
           /\ Settles(tk, InstallCatchUp(tk, current, previous, must, progress))
<1> DEFINE v == BeginAttempt(tk)
           a == [r \in Replica |-> Larger(v.ackedLsn[r], progress[r])]
           u == [v EXCEPT !.cur = current, !.prev = previous, !.mustCatchUp = must, !.ackedLsn = a]
<1>1. Sound(v, C) /\ Settles(tk, v)
  <2> DEFINE b == [tk EXCEPT !.baseline = tk.highest, !.failed = FALSE, !.active = TRUE]
  <2>1. Sound(b, C) /\ Settles(tk, b)
    <3>1. b \in Tracker /\ Accounted(b, C) /\ Settles(tk, b)
      BY DEF Sound, Accounted, Settles, Tracker
    <3>2. /\ b.baseline = tk.highest /\ b.highest = tk.highest /\ tk.highest \in Nat
          /\ b.commits = tk.commits /\ b.pending = tk.pending /\ b.ackedLsn = tk.ackedLsn
      BY DEF Sound, Tracker
    <3>3. Ordered(b)
      BY <3>2 DEF Sound, Ordered
    <3> QED
      BY <3>1, <3>3 DEF Sound
  <2>2. Settles(tk, tk)
    BY DEF Settles
  <2>3. v = tk \/ v = b
    BY DEF BeginAttempt
  <2> HIDE DEF v, b
  <2> QED
    BY <2>1, <2>2, <2>3
<1>2. a \in [Replica -> Nat] /\ \A r \in Replica : a[r] <= v.highest
  BY <1>1 DEF Sound, Ordered, Settles, Tracker, Larger
<1>3. InstallCatchUp(tk, current, previous, must, progress) = u
  BY DEF InstallCatchUp
<1> HIDE DEF v, a
<1>4. Sound(u, C) /\ Settles(v, u)
  BY <1>1, <1>2 DEF Sound, Accounted, Ordered, Settles, Tracker
<1> QED
  BY <1>1, <1>3, <1>4, SettlesTrans

\* set_catch_up_configuration, which starts with expire_due.
LEMMA SetCatchUpSound ==
    ASSUME NEW tk, NEW C, Sound(tk, C),
           NEW current \in Configuration, NEW previous \in Configuration,
           NEW must \in SUBSET Replica, NEW progress \in [Replica -> Nat],
           \A r \in Replica : progress[r] <= tk.highest
    PROVE  LET u == SetCatchUpConfiguration(tk, current, previous, must, progress)
           IN  Sound(u, C) /\ Settles(tk, u) /\ Settles(ExpireDue(tk), u)
<1> DEFINE v == ExpireDue(tk)
           w == InstallCatchUp(v, current, previous, must, progress)
           x == TryCommitPending(w)
           y == NotifyCatchUpWaiters(x)
<1>1. Sound(v, C) /\ Settles(tk, v)
  BY ExpireDueSound
<1>2. \A r \in Replica : progress[r] <= v.highest
  BY <1>1 DEF Settles
<1> HIDE DEF v
<1>3. Sound(w, C) /\ Settles(v, w)
  BY <1>1, <1>2, InstallCatchUpSound
<1> HIDE DEF w
<1>4. Sound(x, C) /\ Settles(w, x)
  BY <1>3, TryCommitPendingSound
<1> HIDE DEF x
<1>5. Sound(y, C) /\ Settles(x, y)
  BY <1>4, NotifySound
<1> HIDE DEF y
<1>6. Settles(v, y)
  BY <1>3, <1>4, <1>5, SettlesTrans
<1>7. Settles(tk, y)
  BY <1>1, <1>6, SettlesTrans
<1> QED
  BY <1>5, <1>6, <1>7 DEF SetCatchUpConfiguration, v, w, x, y

\* set_current_configuration, which starts with expire_due.
LEMMA SetCurrentSound ==
    ASSUME NEW tk, NEW C, Sound(tk, C), NEW current \in Configuration
    PROVE  LET u == SetCurrentConfiguration(tk, current)
           IN  Sound(u, C) /\ Settles(tk, u) /\ Settles(ExpireDue(tk), u)
<1> DEFINE v == ExpireDue(tk)
           w == InstallCurrent(v, current)
           x == TryCommitPending(w)
           y == NotifyCatchUpWaiters(x)
<1>1. Sound(v, C) /\ Settles(tk, v)
  BY ExpireDueSound
<1> HIDE DEF v
<1>2. NoConfiguration \in Configuration
  BY DEF NoConfiguration, Configuration
<1>3. Sound(w, C) /\ Settles(v, w)
  BY <1>1, <1>2 DEF InstallCurrent, Sound, Accounted, Ordered, Settles, Tracker
<1> HIDE DEF w
<1>4. Sound(x, C) /\ Settles(w, x)
  BY <1>3, TryCommitPendingSound
<1> HIDE DEF x
<1>5. Sound(y, C) /\ Settles(x, y)
  BY <1>4, NotifySound
<1> HIDE DEF y
<1>6. Settles(v, y)
  BY <1>3, <1>4, <1>5, SettlesTrans
<1>7. Settles(tk, y)
  BY <1>1, <1>6, SettlesTrans
<1> QED
  BY <1>5, <1>6, <1>7 DEF SetCurrentConfiguration, v, w, x, y

\* cancel_catch_up_wait.
LEMMA CancelCatchUpWaitSound ==
    ASSUME NEW tk, NEW C, Sound(tk, C), NEW id
    PROVE  /\ Sound(CancelCatchUpWait(tk, id), C) /\ Settles(tk, CancelCatchUpWait(tk, id))
           /\ CancelCatchUpWait(tk, id).pending = tk.pending
<1> DEFINE ws == {w \in tk.waiters : w.id = id}
<1>1. ws \in SUBSET tk.waiters
  OBVIOUS
<1> HIDE DEF ws
<1>2. Sound(AnswerWaiters(tk, ws, "Cancelled"), C) /\ Settles(tk, AnswerWaiters(tk, ws, "Cancelled"))
  BY <1>1, AnswerWaitersSound DEF Result
<1>3. AnswerWaiters(tk, ws, "Cancelled").pending = tk.pending
  BY DEF AnswerWaiters, Sound, Tracker
<1> QED
  BY <1>2, <1>3 DEF CancelCatchUpWait, ws

\* Answering a new call at once.
LEMMA ReplySound ==
    ASSUME NEW tk, NEW C, Sound(tk, C), NEW a \in Answer, a.call \notin C
    PROVE  LET u == [tk EXCEPT !.answers = @ \cup {a}]
           IN  Sound(u, C \cup {a.call}) /\ u.highest = tk.highest /\ u.pending = tk.pending
<1> DEFINE u == [tk EXCEPT !.answers = @ \cup {a}]
<1>1. CallsOf({a}) = {a.call}
  BY DEF CallsOf
<1>2. /\ u \in Tracker /\ u.answers = tk.answers \cup {a}
      /\ u.pending = tk.pending /\ u.waiters = tk.waiters /\ u.highest = tk.highest
      /\ u.commits = tk.commits /\ u.baseline = tk.baseline /\ u.ackedLsn = tk.ackedLsn
  BY DEF Sound, Tracker
<1> HIDE DEF u
<1>3. CallsOf(u.answers) = CallsOf(tk.answers) \cup {a.call}
  BY <1>1, <1>2, CallsOfUnion
<1>4. \A x, y \in u.answers : x.call = y.call => x = y
  <2>1. CallsOf(tk.answers) \cap CallsOf({a}) = {}
    BY <1>1 DEF Sound, Accounted
  <2>2. \A x, y \in tk.answers : x.call = y.call => x = y
    BY DEF Sound, Accounted
  <2>3. \A x, y \in {a} : x.call = y.call => x = y
    OBVIOUS
  <2> QED
    BY <1>2, <2>1, <2>2, <2>3, UniqueUnion
<1>5. Accounted(u, C \cup {a.call})
  BY <1>2, <1>3, <1>4 DEF Sound, Accounted
<1>6. Ordered(u)
  BY <1>2 DEF Sound, Ordered
<1> QED
  BY <1>2, <1>5, <1>6 DEF Sound, u

\* Adding the waiter of a new call.
LEMMA AddWaiterSound ==
    ASSUME NEW tk, NEW C, Sound(tk, C), NEW w \in CatchUpWaiter, w.call \notin C
    PROVE  /\ Sound(AddWaiter(tk, w), C \cup {w.call})
           /\ AddWaiter(tk, w).highest = tk.highest
           /\ AddWaiter(tk, w).pending = tk.pending
<1> DEFINE Replied(res) == [tk EXCEPT !.answers = @ \cup WaiterAnswers({w}, res)]
           waiting == [tk EXCEPT !.waiters = @ \cup {w}]
<1>1. CallsOf({w}) = {w.call}
  BY DEF CallsOf
<1>2. ASSUME NEW res \in Result
      PROVE  /\ Sound(Replied(res), C \cup {w.call})
             /\ Replied(res).highest = tk.highest /\ Replied(res).pending = tk.pending
  <2> DEFINE a == [call |-> w.call, lsn |-> 0, result |-> res]
  <2>1. a \in Answer /\ a.call = w.call
    BY DEF Answer, CatchUpWaiter
  <2>2. WaiterAnswers({w}, res) = {a}
    BY DEF WaiterAnswers
  <2> HIDE DEF a
  <2> QED
    BY <2>1, <2>2, ReplySound
<1>3. /\ Sound(waiting, C \cup {w.call})
      /\ waiting.highest = tk.highest /\ waiting.pending = tk.pending
  <2>1. /\ waiting \in Tracker /\ waiting.waiters = tk.waiters \cup {w}
        /\ waiting.pending = tk.pending /\ waiting.answers = tk.answers
        /\ waiting.highest = tk.highest /\ waiting.commits = tk.commits
        /\ waiting.baseline = tk.baseline /\ waiting.ackedLsn = tk.ackedLsn
    BY DEF Sound, Tracker
  <2> HIDE DEF waiting
  <2>2. CallsOf(waiting.waiters) = CallsOf(tk.waiters) \cup {w.call}
    BY <1>1, <2>1, CallsOfUnion
  <2>3. \A a, b \in waiting.waiters : a.call = b.call => a = b
    <3>1. CallsOf(tk.waiters) \cap CallsOf({w}) = {}
      BY <1>1 DEF Sound, Accounted
    <3>2. \A a, b \in tk.waiters : a.call = b.call => a = b
      BY DEF Sound, Accounted
    <3>3. \A a, b \in {w} : a.call = b.call => a = b
      OBVIOUS
    <3> QED
      BY <2>1, <3>1, <3>2, <3>3, UniqueUnion
  <2>4. Accounted(waiting, C \cup {w.call})
    BY <2>1, <2>2, <2>3 DEF Sound, Accounted
  <2>5. Ordered(waiting)
    BY <2>1 DEF Sound, Ordered
  <2> QED
    BY <2>1, <2>4, <2>5 DEF Sound
<1>4. \/ AddWaiter(tk, w) = Replied("NoWriteQuorum")
      \/ AddWaiter(tk, w) = Replied("Ok")
      \/ AddWaiter(tk, w) = waiting
  BY DEF AddWaiter
<1>5. "NoWriteQuorum" \in Result /\ "Ok" \in Result
  BY DEF Result
<1> HIDE DEF Replied, waiting
<1> QED
  BY <1>2, <1>3, <1>4, <1>5

\* wait_for_catch_up, tracked or not.
LEMMA WaitForCatchUpSound ==
    ASSUME NEW tk, NEW C, Sound(tk, C), NEW call \in Nat, call \notin C,
           NEW id \in WaitId, NEW mode \in Mode
    PROVE  LET u == WaitForCatchUp(tk, call, id, mode)
           IN  Sound(u, C \cup {call}) /\ u.highest = tk.highest /\ u.pending = tk.pending
<1> DEFINE w == [call |-> call, id |-> id, mode |-> mode, ttl |-> QuorumTimeout]
           v == IF id = "none" THEN tk ELSE CancelCatchUpWait(tk, id)
<1>1. w \in CatchUpWaiter /\ w.call = call
  BY QuorumTimeoutAssumption DEF CatchUpWaiter
<1>2. Sound(v, C) /\ v.highest = tk.highest /\ v.pending = tk.pending
  BY CancelCatchUpWaitSound DEF Settles
<1> HIDE DEF v, w
<1>3. /\ Sound(AddWaiter(v, w), C \cup {call})
      /\ AddWaiter(v, w).highest = v.highest /\ AddWaiter(v, w).pending = v.pending
  BY <1>1, <1>2, AddWaiterSound
<1> QED
  BY <1>2, <1>3 DEF WaitForCatchUp, v, w

\* Adding replicas to acked_by changes no call and no LSN.
LEMMA MarkAckedSound ==
    ASSUME NEW tk, NEW C, Sound(tk, C), NEW lsn \in Nat, NEW r \in Replica
    PROVE  Sound(MarkAcked(tk, lsn, r), C) /\ Settles(tk, MarkAcked(tk, lsn, r))
<1> DEFINE Mark(o) == IF o.lsn = lsn THEN [o EXCEPT !.acked = @ \cup {r}] ELSE o
           P == {Mark(o) : o \in tk.pending}
           u == [tk EXCEPT !.pending = P]
<1>1. \A o \in tk.pending : Mark(o) \in PendingOp /\ Mark(o).call = o.call /\ Mark(o).lsn = o.lsn
  BY DEF Sound, Tracker, PendingOp
<1>2. MarkAcked(tk, lsn, r) = u
  BY DEF MarkAcked
<1> HIDE DEF Mark
<1>3. CallsOf(P) = CallsOf(tk.pending)
  BY <1>1 DEF CallsOf
<1>4. \A o, p \in P : o.call = p.call \/ o.lsn = p.lsn => o = p
  BY <1>1 DEF Sound, Accounted
<1>5. P \in SUBSET PendingOp /\ \A o \in P : o.lsn <= tk.highest
  BY <1>1 DEF Sound, Ordered
<1> HIDE DEF P
<1>6. Sound(u, C) /\ Settles(tk, u)
  BY <1>3, <1>4, <1>5 DEF Sound, Accounted, Ordered, Settles, Tracker
<1> QED
  BY <1>2, <1>6

\* The clock changes no call and no LSN.
LEMMA ElapseSound ==
    ASSUME NEW tk, NEW C, Sound(tk, C)
    PROVE  /\ Sound(Elapse(tk), C)
           /\ Elapse(tk).highest = tk.highest /\ Elapse(tk).answers = tk.answers
<1> DEFINE Less(n) == IF n = 0 THEN 0 ELSE n - 1
           O(o) == [o EXCEPT !.ttl = Less(@)]
           P == {O(o) : o \in tk.pending}
           W == {O(w) : w \in tk.waiters}
           u == [tk EXCEPT !.pending = P, !.waiters = W]
<1>1. \A o \in tk.pending : O(o) \in PendingOp /\ O(o).call = o.call /\ O(o).lsn = o.lsn
  BY QuorumTimeoutAssumption DEF Sound, Tracker, PendingOp
<1>2. \A w \in tk.waiters : O(w) \in CatchUpWaiter /\ O(w).call = w.call
  BY QuorumTimeoutAssumption DEF Sound, Tracker, CatchUpWaiter
<1>3. Elapse(tk) = u
  BY DEF Elapse
<1> HIDE DEF O
<1>4. CallsOf(P) = CallsOf(tk.pending) /\ CallsOf(W) = CallsOf(tk.waiters)
  BY <1>1, <1>2 DEF CallsOf
<1>5. \A o, p \in P : o.call = p.call \/ o.lsn = p.lsn => o = p
  BY <1>1 DEF Sound, Accounted
<1>6. \A v, w \in W : v.call = w.call => v = w
  BY <1>2 DEF Sound, Accounted
<1>7. /\ P \in SUBSET PendingOp /\ \A o \in P : o.lsn <= tk.highest
      /\ W \in SUBSET CatchUpWaiter
  BY <1>1, <1>2 DEF Sound, Ordered
<1> HIDE DEF P, W
<1>8. /\ Sound(u, C) /\ u.highest = tk.highest /\ u.answers = tk.answers
  BY <1>4, <1>5, <1>6, <1>7 DEF Sound, Accounted, Ordered, Tracker
<1> QED
  BY <1>3, <1>8

\* register of a new LSN for a new call: what was pending stays pending.
LEMMA RegisterSound ==
    ASSUME NEW tk, NEW C, Sound(tk, C), NEW lsn \in Nat, lsn > tk.highest,
           NEW primary \in Replica, NEW call \in Nat, call \notin C
    PROVE  LET u == Register(tk, lsn, primary, call)
           IN  /\ Sound(u, C \cup {call}) /\ u.highest = lsn
               /\ tk.pending \subseteq u.pending
<1> DEFINE h == [tk EXCEPT !.highest = Larger(@, lsn)]
           seen == RaiseAck(h, primary, lsn)
           op == [lsn |-> lsn, call |-> call, acked |-> {primary}, ttl |-> QuorumTimeout]
<1>1. Sound(h, C) /\ h.highest = lsn /\ h.pending = tk.pending
  <2>1. Larger(tk.highest, lsn) = lsn
    BY DEF Larger, Sound, Tracker
  <2>2. /\ h \in Tracker /\ Accounted(h, C) /\ h.highest = lsn
        /\ h.commits = tk.commits /\ h.pending = tk.pending
        /\ h.baseline = tk.baseline /\ h.ackedLsn = tk.ackedLsn
    BY <2>1 DEF Sound, Accounted, Tracker
  <2> HIDE DEF h
  <2>3. Ordered(h)
    BY <2>2 DEF Sound, Ordered, Tracker, PendingOp
  <2> QED
    BY <2>2, <2>3 DEF Sound
<1> HIDE DEF h
<1>2. Sound(seen, C) /\ seen.highest = lsn /\ seen.pending = tk.pending
  BY <1>1, RaiseAckSound DEF Settles
<1> HIDE DEF seen
<1>3. op \in PendingOp /\ op.call = call /\ op.lsn = lsn
  BY QuorumTimeoutAssumption DEF PendingOp
<1>4. CallsOf({op}) = {call}
  BY DEF CallsOf
<1> HIDE DEF op
<1>5. \A o \in tk.pending : o.lsn # lsn /\ o # op /\ o.call # call
  <2>1. \A o \in tk.pending : o.lsn \in Nat /\ o.lsn <= tk.highest /\ tk.highest \in Nat
    BY DEF Sound, Ordered, Tracker, PendingOp
  <2>2. \A o \in tk.pending : o.call \in C
    BY DEF Sound, Accounted, CallsOf
  <2> QED
    BY <1>3, <2>1, <2>2
<1>6. /\ Sound(InsertPending(seen, op), C \cup {call})
      /\ InsertPending(seen, op).highest = lsn
      /\ tk.pending \subseteq InsertPending(seen, op).pending
  <2> DEFINE u == InsertPending(seen, op)
  <2>1. {o \in seen.pending : o.lsn # op.lsn} = tk.pending
    BY <1>2, <1>3, <1>5
  <2>2. /\ u \in Tracker /\ u.pending = tk.pending \cup {op}
        /\ u.waiters = seen.waiters /\ u.answers = seen.answers
        /\ u.highest = seen.highest /\ u.commits = seen.commits
        /\ u.baseline = seen.baseline /\ u.ackedLsn = seen.ackedLsn
    BY <1>2, <1>3, <2>1 DEF InsertPending, Sound, Tracker
  <2> HIDE DEF u
  <2>3. CallsOf(u.pending) = CallsOf(seen.pending) \cup {call}
    BY <1>2, <1>4, <2>2, CallsOfUnion
  <2>4. \A o, p \in u.pending : o.call = p.call \/ o.lsn = p.lsn => o = p
    BY <1>2, <1>3, <1>5, <2>2 DEF Sound, Accounted
  <2>5. Accounted(u, C \cup {call})
    <3>1. Accounted(seen, C)
      BY <1>2 DEF Sound
    <3>2. CallsOf(u.waiters) = CallsOf(seen.waiters) /\ CallsOf(u.answers) = CallsOf(seen.answers)
      BY <2>2
    <3> QED
      BY <2>2, <2>3, <2>4, <3>1, <3>2 DEF Accounted
  <2>6. Ordered(u)
    BY <1>2, <1>3, <2>2 DEF Sound, Ordered
  <2> QED
    BY <1>2, <2>2, <2>5, <2>6 DEF Sound, u
<1>7. /\ Sound(NotifyCatchUpWaiters(CommitOps(seen, {op})), C \cup {call})
      /\ NotifyCatchUpWaiters(CommitOps(seen, {op})).highest = lsn
      /\ tk.pending \subseteq NotifyCatchUpWaiters(CommitOps(seen, {op})).pending
  <2> DEFINE u == CommitOps(seen, {op})
             N == OpAnswers({op}, "Ok")
  <2>1. N \in SUBSET Answer
    <3>1. {op} \in SUBSET PendingOp
      BY <1>3
    <3> QED
      BY <3>1, AnswersType DEF Result
  <2>2. CallsOf(N) = {call}
    BY <1>4, CallsOfAnswers
  <2>3. \A a, b \in N : a.call = b.call => a = b
    BY DEF OpAnswers
  <2>4. {o.lsn : o \in {op}} = {lsn}
    BY <1>3
  <2>5. /\ u \in Tracker /\ u.pending = seen.pending \ {op} /\ u.answers = seen.answers \cup N
        /\ u.waiters = seen.waiters /\ u.highest = seen.highest
        /\ u.commits = seen.commits \cup {lsn}
        /\ u.baseline = seen.baseline /\ u.ackedLsn = seen.ackedLsn
    <3> HIDE DEF N
    <3>1. u = [seen EXCEPT !.pending = @ \ {op}, !.answers = @ \cup N, !.commits = @ \cup {lsn}]
      BY <1>2, <2>4 DEF CommitOps, AnswerOps, Sound, Tracker, N
    <3> HIDE DEF u
    <3> QED
      BY <1>2, <2>1, <3>1 DEF Sound, Tracker
  <2>6. u.pending = seen.pending
    BY <1>2, <1>5, <2>5
  <2> HIDE DEF u, N
  <2>7. CallsOf(u.answers) = CallsOf(seen.answers) \cup {call}
    BY <2>2, <2>5, CallsOfUnion
  <2>8. \A a, b \in u.answers : a.call = b.call => a = b
    <3>1. CallsOf(seen.answers) \cap CallsOf(N) = {}
      BY <1>2, <2>2 DEF Sound, Accounted
    <3>2. \A a, b \in seen.answers : a.call = b.call => a = b
      BY <1>2 DEF Sound, Accounted
    <3> QED
      BY <2>3, <2>5, <3>1, <3>2, UniqueUnion
  <2>9. Accounted(u, C \cup {call})
    <3>1. Accounted(seen, C)
      BY <1>2 DEF Sound
    <3>2. CallsOf(u.waiters) = CallsOf(seen.waiters) /\ CallsOf(u.pending) = CallsOf(seen.pending)
      BY <2>5, <2>6
    <3> QED
      BY <2>5, <2>6, <2>7, <2>8, <3>1, <3>2 DEF Accounted
  <2>10. Ordered(u)
    BY <1>2, <2>5, <2>6 DEF Sound, Ordered
  <2>11. Sound(u, C \cup {call})
    BY <2>5, <2>9, <2>10 DEF Sound
  <2>12. /\ Sound(NotifyCatchUpWaiters(u), C \cup {call})
         /\ NotifyCatchUpWaiters(u).highest = u.highest
         /\ NotifyCatchUpWaiters(u).pending = u.pending
    BY <2>11, NotifySound DEF Settles
  <2> QED
    BY <1>2, <2>5, <2>6, <2>12 DEF u
<1>8. \/ Register(tk, lsn, primary, call) = InsertPending(seen, op)
      \/ Register(tk, lsn, primary, call) = NotifyCatchUpWaiters(CommitOps(seen, {op}))
  BY DEF Register, seen, h, op
<1> QED
  BY <1>6, <1>7, <1>8

\* ack after its expire_due.
LEMMA RecordAckSound ==
    ASSUME NEW tk, NEW C, Sound(tk, C), NEW lsn \in Nat, lsn <= tk.highest, NEW r \in Replica
    PROVE  Sound(RecordAck(tk, lsn, r), C) /\ Settles(tk, RecordAck(tk, lsn, r))
<1> DEFINE seen   == RaiseAck(tk, r, lsn)
           marked == MarkAcked(seen, lsn, r)
           op     == {o \in marked.pending : o.lsn = lsn}
<1>1. Sound(seen, C) /\ Settles(tk, seen)
  BY RaiseAckSound
<1> HIDE DEF seen
<1>2. Sound(marked, C) /\ Settles(seen, marked)
  BY <1>1, MarkAckedSound
<1> HIDE DEF marked
<1>3. op \in SUBSET marked.pending
  OBVIOUS
<1> HIDE DEF op
<1>4. Sound(NotifyCatchUpWaiters(seen), C) /\ Settles(seen, NotifyCatchUpWaiters(seen))
  BY <1>1, NotifySound
<1> DEFINE v == CommitOps(marked, op)
           w == TryCommitPending(v)
           x == NotifyCatchUpWaiters(w)
<1>5. Sound(v, C) /\ Settles(marked, v)
  BY <1>2, <1>3, CommitOpsSound
<1> HIDE DEF v
<1>6. Sound(w, C) /\ Settles(v, w)
  BY <1>5, TryCommitPendingSound
<1> HIDE DEF w
<1>7. Sound(x, C) /\ Settles(w, x)
  BY <1>6, NotifySound
<1>8. Settles(tk, NotifyCatchUpWaiters(seen)) /\ Settles(tk, marked)
  BY <1>1, <1>2, <1>4, SettlesTrans
<1> HIDE DEF x
<1>9. Settles(tk, x)
  BY <1>5, <1>6, <1>7, <1>8, SettlesTrans
<1>10. \/ RecordAck(tk, lsn, r) = NotifyCatchUpWaiters(seen)
       \/ RecordAck(tk, lsn, r) = marked
       \/ RecordAck(tk, lsn, r) = x
  BY DEF RecordAck, seen, marked, op, v, w, x
<1> QED
  BY <1>2, <1>4, <1>7, <1>8, <1>9, <1>10

\* ack, which starts with expire_due.
LEMMA AckSound ==
    ASSUME NEW tk, NEW C, Sound(tk, C), NEW lsn \in Nat, lsn <= tk.highest, NEW r \in Replica
    PROVE  LET u == Ack(tk, lsn, r)
           IN  Sound(u, C) /\ Settles(tk, u) /\ Settles(ExpireDue(tk), u)
<1> DEFINE v == ExpireDue(tk)
<1>1. Sound(v, C) /\ Settles(tk, v)
  BY ExpireDueSound
<1>2. lsn <= v.highest
  BY <1>1 DEF Settles
<1> HIDE DEF v
<1>3. Sound(RecordAck(v, lsn, r), C) /\ Settles(v, RecordAck(v, lsn, r))
  BY <1>1, <1>2, RecordAckSound
<1>4. Settles(tk, RecordAck(v, lsn, r))
  BY <1>1, <1>3, SettlesTrans
<1> QED
  BY <1>3, <1>4 DEF Ack, v
=============================================================================
