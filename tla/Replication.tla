----------------------------- MODULE Replication -----------------------------
(***************************************************************************)
(* A partition: the replicator actors of all replicas, the streams between *)
(* a primary and its secondaries, the user's state provider (the key-value *)
(* store of examples/kvstore), and the operator's failover and replica     *)
(* build as they reach the replicas.                                       *)
(*                                                                         *)
(*   actor.rs, primary.rs   primary side: LSNs, queue, send, ACK readers   *)
(*   secondary.rs           receiver: accept_item, forward, deferred ACK   *)
(*   copy.rs                build: copy boundary and snapshot              *)
(*   kvstore                apply, rollback on UpdateEpoch, copy state     *)
(*   durable/failover.rs    order of the failover's commands               *)
(*                                                                         *)
(* Trackers are the records of QuorumOps.  Here no clock runs: Expire lets *)
(* the quorum timeout pass for everything one tracker holds.               *)
(***************************************************************************)
EXTENDS QuorumOps, Sequences, SequencesExt

CONSTANTS First,          \* the primary the partition starts with
          Founders,       \* its initial members
          MaxLsn,         \* bound: highest LSN assigned
          MaxFailovers,   \* bound: primaries that fail
          Isolation       \* a primary may be cut off from the operator and keep running

ASSUME FoundersAssumption == First \in Founders /\ Founders \subseteq Replica
ASSUME ReplicationBounds == MaxLsn \in Nat /\ MaxFailovers \in Nat
ASSUME IsolationAssumption == Isolation \in BOOLEAN

VARIABLES
    role,       \* "Idle", "Secondary", "Primary" or "Down"
    epoch,      \* the epoch each runtime was given last
    ps,         \* PartitionState: current_progress, committed_lsn
    applied,    \* items in the state provider's durable state
    tr,         \* quorum trackers
    nextLsn,    \* next_lsn of each actor
    queue,      \* LSNs each actor's replication queue retains
    conns,      \* connections of each primary
    chan,       \* chan[<<p, s>>]: items sent by p that s has not accepted yet
    inbox,      \* items accepted, waiting for the state provider
    acks,       \* acknowledgements on their way to a primary
    op,         \* the operator's operation in progress
    stable,     \* the operator's committed snapshot: primary, members, epoch
    failovers,  \* primaries that failed so far
    \* History:
    ok,         \* items whose write was answered Ok
    before,     \* those of them answered when the failover in progress began
    copies,     \* copies made: what the target then holds and the LSNs it was told
    rolledBack  \* items each state provider discarded on UpdateEpoch

replicaVars == <<role, epoch, ps, applied, tr, nextLsn, queue>>
netVars     == <<conns, chan, inbox, acks>>
operVars    == <<op, stable, failovers>>
histVars    == <<before, copies, rolledBack>>
vars == <<replicaVars, netVars, operVars, ok, histVars>>

\* What an item is: the LSN and the primary that assigned it.
Item == [lsn : 1..MaxLsn, by : Replica]

ItemOf(p, lsn) == [lsn |-> lsn, by |-> p]

Majority(S) == Cardinality(S) \div 2 + 1
ConfigOf(S) == [members |-> S, quorum |-> Majority(S)]

NoOperation == [kind |-> "none", phase |-> "none", target |-> First,
                members |-> {}, todo |-> {}, seen |-> {}, boundary |-> 0]

LastApplied(r) ==
    LET lsns == {i.lsn : i \in applied[r]} \cup {0}
    IN  CHOOSE l \in lsns : \A k \in lsns : l >= k

Init ==
    /\ role = [r \in Replica |-> IF r = First THEN "Primary"
                                 ELSE IF r \in Founders THEN "Secondary" ELSE "Idle"]
    /\ epoch = [r \in Replica |-> 1]
    /\ ps = [r \in Replica |-> [progress |-> 0, committed |-> 0]]
    /\ applied = [r \in Replica |-> {}]
    /\ tr = [r \in Replica |-> IF r = First THEN InstallCurrent(NewTracker, ConfigOf(Founders))
                               ELSE NewTracker]
    /\ nextLsn = [r \in Replica |-> 1]
    /\ queue = [r \in Replica |-> {}]
    /\ conns = [r \in Replica |-> IF r = First THEN Founders \ {First} ELSE {}]
    /\ chan = [c \in Replica \X Replica |-> <<>>]
    /\ inbox = [r \in Replica |-> <<>>]
    /\ acks = {}
    /\ op = NoOperation
    /\ stable = [primary |-> First, members |-> Founders, epoch |-> 1]
    /\ failovers = 0
    /\ ok = {}
    /\ before = {} /\ copies = {}
    /\ rolledBack = [r \in Replica |-> {}]

-----------------------------------------------------------------------------
(* Shared steps.                                                           *)

\* Store a tracker after a call: its Ok answers become part of the history,
\* its reply channels are gone, and PartitionState follows its commit point.
Store(p, tracker, state) ==
    /\ tr' = [tr EXCEPT ![p] = [tracker EXCEPT !.answers = {}]]
    /\ ok' = ok \cup {ItemOf(p, a.lsn) : a \in {b \in tracker.answers : b.lsn # 0 /\ b.result = "Ok"}}
    /\ ps' = [ps EXCEPT ![p] = [state EXCEPT !.committed = Larger(@, CommittedLsn(tracker))]]

\* Mutant: the item announces itself as committed.
MessageClaimingCommit(p, lsn, committed) ==
    [item |-> ItemOf(p, lsn), epoch |-> epoch[p], committed |-> lsn]

Message(p, lsn, committed) ==
    [item |-> ItemOf(p, lsn), epoch |-> epoch[p], committed |-> committed]

\* Mutant: the replay starts one LSN late.
ReplayLate(p, boundary) ==
    LET lsns == SetToSortSeq({l \in queue[p] : l > boundary + 1}, <)
    IN  [i \in 1..Len(lsns) |-> Message(p, lsns[i], ps[p].committed)]

\* Replay of the queue beyond the copy boundary to a newly connected replica.
Replay(p, boundary) ==
    LET lsns == SetToSortSeq({l \in queue[p] : l > boundary}, <)
    IN  [i \in 1..Len(lsns) |-> Message(p, lsns[i], ps[p].committed)]

\* The epoch accept_item compares with.  SecondaryState starts at the default
\* epoch and nothing outside the tests calls its update_epoch.
FenceEpoch(s) == 0

-----------------------------------------------------------------------------
(* Data path.                                                              *)

\* The user writes; the actor assigns the LSN, queues, registers and sends.
Write(p) ==
    /\ role[p] = "Primary"
    /\ tr[p].cur.quorum # 0
    /\ nextLsn[p] <= MaxLsn
    /\ LET lsn == nextLsn[p]
           tracker == Register(tr[p], lsn, p, lsn)
       IN  /\ Store(p, tracker, [ps[p] EXCEPT !.progress = lsn])
           /\ nextLsn' = [nextLsn EXCEPT ![p] = lsn + 1]
           /\ queue' = [queue EXCEPT ![p] = @ \cup {lsn}]
           /\ chan' = [c \in DOMAIN chan |->
                          IF c[1] = p /\ c[2] \in conns[p]
                          THEN Append(chan[c], Message(p, lsn, CommittedLsn(tracker)))
                          ELSE chan[c]]
    /\ UNCHANGED <<role, epoch, applied, conns, inbox, acks, operVars, histVars>>

\* The put handler applies its operation after replicate() returned Ok.
ApplyOwn(p) ==
    /\ role[p] = "Primary"
    /\ \E i \in ok \ applied[p] :
          /\ i.by = p
          /\ applied' = [applied EXCEPT ![p] = @ \cup {i}]
    /\ UNCHANGED <<role, epoch, ps, tr, nextLsn, queue, netVars, operVars, ok, histVars>>

\* Mutant: the item is acknowledged when it is received.
DeliverAcknowledging(p, s) ==
    /\ chan[<<p, s>>] # <<>>
    /\ role[s] \in {"Secondary", "Primary"}
    /\ LET m == Head(chan[<<p, s>>])
       IN  /\ chan' = [chan EXCEPT ![<<p, s>>] = Tail(@)]
           /\ ps' = [ps EXCEPT ![s].progress = Larger(@, m.item.lsn)]
           /\ inbox' = [inbox EXCEPT ![s] = Append(@, [item |-> m.item, epoch |-> m.epoch, from |-> p])]
           /\ acks' = acks \cup {[to |-> p, from |-> s, lsn |-> m.item.lsn]}
    /\ UNCHANGED <<role, epoch, applied, tr, nextLsn, queue, conns, operVars, ok, histVars>>

\* replication_stream: accept_item, PartitionState, forward to the user.
Deliver(p, s) ==
    /\ chan[<<p, s>>] # <<>>
    /\ role[s] \in {"Secondary", "Primary"}
    /\ LET m == Head(chan[<<p, s>>])
       IN  IF m.epoch < FenceEpoch(s)
           THEN /\ chan' = [chan EXCEPT ![<<p, s>>] = <<>>]
                /\ UNCHANGED <<ps, inbox>>
           ELSE /\ chan' = [chan EXCEPT ![<<p, s>>] = Tail(@)]
                /\ ps' = [ps EXCEPT ![s].committed = Larger(@, m.committed),
                                    ![s].progress = Larger(@, m.item.lsn)]
                /\ inbox' = [inbox EXCEPT ![s] = Append(@, [item |-> m.item, epoch |-> m.epoch, from |-> p])]
    /\ UNCHANGED <<role, epoch, applied, tr, nextLsn, queue, conns, acks, operVars, ok, histVars>>

\* The user's drain task applies an operation and acknowledges it.
Apply(s) ==
    /\ role[s] = "Secondary"
    /\ inbox[s] # <<>>
    /\ LET m == Head(inbox[s])
       IN  /\ applied' = [applied EXCEPT ![s] = @ \cup {m.item}]
           /\ acks' = acks \cup {[to |-> m.from, from |-> s, lsn |-> m.item.lsn]}
    /\ inbox' = [inbox EXCEPT ![s] = Tail(@)]
    /\ UNCHANGED <<role, epoch, ps, tr, nextLsn, queue, conns, chan, operVars, ok, histVars>>

\* An ACK reader of a connection that is still installed.
ReceiveAck(p) ==
    /\ role[p] = "Primary"
    /\ \E a \in acks :
          /\ a.to = p /\ a.from \in conns[p]
          /\ Store(p, Ack(tr[p], a.lsn, a.from), ps[p])
          /\ acks' = acks \ {a}
    /\ UNCHANGED <<role, epoch, applied, nextLsn, queue, conns, chan, inbox, operVars, histVars>>

\* The quorum timeout passes for everything p tracks.
Expire(p) ==
    /\ role[p] = "Primary"
    /\ tr[p].pending # {}
    /\ Store(p, ExpireDue(Elapse(tr[p])), ps[p])
    /\ UNCHANGED <<role, epoch, applied, nextLsn, queue, netVars, operVars, histVars>>

-----------------------------------------------------------------------------
(* Failover.                                                               *)

StartFailover ==
    /\ op = NoOperation
    /\ failovers < MaxFailovers
    /\ failovers' = failovers + 1
    /\ op' = [NoOperation EXCEPT !.kind = "failover", !.phase = "elect",
                                 !.todo = stable.members \ {stable.primary}]
    /\ before' = ok

\* The primary's process dies with its connections and in-memory state; of what
\* it had sent, the front part may still arrive.
PrimaryCrashes ==
    /\ StartFailover
    /\ LET p == stable.primary
       IN  /\ role' = [role EXCEPT ![p] = "Down"]
           /\ tr' = [tr EXCEPT ![p] = NewTracker]
           /\ conns' = [conns EXCEPT ![p] = {}]
           /\ \E kept \in [Replica -> 0..MaxLsn] :
                 /\ \A s \in Replica : kept[s] <= Len(chan[<<p, s>>])
                 /\ chan' = [c \in DOMAIN chan |->
                                IF c[1] = p THEN SubSeq(chan[c], 1, kept[c[2]])
                                ELSE IF c[2] = p THEN <<>> ELSE chan[c]]
           /\ acks' = {a \in acks : a.to # p}
    /\ UNCHANGED <<epoch, ps, applied, nextLsn, queue, inbox, stable, ok, copies, rolledBack>>

\* The operator loses contact with a primary that keeps running.
PrimaryIsolated ==
    /\ Isolation
    /\ StartFailover
    /\ UNCHANGED <<replicaVars, netVars, stable, ok, copies, rolledBack>>

\* The progress range the election accepts of a member.
Accepted(r) == ps[r].committed <= ps[r].progress

\* One reconcile asks one member that holds the role and the expected epoch and
\* records its progress; a member with an invalid range is excluded for good.
\* Nothing stops a primary that is still running, nor the other members.
Observe ==
    /\ op.kind = "failover" /\ op.phase = "elect"
    /\ \E r \in op.todo :
          /\ role[r] = "Secondary" /\ epoch[r] = stable.epoch
          /\ op' = [op EXCEPT !.todo = @ \ {r},
                              !.seen = IF Accepted(r)
                                       THEN @ \cup {[id |-> r, lsn |-> ps[r].progress]} ELSE @]
    /\ UNCHANGED <<replicaVars, netVars, stable, failovers, ok, histVars>>

\* Mutant: the first replica that answers is taken.
AnyCandidate(seen) == seen

Candidates(seen) == {o \in seen : \A q \in seen : o.lsn >= q.lsn}

\* Assessment, once all were asked: with a read quorum of accepted answers the
\* one recorded as most advanced becomes the candidate and all that were
\* accepted the target configuration.  (Silent members: see Failover.)
Elect ==
    /\ op.kind = "failover" /\ op.phase = "elect" /\ op.todo = {}
    /\ 2 * Cardinality(op.seen) >= Cardinality(stable.members)
    /\ \E o \in Candidates(op.seen) :
          op' = [op EXCEPT !.phase = "epoch", !.target = o.id,
                           !.members = {a.id : a \in op.seen}, !.seen = {}]
    /\ UNCHANGED <<replicaVars, netVars, stable, failovers, ok, histVars>>

\* UpdateEpoch on r: the state provider is told the last LSN r knows to be
\* committed and rolls back to it (kvstore only does so when it is positive).
UpdateEpoch(r) ==
    LET discarded == IF ps[r].committed > 0
                     THEN {i \in applied[r] : i.lsn > ps[r].committed} ELSE {}
    IN  /\ epoch' = [epoch EXCEPT ![r] = stable.epoch + 1]
        /\ applied' = [applied EXCEPT ![r] = @ \ discarded]
        /\ rolledBack' = [rolledBack EXCEPT ![r] = @ \cup discarded]

UpdateCandidateEpoch ==
    /\ op.kind = "failover" /\ op.phase = "epoch"
    /\ UpdateEpoch(op.target)
    /\ op' = [op EXCEPT !.phase = "promote"]
    /\ UNCHANGED <<role, ps, tr, nextLsn, queue, netVars, stable, failovers, ok, before, copies>>

\* ChangeRole(Primary): the tracker is seeded and the drain task cancelled.
\* The operator then commits a snapshot that holds the new primary only.
PromoteCandidate ==
    /\ op.kind = "failover" /\ op.phase = "promote"
    /\ LET p == op.target
       IN  /\ role' = [role EXCEPT ![p] = "Primary"]
           /\ tr' = [tr EXCEPT ![p] = SeedProgress(@, ps[p].progress, ps[p].committed)]
           /\ nextLsn' = [nextLsn EXCEPT ![p] = Larger(@, ps[p].progress + 1)]
           /\ op' = [op EXCEPT !.phase = "distribute", !.todo = op.members \ {p}]
    /\ UNCHANGED <<epoch, ps, applied, queue, netVars, stable, failovers, ok, histVars>>

UpdateSecondaryEpoch ==
    /\ op.kind = "failover" /\ op.phase = "distribute"
    /\ \E r \in op.todo :
          /\ UpdateEpoch(r)
          /\ op' = [op EXCEPT !.todo = @ \ {r}]
    /\ UNCHANGED <<role, ps, tr, nextLsn, queue, netVars, stable, failovers, ok, before, copies>>

-----------------------------------------------------------------------------
(* Building a replica.                                                     *)

\* run_build_replica_copy reads the boundary, then asks for the snapshot.
BuildStart(n) ==
    /\ op = NoOperation
    /\ role[n] = "Idle"
    /\ LET p == stable.primary
       IN  /\ role[p] = "Primary"
           /\ op' = [NoOperation EXCEPT !.kind = "add", !.phase = "copy", !.target = n,
                        !.members = stable.members \cup {n}, !.boundary = ps[p].committed]
    /\ UNCHANGED <<replicaVars, netVars, stable, failovers, ok, histVars>>

\* GetCopyState on the primary and the copy stream to the target, which then
\* becomes an active secondary.  Nothing is copied to a target that is not
\* behind; copied items carry the LSN the primary has applied, the final one
\* the boundary, and the target's progress is the largest of them.
BuildCopy ==
    /\ op.kind = "add" /\ op.phase = "copy"
    /\ LET p == stable.primary
           n == op.target
           behind == LastApplied(n) < LastApplied(p)
           reached == IF behind THEN Larger(op.boundary, LastApplied(p)) ELSE op.boundary
       IN  /\ applied' = [applied EXCEPT ![n] = IF behind THEN @ \cup applied[p] ELSE @]
           /\ ps' = [ps EXCEPT ![n].progress  = Larger(@, reached),
                               ![n].committed = Larger(@, reached)]
           /\ role' = [role EXCEPT ![n] = "Secondary"]
           /\ epoch' = [epoch EXCEPT ![n] = stable.epoch]
           /\ copies' = copies \cup {[of |-> p, items |-> applied'[n],
                                      boundary |-> op.boundary, reached |-> reached]}
    /\ op' = [op EXCEPT !.phase = "distribute"]
    /\ UNCHANGED <<tr, nextLsn, queue, netVars, stable, failovers, ok, before, rolledBack>>

-----------------------------------------------------------------------------
(* The reconfiguration both operations end with.                           *)

OperationPrimary == IF op.kind = "failover" THEN op.target ELSE stable.primary

\* A failover's previous configuration is the primary-only snapshot it
\* committed; an add's is the committed membership.
UpdateCatchUpConfiguration ==
    /\ op.phase = "distribute" /\ op.todo = {}
    /\ LET p        == OperationPrimary
           previous == IF op.kind = "failover" THEN {p} ELSE stable.members
           must     == IF op.kind = "failover" THEN {} ELSE {op.target}
           fresh    == op.members \ (conns[p] \cup {p})
           progress == [r \in Replica |-> IF r \in must THEN op.boundary
                                          ELSE IF r \in op.members THEN ps[r].progress ELSE 0]
       IN  /\ Store(p, SetCatchUpConfiguration(tr[p], ConfigOf(op.members), ConfigOf(previous),
                                               must, progress), ps[p])
           /\ conns' = [conns EXCEPT ![p] = @ \cup fresh]
           /\ chan' = [c \in DOMAIN chan |->
                          IF c[1] = p /\ c[2] \in fresh THEN Replay(p, op.boundary) ELSE chan[c]]
    /\ op' = [op EXCEPT !.phase = "wait"]
    /\ UNCHANGED <<role, epoch, applied, nextLsn, queue, inbox, acks, stable, failovers, histVars>>

\* The wait for the catch-up quorum, answered by the tracker.  A refused wait
\* poisons the operation, which then stops.
WaitForCatchUpQuorum ==
    /\ op.phase = "wait"
    /\ ~tr[OperationPrimary].failed /\ IsCaughtUp(tr[OperationPrimary], "Write")
    /\ op' = [op EXCEPT !.phase = "current"]
    /\ UNCHANGED <<replicaVars, netVars, stable, failovers, ok, histVars>>

\* UpdateCurrentConfiguration, with the queue's garbage collection; the
\* operator commits the target as the new stable snapshot.
UpdateCurrentConfiguration ==
    /\ op.phase = "current"
    /\ LET p == OperationPrimary
       IN  /\ Store(p, SetCurrentConfiguration(tr[p], ConfigOf(op.members)), ps[p])
           /\ queue' = [queue EXCEPT ![p] = {l \in @ : l > ps'[p].committed}]
           /\ stable' = [primary |-> p, members |-> op.members, epoch |-> epoch[p]]
    /\ op' = NoOperation
    /\ UNCHANGED <<role, epoch, applied, nextLsn, netVars, failovers, histVars>>

-----------------------------------------------------------------------------

Next ==
    \/ \E p \in Replica :
          \/ Write(p) \/ ApplyOwn(p) \/ ReceiveAck(p) \/ Expire(p) \/ Apply(p)
          \/ BuildStart(p)
          \/ \E s \in Replica : Deliver(p, s)
    \/ PrimaryCrashes \/ PrimaryIsolated \/ Observe \/ Elect
    \/ UpdateCandidateEpoch \/ PromoteCandidate \/ UpdateSecondaryEpoch
    \/ BuildCopy
    \/ UpdateCatchUpConfiguration \/ WaitForCatchUpQuorum \/ UpdateCurrentConfiguration

Spec == Init /\ [][Next]_vars

-----------------------------------------------------------------------------
(* Properties.                                                             *)

\* Every variable has the type the code gives it.
TypeOK ==
    /\ role \in [Replica -> {"Idle", "Secondary", "Primary", "Down"}]
    /\ epoch \in [Replica -> Nat]
    /\ ps \in [Replica -> [progress : Nat, committed : Nat]]
    /\ \A r \in Replica :
          /\ applied[r] \subseteq Item
          /\ queue[r] \subseteq 1..MaxLsn
          /\ conns[r] \subseteq Replica
          /\ tr[r] \in Tracker
          /\ \A i \in DOMAIN inbox[r] : inbox[r][i].item \in Item
    /\ nextLsn \in [Replica -> 1..(MaxLsn + 1)]
    /\ \A a \in acks : a.to \in Replica /\ a.from \in Replica /\ a.lsn \in 1..MaxLsn
    /\ stable.primary \in stable.members /\ stable.members \subseteq Replica
    /\ before \subseteq ok /\ ok \subseteq Item
    /\ copies \subseteq [of : Replica, items : SUBSET Item, boundary : Nat, reached : Nat]
    /\ rolledBack \in [Replica -> SUBSET Item]

\* What a copy lacked of the writes up to an LSN.
Lacked(c, lsn) == {ItemOf(c.of, l) : l \in 1..lsn} \ c.items

\* Below its boundary, which nothing sends again; and below the progress that it
\* gave the target, of which the part beyond the boundary is replayed.
LostByCopies   == UNION {Lacked(c, c.boundary) : c \in copies}
HiddenByCopies == UNION {Lacked(c, c.reached) : c \in copies}

Received(s) == applied[s] \cup {inbox[s][k].item : k \in DOMAIN inbox[s]}

\* The first failover of a partition of two or more members elects a replica
\* that has received every write answered Ok before the failover began, but for
\* what a copy lacked below the progress it reported, although progress is
\* recorded one replica at a time while the primary may go on committing, any
\* minority may have received more of the uncommitted tail, some writes may have
\* expired and others committed out of order (read quorum and choice of the
\* candidate in failover_election.rs).
CandidateHasReceivedAll ==
    [][/\ op.phase = "elect" /\ op'.phase # "elect"
       /\ failovers = 1 /\ Cardinality(Founders) > 1
       => before \subseteq Received(op'.target) \cup HiddenByCopies]_vars

\* The same of the writes answered until the candidate is chosen: those of a
\* primary that only the operator has lost included.
\* TLC refutes it; see Known counterexamples in the README.
CandidateHasReceivedLate ==
    [][op.phase = "elect" /\ op'.phase # "elect" =>
          ok \subseteq Received(op'.target) \cup HiddenByCopies]_vars

\* "Client successful write X is persisted" (Internals.md): also the first
\* failover of a partition that has grown from one member elects a replica with
\* every write answered before it.
\* TLC refutes it; see Known counterexamples in the README.
GrownHasReceivedAll ==
    [][op.phase = "elect" /\ op'.phase # "elect" /\ failovers = 1 =>
          before \subseteq Received(op'.target) \cup HiddenByCopies]_vars

\* "Client successful write X is persisted. I.e. no data loss" (Internals.md):
\* between operations, a write that was answered Ok is in the state of the
\* current primary, or was assigned by it and is about to be applied.
\* TLC refutes it; see Known counterexamples in the README.
CommittedSurvives ==
    op = NoOperation =>
        \A i \in ok : i \in applied[stable.primary] \/ i.by = stable.primary

Holds(s, p, i) ==
    \/ i \in applied[s]
    \/ \E k \in DOMAIN inbox[s] : inbox[s][k].item = i
    \/ \E k \in DOMAIN chan[<<p, s>>] : chan[<<p, s>>][k].item = i

\* "config is finalized, all replicas are caught up" (actor.rs, garbage
\* collection after UpdateCurrentConfiguration): between operations every
\* member of the configuration has every committed write, or it is on its way.
\* TLC refutes it; see Known counterexamples in the README.
MembersHoldCommitted ==
    op = NoOperation /\ role[stable.primary] = "Primary" =>
        \A s \in stable.members \ {stable.primary} : \A i \in ok :
            Holds(s, stable.primary, i)

\* The same up to what the copy snapshot itself left out: the boundary, the
\* replay of the queue and live replication together leave no gap and the
\* queue is never collected too early, whatever commits during the build.
OnlySnapshotLagIsLost ==
    op = NoOperation /\ role[stable.primary] = "Primary" =>
        \A s \in stable.members \ {stable.primary} : \A i \in ok :
            Holds(s, stable.primary, i) \/ i \in LostByCopies

\* The committed LSN a replica believes in, which decides how far it rolls back
\* and which boundary a copy gets, is that of a write some primary committed or
\* of one in the durable state that a primary handed over in a copy: no replica
\* takes an LSN for committed that was only received.
CommittedIsCommitted ==
    \A r \in Replica :
        ps[r].committed # 0 => \E i \in ok \cup UNION {c.items : c \in copies} : i.lsn = ps[r].committed

\* The state is well typed and the committed LSNs that replicas roll back to are
\* those of committed or copied writes.
Consistent ==
    /\ TypeOK
    /\ CommittedIsCommitted

\* When a write is answered Ok, enough members of the configuration besides the
\* primary have put it in their durable state, unless a failover made them
\* discard it since: an acknowledgement is only sent after the state provider
\* has applied the operation.
OkIsDurable ==
    [][\A i \in ok' \ ok :
          LET config == tr'[i.by].cur
          IN  Cardinality({s \in config.members : i \in applied'[s] \cup rolledBack'[s]} \cup {i.by})
                 >= config.quorum]_vars

\* "Secondaries reject operations with epoch < current_epoch": no item of an
\* older epoch is accepted by a replica that has been told a newer one.
\* TLC refutes it; see Known counterexamples in the README.
StaleItemsRejected ==
    [][\A s \in Replica : Len(inbox'[s]) > Len(inbox[s]) =>
          Last(inbox'[s]).epoch >= epoch[s]]_vars
=============================================================================
