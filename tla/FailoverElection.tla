--------------------------- MODULE FailoverElection ---------------------------
(***************************************************************************)
(* The election of failover_election.rs: which observations count, whether *)
(* the read quorums are there, and who becomes primary.  Replica ids are   *)
(* naturals because ties are broken by the smaller id.  An epoch is the    *)
(* pair <<data loss number, configuration number>>.                        *)
(*                                                                         *)
(* A configuration is a function from its member ids to records            *)
(*    [inst, dropped, known]      (ElectionMember)                         *)
(* and an observation a record                                             *)
(*    [inst, epoch, role, healthy, lsn, committed, retained, deact,        *)
(*     catchUp, matches]          (ElectionObservation).                   *)
(* Unknown stands for every absent Option.                                 *)
(***************************************************************************)
EXTENDS Integers, FiniteSets, FiniteSetsExt, TLC

CONSTANTS Replica, Unknown

ASSUME ReplicaAssumption == IsFiniteSet(Replica) /\ Replica \subseteq Nat

\* The map f after x is mapped to v.
With(f, x, v) == [y \in DOMAIN f \cup {x} |-> IF y = x THEN v ELSE f[y]]

EpochLess(d, e) == d[1] < e[1] \/ (d[1] = e[1] /\ d[2] < e[2])

LatestEpoch(S) == CHOOSE e \in S : \A d \in S : d = e \/ EpochLess(d, e)

-----------------------------------------------------------------------------
(* Which observations count.                                               *)

\* observation_exclusion: the first reason that applies.
Exclusion(member, o, expected) ==
    IF member.dropped THEN "Dropped"
    ELSE IF o.inst # member.inst THEN "IncarnationMismatch"
    ELSE IF o.role \notin {"Primary", "ActiveSecondary"} THEN "IneligibleRole"
    ELSE IF o.epoch # expected THEN "EpochMismatch"
    ELSE IF ~o.healthy THEN "Unhealthy"
    ELSE IF o.retained = Unknown THEN "UnknownProgress"
    ELSE IF o.retained > o.committed \/ o.committed > o.lsn THEN "InvalidProgressRange"
    ELSE IF ~o.matches THEN "ConfigurationMismatch"
    ELSE "None"

\* Mutant: a replica without a role is waited for.
RolelessIsTransient ==
    {"IncarnationMismatch", "EpochMismatch", "Unhealthy", "UnknownProgress", "IneligibleRole"}

\* FailoverObservationExclusion::transient: the reasons that may go away.
Transient == {"IncarnationMismatch", "EpochMismatch", "Unhealthy", "UnknownProgress"}

AllMembers(in) ==
    [m \in DOMAIN in.current \cup DOMAIN in.previous |->
        IF m \in DOMAIN in.current THEN in.current[m] ELSE in.previous[m]]

ExclusionOf(in, m) == Exclusion(AllMembers(in)[m], in.obs[m], in.expected)

AcceptedObservations(in) ==
    {m \in DOMAIN in.obs \cap DOMAIN AllMembers(in) : ExclusionOf(in, m) = "None"}

\* Members whose answer is final: accepted, or excluded for good.
Settled(in) ==
    {m \in DOMAIN in.obs \cap DOMAIN AllMembers(in) : ExclusionOf(in, m) \notin Transient}

-----------------------------------------------------------------------------
(* Read quorums.                                                           *)

Required(c) == (Cardinality(DOMAIN c) + 1) \div 2

AcceptedIn(in, c) == DOMAIN c \cap AcceptedObservations(in)

\* Mutant: only members that have answered are outstanding.
AnsweredIn(in, c) ==
    {m \in DOMAIN c \cap DOMAIN in.obs :
        /\ m \notin AcceptedObservations(in)
        /\ Exclusion(c[m], in.obs[m], in.expected) \in Transient}

\* Members of c that may still be accepted.
OutstandingIn(in, c) ==
    {m \in DOMAIN c : /\ ~c[m].dropped
                      /\ m \in DOMAIN in.obs =>
                            /\ m \notin AcceptedObservations(in)
                            /\ Exclusion(c[m], in.obs[m], in.expected) \in Transient}

Satisfied(in, c) == Cardinality(AcceptedIn(in, c)) >= Required(c)

CanStillBeSatisfied(in, c) ==
    Cardinality(AcceptedIn(in, c)) + Cardinality(OutstandingIn(in, c)) >= Required(c)

\* The current and, when there is one, the previous configuration.
Configurations(in) == {in.current} \cup (IF in.previous = << >> THEN {} ELSE {in.previous})

-----------------------------------------------------------------------------
(* The candidate.                                                          *)

\* Mutant: the smaller id wins whatever the progress.
OutranksById(x, y) == x.id < y.id

\* compare_candidates and compare_last_known: freshest deactivation, then the
\* larger LSN, the longer retained log, the smaller id.
Outranks(x, y) ==
    \/ EpochLess(y.deact, x.deact)
    \/ /\ x.deact = y.deact
       /\ \/ x.lsn > y.lsn
          \/ x.lsn = y.lsn /\ x.retained < y.retained
          \/ x.lsn = y.lsn /\ x.retained = y.retained /\ x.id < y.id

RankOf(m, o) == [id |-> m, deact |-> o.deact, lsn |-> o.lsn, retained |-> o.retained]

WithDeactivation(in) ==
    {m \in AcceptedObservations(in) \ {in.failed} : in.obs[m].deact # Unknown}

FreshestDeactivation(in) == LatestEpoch({in.obs[m].deact : m \in WithDeactivation(in)})

\* select_candidate's list: replicas whose log reaches back far enough, or
\* all of them when there is none.
Candidates(in) ==
    LET fresh   == {m \in WithDeactivation(in) : in.obs[m].deact = FreshestDeactivation(in)}
        capable == {m \in fresh : in.obs[m].retained <= in.catchUp}
    IN  IF capable = {} THEN fresh ELSE capable

SelectCandidate(in) ==
    CHOOSE m \in Candidates(in) :
        \A n \in Candidates(in) \ {m} : Outranks(RankOf(m, in.obs[m]), RankOf(n, in.obs[n]))

\* Members that have not answered for good and are no part of the failure.
Missing(in) ==
    {m \in DOMAIN AllMembers(in) \ ({in.failed} \cup Settled(in)) : ~AllMembers(in)[m].dropped}

\* possibly_better_outstanding: judged by what the last stable snapshot knew.
PossiblyBetter(in, candidate) ==
    {m \in Missing(in) :
        LET known == AllMembers(in)[m].known
        IN  known # Unknown =>
                Outranks(RankOf(m, known), RankOf(candidate, in.obs[candidate]))}

-----------------------------------------------------------------------------

Decision(kind, candidate) == [kind |-> kind, candidate |-> candidate]

Evaluate(in) ==
    IF WithDeactivation(in) = {}
    THEN Decision(IF Missing(in) = {} THEN "Error" ELSE "WaitForBestCandidate", Unknown)
    ELSE LET m == SelectCandidate(in)
         IN  IF PossiblyBetter(in, m) # {} THEN Decision("WaitForBestCandidate", m)
             ELSE IF \A c \in Configurations(in) : Satisfied(in, c) THEN Decision("Proceed", m)
             ELSE IF \A c \in Configurations(in) : CanStillBeSatisfied(in, c)
                  THEN Decision("WaitForQuorum", m)
             ELSE Decision("DataLossRequired", m)

\* build_target: the members of the configuration that follows.
TargetMembers(in, candidate) ==
    {m \in DOMAIN in.current \cap WithDeactivation(in) :
        /\ in.obs[m].deact = FreshestDeactivation(in)
        /\ m = candidate \/ in.obs[m].retained <= in.catchUp}

\* election_input: what the candidate must be able to serve.
RequiredCatchUp(in) ==
    Max({0} \cup {in.obs[m].catchUp : m \in {n \in AcceptedObservations(in) : in.obs[n].deact # Unknown}})

Majority(S) == Cardinality(S) \div 2 + 1
=============================================================================
