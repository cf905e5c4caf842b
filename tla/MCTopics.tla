------------------------------ MODULE MCTopics ------------------------------
(* The reference solutions of the other protocol topics, one at a time.  A *)
(* behaviour picks a topic and runs it; the rest stay as `init` made them. *)
EXTENDS Paxos, Sequences

CONSTANTS
    p1, p2, v1, v2,       \* the proposers and their values
    Participant,          \* of the three commit topics
    Process, Sender,      \* of ordered broadcast
    Server, Founders,     \* of membership changes
    OutboxEvent,          \* of the outbox
    Committed, LeaderLogs, FirstLogs,    \* of log compaction
    Steps,                \* of a saga
    Replicas,             \* of the register and of anti-entropy
    Writer,               \* of the register
    Window,               \* of the consumer
    MaxBallot, MaxSlot, MaxMessages, MaxTs, MaxVersion, MaxCrashes   \* bounds

ASSUME TopicsAssumption ==
    /\ IsFiniteSet(Participant) /\ Sender \subseteq Process
    /\ IsFiniteSet(Server) /\ Founders \subseteq Server /\ Founders # {}
    /\ Steps \in Nat \ {0} /\ Replicas \in Nat \ {0}
    /\ Writer \subseteq Nat \ {0} /\ Window \in Nat
    /\ MaxBallot \in Nat /\ MaxSlot \in Nat /\ MaxTs \in Nat /\ MaxVersion \in Nat

(* Raft's logs: terms, two logs that agree on the term of an entry agree   *)
(* on all before it, and leaders hold what is committed.                   *)
Matching(k, l) ==
    \A i \in DOMAIN k \cap DOMAIN l : k[i] = l[i] => \A j \in 1 .. i : k[j] = l[j]

ASSUME LogsAssumption ==
    /\ Committed \in Seq(Nat) /\ FirstLogs \subseteq Seq(Nat) /\ LeaderLogs \subseteq Seq(Nat)
    /\ \A l \in LeaderLogs : \A i \in DOMAIN Committed : i \in DOMAIN l /\ l[i] = Committed[i]
    /\ \A k, l \in FirstLogs \cup LeaderLogs \cup {Committed} : Matching(k, l)

VARIABLES topic, mp, applied, snap, twin, config, settled, tx2, tx3, hasty, rm, coord,
          ch, box, consumer, effects, crashes, ord, past, reg, told, gone, ae, written

(* One proposer comes back with a higher number after its rival. *)
TwoRounds == {<<p1, 1, v1>>, <<p2, 2, v2>>, <<p1, 3, v1>>}

MP == INSTANCE MultiPaxos

(* Two leaders that continue the committed log differently, and followers  *)
(* that start empty, behind, or with the tail of a leader that lost.       *)
FourEntries == <<1, 1, 2, 3>>
TwoLeaders == {<<1, 1, 2, 3>>, <<1, 1, 2, 3, 3>>, <<1, 1, 2, 3, 4>>}
Followers == {<<>>, <<1>>, <<1, 1, 1, 1, 1>>, <<1, 1, 2, 2>>}

RS == INSTANCE RaftSnapshot
RM == INSTANCE RaftMembership WITH Start <- Founders
T2 == INSTANCE TwoPhase WITH tx <- tx2, ByTheBook <- TRUE
T3 == INSTANCE ThreePhase WITH tx <- tx3
CR == INSTANCE CommitRecovery
CH == INSTANCE Choreo
MSG == INSTANCE Messaging WITH Event <- OutboxEvent
ORD == INSTANCE Ordering
ABD == INSTANCE Abd
AE == INSTANCE AntiEntropy

Topic == {"paxos", "multi-paxos", "raft-snapshot", "raft-membership", "two-phase-commit",
          "three-phase-commit", "commit-recovery", "saga-choreo", "outbox", "ordering",
          "abd", "anti-entropy"}

vars == <<topic, paxosVars, mp, applied, snap, twin, config, settled, tx2, tx3, hasty, rm,
          coord, ch, box, consumer, effects, crashes, ord, past, reg, told, gone, ae, written>>
-----------------------------------------------------------------------------
(* Where `init` leaves a choice, only the topic that runs makes it. *)
MCInit ==
    /\ topic \in Topic
    /\ Init /\ MP!Init /\ RS!Init /\ RM!Init /\ T2!Init /\ T3!Init /\ CR!Init /\ CH!Init
    /\ MSG!Init /\ ORD!Init /\ ABD!Init /\ AE!Init
    /\ topic = "raft-snapshot" \/ twin = <<>>
    /\ topic = "ordering" \/ ord.order = "fifo"

Unless(t, v) == IF topic = t THEN TRUE ELSE UNCHANGED v

(* A step of topic t: no other topic moves. *)
Runs(t) ==
    /\ topic = t /\ UNCHANGED topic
    /\ Unless("paxos", paxosVars)
    /\ Unless("multi-paxos", <<mp, applied>>)
    /\ Unless("raft-snapshot", <<snap, twin>>)
    /\ Unless("raft-membership", <<config, settled>>)
    /\ Unless("two-phase-commit", tx2)
    /\ Unless("three-phase-commit", <<tx3, hasty>>)
    /\ Unless("commit-recovery", <<rm, coord>>)
    /\ Unless("saga-choreo", ch)
    /\ Unless("outbox", <<box, consumer, effects, crashes>>)
    /\ Unless("ordering", <<ord, past>>)
    /\ Unless("abd", <<reg, told, gone>>)
    /\ Unless("anti-entropy", <<ae, written>>)

MCNext ==
    \/ Runs("paxos") /\ Next
    \/ Runs("multi-paxos") /\ MP!Next
    \/ Runs("raft-snapshot") /\ RS!Next
    \/ Runs("raft-membership") /\ RM!Next
    \/ Runs("two-phase-commit") /\ T2!Next
    \/ Runs("three-phase-commit") /\ T3!Next
    \/ Runs("commit-recovery") /\ CR!Next
    \/ Runs("saga-choreo") /\ CH!Next
    \/ Runs("outbox") /\ MSG!Next
    \/ Runs("ordering") /\ ORD!Next
    \/ Runs("abd") /\ ABD!Next
    \/ Runs("anti-entropy") /\ AE!Next

MCSpec == MCInit /\ [][MCNext]_vars /\ Fairness
-----------------------------------------------------------------------------
(* Multi-Paxos: a replica never undoes what it applied.  The definition    *)
(* below, like those that follow, is stated in the module of its topic.    *)
AppliedStands == MP!AppliedStands

(* raft-snapshot: compaction hides nothing and loses nothing. *)
CompactionIsInvisible == RS!CompactionIsInvisible

(* raft-membership: decisions before and during a change share a voter. *)
DecisionsOverlap == RM!DecisionsOverlap

(* two-phase-commit: it implements atomic commit. *)
ImplementsTCommit == T2!ImplementsTCommit

(* three-phase-commit: it splits only after a hasty timeout. *)
SplitNeedsHaste == T3!SplitNeedsHaste

(* commit-recovery: a participant that voted yes never decides alone, and  *)
(* knows after a crash what it had logged.                                 *)
RecoveryKeepsPromise == CR!RecoveryKeepsPromise

(* saga-choreo: the events amount to an orchestrated saga. *)
ImplementsSaga == CH!ImplementsSaga

(* outbox and dedup: every committed event has one effect. *)
EffectivelyOnce == MSG!EffectivelyOnce

(* ordering: FIFO, causal and total order are kept. *)
OrderKept == ORD!OrderKept

(* abd: no read returns less than a client was told before. *)
ReadsNeverGoBack == ABD!ReadsNeverGoBack

(* anti-entropy: only a stand-in that is down keeps a handoff from its end. *)
HandoffCatchesUp == AE!HandoffCatchesUp
=============================================================================
