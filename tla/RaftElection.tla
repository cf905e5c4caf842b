---------------------------- MODULE RaftElection ----------------------------
(***************************************************************************)
(* The reference Raft election machine of the algorithm ladder             *)
(* (disttest/examples/alg/raft.rs, topic raft-election): a cluster of such *)
(* machines, one per server, whose answers travel over a network that may  *)
(* lose, duplicate, delay and reorder every message.                       *)
(*                                                                         *)
(* Each command of the topic that changes state is an action.  The grammar *)
(* calls the driven node "self"; here it is the server itself, in votedFor,*)
(* leader and granters alike.  The network is not in the repository: what  *)
(* is sent is what the commands take as arguments and give as answers.     *)
(***************************************************************************)
EXTENDS Integers, Sequences, FiniteSets

CONSTANTS
    Server,     \* the members counted by `init`
    None,       \* the null of voted_for and leader
    MayTimeOut, \* bound: the candidacies that may happen, as <<server, term>>
    MaxTerm,    \* bound: terms of `log-append`
    MaxLog      \* bound: no log grows once one has this many entries

ASSUME ServerAssumption == IsFiniteSet(Server) /\ None \notin Server
ASSUME BoundAssumption == MaxTerm \in Nat /\ MaxLog \in Nat

VARIABLES
    node,       \* per server: struct Election without its log
    log,        \* per server: the term of each entry, index 1 upwards
    msgs,       \* every message ever sent; a delivery does not remove it
    votes,      \* history: every vote cast, as <<term, voter, candidate>>
    elected     \* history: every election won, as <<term, server>>

electionVars == <<node, log, msgs, votes, elected>>

Role == {"follower", "candidate", "leader"}
Election == [term : Nat, role : Role, votedFor : Server \cup {None},
             leader : Server \cup {None}, granters : SUBSET Server]

Message ==
    [type : {"request-vote"}, term : Nat, candidate : Server,
     lastIndex : Nat, lastTerm : Nat]
    \cup [type : {"vote-response"}, term : Nat, voter : Server,
          candidate : Server, granted : BOOLEAN]
    \cup [type : {"append-entries"}, term : Nat, leader : Server]

(* members / 2 + 1 *)
Majority == (Cardinality(Server) \div 2) + 1

(* Faulty variant: an empty log has no last term rather than term 0. *)
LastTermOfEmptyIsNegative(s) == IF log[s] = <<>> THEN -1 ELSE log[s][Len(log[s])]

LastIndex(s) == Len(log[s])
LastTerm(s) == IF log[s] = <<>> THEN 0 ELSE log[s][Len(log[s])]

(* Is a candidate's log at least as up to date as that of s? *)
UpToDate(s, lastIndex, lastTerm) ==
    \/ lastTerm > LastTerm(s)
    \/ lastTerm = LastTerm(s) /\ lastIndex >= LastIndex(s)

(* Raft's one universal rule: a higher term makes a node a follower of it, *)
(* with no vote, no leader and no tally.                                   *)
StepDown(n, t) ==
    [n EXCEPT !.term = t, !.role = "follower", !.votedFor = None,
              !.leader = None, !.granters = {}]

(* Faulty variant: >= for >, so a message of the same term steps it down. *)
AtSameTermToo(s, t) == IF t >= node[s].term THEN StepDown(node[s], t) ELSE node[s]

(* The node a message of term t finds: stepped down first if t is higher.  *)
At(s, t) == IF t > node[s].term THEN StepDown(node[s], t) ELSE node[s]

Send(m) == msgs' = msgs \cup {m}

Init ==
    /\ node = [s \in Server |-> [term |-> 0, role |-> "follower", votedFor |-> None,
                                 leader |-> None, granters |-> {}]]
    /\ log = [s \in Server |-> <<>>]
    /\ msgs = {}
    /\ votes = {}
    /\ elected = {}
-----------------------------------------------------------------------------
(* `log-append <term>` *)
LogAppend(s, t) ==
    /\ \A u \in Server : Len(log[u]) < MaxLog
    /\ log' = [log EXCEPT ![s] = Append(@, t)]
    /\ UNCHANGED <<node, msgs, votes, elected>>

(* `timeout`: a leader ignores it, anyone else votes for itself in a new   *)
(* term.                                                                   *)
Timeout(s) ==
    /\ node[s].role # "leader"
    /\ <<s, node[s].term + 1>> \in MayTimeOut
    /\ node' = [node EXCEPT ![s] =
                  [term |-> @.term + 1, role |-> "candidate", votedFor |-> s,
                   leader |-> None, granters |-> {s}]]
    /\ votes' = votes \cup {<<node[s].term + 1, s, s>>}
    /\ UNCHANGED <<log, msgs, elected>>

(* A candidate asks for votes, as often as it likes. *)
AskForVotes(s) ==
    /\ node[s].role = "candidate"
    /\ Send([type |-> "request-vote", term |-> node[s].term, candidate |-> s,
             lastIndex |-> LastIndex(s), lastTerm |-> LastTerm(s)])
    /\ UNCHANGED <<node, log, votes, elected>>

(* Faulty variant: the vote already cast in this term is not looked at. *)
FreeAlways(n, c) == TRUE

(* May s vote for c?  The vote is free, or already c's. *)
Free(n, c) == n.votedFor \in {None, c}

(* `request-vote`: an older term is refused with the node's own term.      *)
RequestVote(s, m) ==
    /\ m.type = "request-vote" /\ m.candidate # s
    /\ LET n == At(s, m.term)
           granted == /\ m.term >= n.term
                      /\ Free(n, m.candidate)
                      /\ UpToDate(s, m.lastIndex, m.lastTerm)
       IN  /\ node' = [node EXCEPT ![s] =
                         IF granted THEN [n EXCEPT !.votedFor = m.candidate] ELSE n]
           /\ votes' = IF granted THEN votes \cup {<<n.term, s, m.candidate>>} ELSE votes
           /\ Send([type |-> "vote-response", term |-> n.term, voter |-> s,
                    candidate |-> m.candidate, granted |-> granted])
    /\ UNCHANGED <<log, elected>>

(* `vote-response`: an answer of a newer term ends the candidacy, one of   *)
(* an older term answers a question no longer asked, and a repeated one    *)
(* counts once.                                                            *)
VoteResponse(s, m) ==
    /\ m.type = "vote-response" /\ m.candidate = s
    /\ LET n == At(s, m.term)
           counts == m.term = node[s].term /\ n.role = "candidate" /\ m.granted
           tally == n.granters \cup {m.voter}
           won == counts /\ Cardinality(tally) >= Majority
       IN  /\ node' = [node EXCEPT ![s] =
                         IF won THEN [n EXCEPT !.granters = tally, !.role = "leader",
                                               !.leader = s]
                         ELSE IF counts THEN [n EXCEPT !.granters = tally]
                         ELSE n]
           /\ elected' = IF won THEN elected \cup {<<n.term, s>>} ELSE elected
    /\ UNCHANGED <<log, msgs, votes>>

(* A leader's heartbeat. *)
Heartbeat(s) ==
    /\ node[s].role = "leader"
    /\ Send([type |-> "append-entries", term |-> node[s].term, leader |-> s])
    /\ UNCHANGED <<node, log, votes, elected>>

(* Faulty variant: the leader of an older term is followed too. *)
AppendEntriesOfAnyTerm(s, m) ==
    /\ m.type = "append-entries" /\ m.leader # s
    /\ node' = [node EXCEPT ![s] = [At(s, m.term) EXCEPT !.role = "follower",
                                                         !.leader = m.leader]]
    /\ UNCHANGED <<log, msgs, votes, elected>>

(* `append-entries`: a leader of this term or a newer one is followed, one *)
(* of an older term is refused.                                            *)
AppendEntries(s, m) ==
    /\ m.type = "append-entries" /\ m.leader # s
    /\ m.term >= node[s].term
    /\ node' = [node EXCEPT ![s] = [At(s, m.term) EXCEPT !.role = "follower",
                                                         !.leader = m.leader]]
    /\ UNCHANGED <<log, msgs, votes, elected>>

Next ==
    \/ \E s \in Server :
          \/ \E t \in 1 .. MaxTerm : LogAppend(s, t)
          \/ Timeout(s)
          \/ AskForVotes(s)
          \/ Heartbeat(s)
    \/ \E s \in Server, m \in msgs :
          RequestVote(s, m) \/ VoteResponse(s, m) \/ AppendEntries(s, m)

Spec == Init /\ [][Next]_electionVars
-----------------------------------------------------------------------------
TypeOK ==
    /\ node \in [Server -> Election]
    /\ log \in [Server -> Seq(Nat)]
    /\ msgs \subseteq Message
    /\ votes \subseteq Nat \X Server \X Server
    /\ elected \subseteq Nat \X Server

(* Election Safety: no two servers ever win the same term, however late,   *)
(* reordered or often votes and requests arrive.                           *)
OneLeaderPerTerm ==
    \A e, f \in elected : e[1] = f[1] => e[2] = f[2]

(* A node follows only a server that won the term the node is in, so two   *)
(* nodes of one term never name different leaders.                         *)
LeaderWasElected ==
    \A s \in Server :
        node[s].leader # None => <<node[s].term, node[s].leader>> \in elected

(* "A node votes only once per term": once cast, the vote of a term stays. *)
VoteIsFinal ==
    [][\A s \in Server :
          /\ node'[s].term >= node[s].term
          /\ node'[s].term = node[s].term /\ node[s].votedFor # None
               => node'[s].votedFor = node[s].votedFor]_electionVars
=============================================================================
