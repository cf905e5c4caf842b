-------------------------- MODULE RaftReplication ---------------------------
(***************************************************************************)
(* The reference Raft topics put together (disttest/examples/alg/raft.rs): *)
(* each server runs raft-election, answers AppendEntries as raft-log does, *)
(* and keeps raft-commit's books while it leads.  The three share one term *)
(* and one log, which the topics keep a copy of each.                      *)
(*                                                                         *)
(* Commands are actions.  The topics do not send anything themselves: that *)
(* a leader asks for what a peer's next_index says, that an answer finds   *)
(* its leader and says how far the request reached, is external.           *)
(***************************************************************************)
EXTENDS RaftElection, FiniteSetsExt

CONSTANT
    MaxRequests  \* bound: AppendEntries requests

VARIABLES
    commitIndex,  \* per server: LogReplication.commit_index
    books,        \* per server: struct Commitment, once it has led
    rpcs,         \* every AppendEntries request and answer ever sent
    committed     \* history: what leaders committed, as [term, log]

replicationVars == <<commitIndex, books, rpcs, committed>>
raftVars == <<electionVars, replicationVars>>

Books == [commit : Nat, match : [Server -> Nat], next : [Server -> Nat]]

Request == [type : {"append"}, term : Nat, leader : Server, to : Server, prevIndex : Nat,
            prevTerm : Nat, leaderCommit : Nat, entries : Seq(Nat)]
Answer == [type : {"answer"}, term : Nat, from : Server, to : Server, success : BOOLEAN,
           index : Nat]

TermAt(l, i) == IF i \in DOMAIN l THEN l[i] ELSE 0

(* LogReplication::run_start: the first index of the run of entries that   *)
(* share the term held at i.                                               *)
RunStart(l, i) == Min({j \in 1 .. i : \A k \in j .. i : l[k] = l[i]})

(* Faulty variant: the log is cut where the request ends, matching or not. *)
OverwriteTail(l, prev, entries) == SubSeq(l, 1, prev) \o entries

(* The follower's loop over the entries: those it already has stay where   *)
(* they are, the first that conflicts or is missing cuts the log there.    *)
Merge(l, prev, entries) ==
    LET New == {k \in DOMAIN entries : TermAt(l, prev + k) # entries[k]}
    IN  IF New = {} THEN l
        ELSE LET k == Min(New)
             IN  SubSeq(l, 1, prev + k - 1) \o SubSeq(entries, k, Len(entries))

(* Commitment::replicas: the leader counts itself. *)
Replicas(s, match, i) == 1 + Cardinality({p \in Server \ {s} : match[p] >= i})

(* Faulty variant: a majority is enough, whatever the entry's term.        *)
AdvanceByCounting(s, match, commit) ==
    LET Safe == {i \in (commit + 1) .. Len(log[s]) : Replicas(s, match, i) >= Majority}
    IN  IF Safe = {} THEN commit ELSE Max(Safe)

(* Commitment::advance_commit: the highest index a majority holds from the *)
(* leader's own term; an earlier entry only goes with it.                  *)
AdvanceCommit(s, match, commit) ==
    LET Safe == {i \in (commit + 1) .. Len(log[s]) :
                    Replicas(s, match, i) >= Majority /\ log[s][i] = node[s].term}
    IN  IF Safe = {} THEN commit ELSE Max(Safe)

(* `init` of raft-commit, when a server has won. *)
NewBooks(s) == [commit |-> 0, match |-> [p \in Server |-> 0],
                next |-> [p \in Server |-> Len(log[s]) + 1]]

InitReplication ==
    /\ commitIndex = [s \in Server |-> 0]
    /\ books = [s \in Server |-> [commit |-> 0, match |-> [p \in Server |-> 0],
                                  next |-> [p \in Server |-> 1]]]
    /\ rpcs = {}
    /\ committed = {}
-----------------------------------------------------------------------------
StartElection(s) == Timeout(s) /\ UNCHANGED replicationVars

Ask(s) == AskForVotes(s) /\ UNCHANGED replicationVars

Vote(s, m) == RequestVote(s, m) /\ UNCHANGED replicationVars

(* The vote that completes a majority starts the books of the new leader.  *)
CountVote(s, m) ==
    /\ VoteResponse(s, m)
    /\ books' = IF node[s].role # "leader" /\ node'[s].role = "leader"
                THEN [books EXCEPT ![s] = NewBooks(s)] ELSE books
    /\ UNCHANGED <<commitIndex, rpcs, committed>>

(* `append` of raft-commit: one entry of the leader's current term. *)
ClientAppend(s) ==
    /\ node[s].role = "leader"
    /\ LogAppend(s, node[s].term)
    /\ UNCHANGED replicationVars

(* A leader sends a peer what its books say the peer lacks, or nothing but *)
(* its commit index: a heartbeat.                                          *)
SendAppend(s, p) ==
    /\ node[s].role = "leader" /\ p # s
    /\ Cardinality({m \in rpcs : m.type = "append"}) < MaxRequests
    /\ \E last \in {books[s].next[p] - 1, Len(log[s])} :
         LET prev == books[s].next[p] - 1
         IN  rpcs' = rpcs \cup
               {[type |-> "append", term |-> node[s].term, leader |-> s, to |-> p,
                 prevIndex |-> prev, prevTerm |-> TermAt(log[s], prev),
                 leaderCommit |-> books[s].commit,
                 entries |-> SubSeq(log[s], prev + 1, last)]}
    /\ UNCHANGED <<electionVars, commitIndex, books, committed>>

(* Faulty variant: any log that reaches the previous entry will do.        *)
LongEnough(l, m) == m.prevIndex <= Len(l)

(* AppendEntries' consistency check. *)
HoldsPrevious(l, m) ==
    /\ m.prevIndex <= Len(l)
    /\ m.prevIndex >= 1 => l[m.prevIndex] = m.prevTerm

(* Faulty variant: the leader's commit index is taken as it is.            *)
CommitAll(m, commit) == IF m.leaderCommit > commit THEN m.leaderCommit ELSE commit

(* A follower commits what it has been shown to hold, and never less.      *)
FollowerCommit(m, commit) ==
    LET lastNew == m.prevIndex + Len(m.entries)
    IN  Max({commit} \cup IF m.leaderCommit > commit
                                THEN {Min({m.leaderCommit, lastNew})} ELSE {})

(* `append-entries` of raft-election and `append` of raft-log: an older    *)
(* term is refused with nothing changed but the answer, a failed check of  *)
(* the previous entry leaves the log alone.                                *)
AppendRpc(s, m) ==
    /\ m.type = "append" /\ m.to = s
    /\ LET current == m.term >= node[s].term
           conflict == IF ~current THEN 0
                       ELSE IF m.prevIndex > Len(log[s]) THEN Len(log[s]) + 1
                       ELSE RunStart(log[s], m.prevIndex)
           done == current /\ HoldsPrevious(log[s], m)
       IN  /\ node' = IF ~current THEN node
                      ELSE [node EXCEPT ![s] = [At(s, m.term) EXCEPT !.role = "follower",
                                                                     !.leader = m.leader]]
           /\ log' = IF done THEN [log EXCEPT ![s] = Merge(@, m.prevIndex, m.entries)]
                     ELSE log
           /\ commitIndex' = IF done THEN [commitIndex EXCEPT ![s] = FollowerCommit(m, @)]
                             ELSE commitIndex
           /\ rpcs' = rpcs \cup
                {[type |-> "answer", term |-> IF current THEN m.term ELSE node[s].term,
                  from |-> s, to |-> m.leader, success |-> done,
                  index |-> IF done THEN m.prevIndex + Len(m.entries) ELSE conflict]}
    /\ UNCHANGED <<msgs, votes, elected, books, committed>>

(* An answer of the leader's own term. *)
Answers(s, m) ==
    /\ m.type = "answer" /\ m.to = s
    /\ node[s].role = "leader" /\ m.term = node[s].term

(* `ack`: an answer that was overtaken takes nothing back. *)
Ack(s, m) ==
    /\ Answers(s, m) /\ m.success
    /\ LET b == books[s]
           matched == Max({b.match[m.from], m.index})
           match == [b.match EXCEPT ![m.from] = matched]
           commit == AdvanceCommit(s, match, b.commit)
       IN  /\ books' = [books EXCEPT ![s] =
                          [commit |-> commit, match |-> match,
                           next |-> [b.next EXCEPT ![m.from] = Max({@, matched + 1})]]]
           /\ committed' = IF commit = b.commit THEN committed
                           ELSE committed \cup {[term |-> node[s].term,
                                                 log |-> SubSeq(log[s], 1, commit)]}
    /\ UNCHANGED <<electionVars, commitIndex, rpcs>>

(* `reject`: back to the index the follower named, but not before the log. *)
Reject(s, m) ==
    /\ Answers(s, m) /\ ~m.success
    /\ books' = [books EXCEPT ![s].next[m.from] = Max({m.index, 1})]
    /\ UNCHANGED <<electionVars, commitIndex, rpcs, committed>>

RaftNext ==
    \/ \E s \in Server : StartElection(s) \/ Ask(s) \/ ClientAppend(s)
    \/ \E s \in Server, m \in msgs : Vote(s, m) \/ CountVote(s, m)
    \/ \E s, p \in Server : SendAppend(s, p)
    \/ \E s \in Server, m \in rpcs : AppendRpc(s, m) \/ Ack(s, m) \/ Reject(s, m)

RaftSpec == Init /\ InitReplication /\ [][RaftNext]_raftVars
-----------------------------------------------------------------------------
ReplicationTypeOK ==
    /\ commitIndex \in [Server -> Nat]
    /\ books \in [Server -> Books]
    /\ \A m \in rpcs : m \in Request \/ m \in Answer
    /\ \A c \in committed : c.term \in Nat /\ c.log \in Seq(Nat)

Prefix(l, n) == SubSeq(l, 1, Min({n, Len(l)}))

(* Log Matching: two logs that agree on the term at an index agree on      *)
(* everything before it, however requests overlap, repeat or arrive late.  *)
LogMatching ==
    \A s, u \in Server : \A i \in DOMAIN log[s] \cap DOMAIN log[u] :
        log[s][i] = log[u][i] => Prefix(log[s], i) = Prefix(log[u], i)

(* "An entry from an earlier term is never committed by replica count      *)
(* alone": what was committed stays in the log of every later leader.      *)
LeaderCompleteness ==
    \A c \in committed, s \in Server :
        node[s].role = "leader" /\ node[s].term >= c.term =>
            Prefix(log[s], Len(c.log)) = c.log

(* Nothing two servers commit differs: each follower's committed prefix is *)
(* one some leader committed, and these are prefixes of one another.       *)
CommittedAgree ==
    /\ \A c, d \in committed : Len(c.log) <= Len(d.log) => Prefix(d.log, Len(c.log)) = c.log
    /\ \A s \in Server : commitIndex[s] > 0 =>
          /\ commitIndex[s] <= Len(log[s])
          /\ \E c \in committed : Prefix(c.log, commitIndex[s]) = Prefix(log[s], commitIndex[s])

(* match_index never says more than the peer holds, although answers may   *)
(* be late and the peer's log may have been cut since by the same leader.  *)
MatchIsHeld ==
    \A s, p \in Server :
        node[s].role = "leader" /\ node[p].term = node[s].term =>
            Prefix(log[p], books[s].match[p]) = Prefix(log[s], books[s].match[p])
=============================================================================
