------------------------- MODULE RaftElectionProofs -------------------------
(***************************************************************************)
(* Election Safety of the reference election machine, for every finite set *)
(* of servers, every bound on terms and logs and every loss, duplication   *)
(* and reordering of messages.                                             *)
(*                                                                         *)
(* The argument: a server votes once per term (VotesUnique), because the   *)
(* vote of its current term is the one votedFor still holds                *)
(* (VoteRecorded); a granted answer in the network is a vote               *)
(* (GrantIsVote), so every tally counts votes (TallyIsVotes) and every     *)
(* winner was voted for by a majority (ElectedByMajority); two majorities  *)
(* share a server, whose one vote makes the two winners the same.          *)
(***************************************************************************)
EXTENDS RaftElection, FiniteSetTheorems, TLAPS

VotesUnique ==
    \A v, w \in votes : v[1] = w[1] /\ v[2] = w[2] => v[3] = w[3]

VoteRecorded ==
    \A v \in votes : /\ v[1] <= node[v[2]].term
                     /\ v[1] = node[v[2]].term => node[v[2]].votedFor = v[3]

GrantIsVote ==
    \A m \in msgs : m.type = "vote-response" /\ m.granted
                      => <<m.term, m.voter, m.candidate>> \in votes

TallyIsVotes ==
    \A s \in Server : \A v \in node[s].granters : <<node[s].term, v, s>> \in votes

ElectedByMajority ==
    \A e \in elected : \E Q \in SUBSET Server :
        /\ Cardinality(Q) >= Majority
        /\ \A v \in Q : <<e[1], v, e[2]>> \in votes

VoteInv == VotesUnique /\ VoteRecorded /\ GrantIsVote /\ TallyIsVotes /\ ElectedByMajority

(* A leader, and everyone a heartbeat of a term names, won that term.      *)
LeaderInv ==
    /\ LeaderWasElected
    /\ \A s \in Server : node[s].role = "leader" => <<node[s].term, s>> \in elected
    /\ \A m \in msgs : m.type = "append-entries" => <<m.term, m.leader>> \in elected
-----------------------------------------------------------------------------
(* Two majorities of the servers have a member in common.                  *)
LEMMA MajoritiesMeet ==
    ASSUME NEW P \in SUBSET Server, NEW Q \in SUBSET Server,
           Cardinality(P) >= Majority, Cardinality(Q) >= Majority
    PROVE  P \cap Q # {}
<1>1. IsFiniteSet(P) /\ IsFiniteSet(Q) /\ IsFiniteSet(P \cup Q)
  BY ServerAssumption, FS_Subset, FS_Union
<1>2. Cardinality(P \cup Q) =
        Cardinality(P) + Cardinality(Q) - Cardinality(P \cap Q)
  BY <1>1, FS_Union
<1>3. Cardinality(P \cup Q) <= Cardinality(Server)
  BY ServerAssumption, FS_Subset, P \cup Q \subseteq Server
<1>4. /\ Cardinality(P) \in Nat /\ Cardinality(Q) \in Nat
      /\ Cardinality(Server) \in Nat /\ Cardinality(P \cup Q) \in Nat
  BY <1>1, ServerAssumption, FS_CardinalityType
<1>5. Cardinality({}) = 0
  BY FS_EmptySet
<1>6. ASSUME NEW c \in Nat PROVE 2 * ((c \div 2) + 1) > c
  OBVIOUS
<1>7. Majority \in Nat /\ 2 * Majority > Cardinality(Server)
  BY <1>4, <1>6 DEF Majority
<1>8. ASSUME P \cap Q = {} PROVE FALSE
  <2>0. Cardinality(P \cap Q) = 0
    BY <1>5, <1>8, Zenon
  <2>1. Cardinality(P \cup Q) = Cardinality(P) + Cardinality(Q)
    BY <1>2, <1>4, <2>0
  <2>2. \A p, q, c, m \in Nat : p >= m /\ q >= m /\ 2 * m > c => p + q > c
    OBVIOUS
  <2>3. Cardinality(P) + Cardinality(Q) > Cardinality(Server)
    BY <1>4, <1>7, <2>2
  <2>4. QED
    BY <1>3, <1>4, <2>1, <2>3
<1>9. QED
  BY <1>8

(* What a message of term t finds.                                         *)
LEMMA AtFacts ==
    ASSUME TypeOK, NEW s \in Server, NEW t \in Nat
    PROVE  /\ At(s, t) \in Election
           /\ At(s, t).term = IF t > node[s].term THEN t ELSE node[s].term
           /\ t > node[s].term => /\ At(s, t).votedFor = None
                                  /\ At(s, t).leader = None
                                  /\ At(s, t).role = "follower"
                                  /\ At(s, t).granters = {}
           /\ ~(t > node[s].term) => At(s, t) = node[s]
<1>1. node[s] \in Election
  BY DEF TypeOK
<1>2. QED
  BY <1>1 DEF At, StepDown, Election, Role

(* The last index and the last term of a log are naturals. *)
LEMMA LastFacts ==
    ASSUME TypeOK, NEW s \in Server
    PROVE  LastIndex(s) \in Nat /\ LastTerm(s) \in Nat
<1>1. log[s] \in Seq(Nat)
  BY DEF TypeOK
<1>2. QED
  BY <1>1 DEF LastIndex, LastTerm
-----------------------------------------------------------------------------
(* Fresh nodes have their type. *)
LEMMA TypeInit == Init => TypeOK
BY DEF Init, TypeOK, Election, Role

(* Every command and every message keeps the types. *)
LEMMA TypeNext == TypeOK /\ [Next]_electionVars => TypeOK'
<1> SUFFICES ASSUME TypeOK, [Next]_electionVars PROVE TypeOK'
  OBVIOUS
<1>1. ASSUME NEW s \in Server, NEW t \in 1 .. MaxTerm, LogAppend(s, t)
      PROVE  TypeOK'
  <2>1. Append(log[s], t) \in Seq(Nat)
    BY BoundAssumption DEF TypeOK
  <2>2. QED
    BY <1>1, <2>1 DEF LogAppend, TypeOK
<1>2. ASSUME NEW s \in Server, Timeout(s)
      PROVE  TypeOK'
  <2>1. node[s] \in Election
    BY DEF TypeOK
  <2>2. node[s].term + 1 \in Nat
    BY <2>1 DEF Election
  <2>3. [term |-> node[s].term + 1, role |-> "candidate", votedFor |-> s,
         leader |-> None, granters |-> {s}] \in Election
    BY <2>2 DEF Election, Role
  <2>4. QED
    BY <1>2, <2>2, <2>3 DEF Timeout, TypeOK
<1>3. ASSUME NEW s \in Server, AskForVotes(s)
      PROVE  TypeOK'
  <2>1. node[s].term \in Nat
    BY DEF TypeOK, Election
  <2>2. [type |-> "request-vote", term |-> node[s].term, candidate |-> s,
         lastIndex |-> LastIndex(s), lastTerm |-> LastTerm(s)] \in Message
    BY <2>1, LastFacts DEF Message
  <2>3. QED
    BY <1>3, <2>2 DEF AskForVotes, Send, TypeOK
<1>4. ASSUME NEW s \in Server, Heartbeat(s)
      PROVE  TypeOK'
  <2>1. node[s].term \in Nat
    BY DEF TypeOK, Election
  <2>2. QED
    BY <1>4, <2>1 DEF Heartbeat, Send, TypeOK, Message
<1>5. ASSUME NEW s \in Server, NEW m \in msgs, RequestVote(s, m)
      PROVE  TypeOK'
  <2>1. m.term \in Nat /\ m.candidate \in Server
    BY <1>5 DEF RequestVote, TypeOK, Message
  <2> DEFINE n == At(s, m.term)
             granted == /\ m.term >= n.term
                        /\ Free(n, m.candidate)
                        /\ UpToDate(s, m.lastIndex, m.lastTerm)
  <2>2. n \in Election
    BY <2>1, AtFacts
  <2>3. n.term \in Nat /\ [n EXCEPT !.votedFor = m.candidate] \in Election
    BY <2>1, <2>2 DEF Election
  <2>4. /\ node' = [node EXCEPT ![s] = IF granted THEN [n EXCEPT !.votedFor = m.candidate]
                                                  ELSE n]
        /\ votes' = IF granted THEN votes \cup {<<n.term, s, m.candidate>>} ELSE votes
        /\ msgs' = msgs \cup {[type |-> "vote-response", term |-> n.term, voter |-> s,
                               candidate |-> m.candidate, granted |-> granted]}
        /\ UNCHANGED <<log, elected>>
    BY <1>5 DEF RequestVote, Send
  <2>5. granted \in BOOLEAN
    OBVIOUS
  <2> HIDE DEF n, granted
  <2>6. [type |-> "vote-response", term |-> n.term, voter |-> s,
         candidate |-> m.candidate, granted |-> granted] \in Message
    BY <2>1, <2>3, <2>5 DEF Message
  <2>7. QED
    BY <2>1, <2>2, <2>3, <2>4, <2>6 DEF TypeOK
<1>6. ASSUME NEW s \in Server, NEW m \in msgs, VoteResponse(s, m)
      PROVE  TypeOK'
  <2>1. m.term \in Nat /\ m.voter \in Server
    BY <1>6 DEF VoteResponse, TypeOK, Message
  <2> DEFINE n == At(s, m.term)
             tally == n.granters \cup {m.voter}
  <2>2. n \in Election
    BY <2>1, AtFacts
  <2>3. /\ n.term \in Nat
        /\ [n EXCEPT !.granters = tally, !.role = "leader", !.leader = s] \in Election
        /\ [n EXCEPT !.granters = tally] \in Election
    BY <2>1, <2>2 DEF Election, Role
  <2>4. /\ \E r \in {n, [n EXCEPT !.granters = tally],
                     [n EXCEPT !.granters = tally, !.role = "leader", !.leader = s]} :
             node' = [node EXCEPT ![s] = r]
        /\ elected' \subseteq elected \cup {<<n.term, s>>}
        /\ UNCHANGED <<log, msgs, votes>>
    BY <1>6 DEF VoteResponse
  <2> HIDE DEF n, tally
  <2>5. PICK r \in Election : node' = [node EXCEPT ![s] = r]
    BY <2>2, <2>3, <2>4
  <2>6. elected' \subseteq Nat \X Server
    BY <2>3, <2>4 DEF TypeOK
  <2>7. QED
    BY <2>4, <2>5, <2>6 DEF TypeOK
<1>7. ASSUME NEW s \in Server, NEW m \in msgs, AppendEntries(s, m)
      PROVE  TypeOK'
  <2>1. m.term \in Nat /\ m.leader \in Server
    BY <1>7 DEF AppendEntries, TypeOK, Message
  <2>2. At(s, m.term) \in Election
    BY <2>1, AtFacts
  <2>3. [At(s, m.term) EXCEPT !.role = "follower", !.leader = m.leader] \in Election
    BY <2>1, <2>2 DEF Election, Role
  <2>4. QED
    BY <1>7, <2>3 DEF AppendEntries, TypeOK
<1>8. CASE UNCHANGED electionVars
  BY <1>8 DEF electionVars, TypeOK
<1>9. QED
  BY <1>1, <1>2, <1>3, <1>4, <1>5, <1>6, <1>7, <1>8 DEF Next

(* Terms, votes, tallies and messages keep their types.                    *)
THEOREM TypeCorrect == Spec => []TypeOK
BY TypeInit, TypeNext, PTL DEF Spec
-----------------------------------------------------------------------------
(* Nobody voted and nobody won at first. *)
LEMMA VoteInit == Init => VoteInv
BY DEF Init, VoteInv, VotesUnique, VoteRecorded, GrantIsVote, TallyIsVotes,
       ElectedByMajority

(* Votes are only added: what the history proved of a winner stays proved. *)
LEMMA MajorityStays ==
    ASSUME ElectedByMajority, votes \subseteq votes', elected' = elected
    PROVE  ElectedByMajority'
BY DEF ElectedByMajority

(* A timeout votes in a term its node never voted in before. *)
LEMMA TimeoutVotes ==
    ASSUME TypeOK, VoteInv, NEW s \in Server, Timeout(s)
    PROVE  VoteInv'
<1> DEFINE t == node[s].term + 1
           new == [term |-> t, role |-> "candidate", votedFor |-> s,
                   leader |-> None, granters |-> {s}]
<1>1. /\ node' = [node EXCEPT ![s] = new]
      /\ votes' = votes \cup {<<t, s, s>>}
      /\ UNCHANGED <<msgs, elected>>
  BY DEF Timeout
<1>2. /\ node[s].term \in Nat /\ t \in Nat /\ t > node[s].term
      /\ node'[s] = new
      /\ \A r \in Server \ {s} : node'[r] = node[r]
  BY <1>1 DEF TypeOK, Election
<1>3. \A v \in votes : v[1] \in Nat /\ v[2] \in Server /\ v[3] \in Server
  BY DEF TypeOK
<1>4. \A v \in votes : v[2] = s => v[1] < t
  BY <1>2, <1>3 DEF VoteInv, VoteRecorded
<1>5. VotesUnique'
  BY <1>1, <1>3, <1>4 DEF VoteInv, VotesUnique
<1>6. VoteRecorded'
  <2> SUFFICES ASSUME NEW v \in votes'
               PROVE  /\ v[1] <= node'[v[2]].term
                      /\ v[1] = node'[v[2]].term => node'[v[2]].votedFor = v[3]
    BY DEF VoteRecorded
  <2>1. CASE v = <<t, s, s>>
    BY <1>2, <2>1
  <2>2. CASE v \in votes /\ v[2] = s
    BY <1>2, <1>3, <1>4, <2>2
  <2>3. CASE v \in votes /\ v[2] # s
    BY <1>2, <1>3, <2>3 DEF VoteInv, VoteRecorded
  <2>4. QED
    BY <1>1, <2>1, <2>2, <2>3
<1>7. GrantIsVote'
  BY <1>1 DEF VoteInv, GrantIsVote
<1>8. TallyIsVotes'
  <2> SUFFICES ASSUME NEW r \in Server, NEW v \in node'[r].granters
               PROVE  <<node'[r].term, v, r>> \in votes'
    BY DEF TallyIsVotes
  <2>1. CASE r = s
    BY <1>1, <1>2, <2>1
  <2>2. CASE r # s
    BY <1>1, <1>2, <2>2 DEF VoteInv, TallyIsVotes
  <2>3. QED
    BY <2>1, <2>2
<1>9. ElectedByMajority'
  BY <1>1, MajorityStays DEF VoteInv
<1>10. QED
  BY <1>5, <1>6, <1>7, <1>8, <1>9 DEF VoteInv

(* A step that casts no vote and, at every server, keeps the vote of the   *)
(* term or raises the term with an empty tally.                            *)
LEMMA NoVoteCast ==
    ASSUME TypeOK, TypeOK', VoteInv, votes' = votes,
           \A r \in Server :
               \/ /\ node'[r].term = node[r].term
                  /\ node'[r].votedFor = node[r].votedFor
               \/ node'[r].term > node[r].term
    PROVE  VotesUnique' /\ VoteRecorded'
<1>1. VotesUnique'
  BY DEF VoteInv, VotesUnique
<1>2. \A r \in Server : node[r].term \in Nat /\ node'[r].term \in Nat
  BY DEF TypeOK, Election
<1>3. \A v \in votes : v[1] \in Nat /\ v[2] \in Server
  BY DEF TypeOK
<1>4. VoteRecorded'
  BY <1>2, <1>3 DEF VoteInv, VoteRecorded
<1>5. QED
  BY <1>1, <1>4
(* Answering a request: the vote granted is the only one of its term.      *)
LEMMA RequestVotes ==
    ASSUME TypeOK, TypeOK', VoteInv, NEW s \in Server, NEW m \in msgs, RequestVote(s, m)
    PROVE  VoteInv'
<1> DEFINE n == At(s, m.term)
           granted == /\ m.term >= n.term
                      /\ Free(n, m.candidate)
                      /\ UpToDate(s, m.lastIndex, m.lastTerm)
           answer == [type |-> "vote-response", term |-> n.term, voter |-> s,
                      candidate |-> m.candidate, granted |-> granted]
<1>1. m.term \in Nat /\ m.candidate \in Server
  BY DEF RequestVote, TypeOK, Message
<1>2. /\ node' = [node EXCEPT ![s] = IF granted THEN [n EXCEPT !.votedFor = m.candidate]
                                                ELSE n]
      /\ votes' = IF granted THEN votes \cup {<<n.term, s, m.candidate>>} ELSE votes
      /\ msgs' = msgs \cup {answer}
      /\ UNCHANGED elected
  BY DEF RequestVote, Send
<1>3. /\ n \in Election /\ node[s].term \in Nat
      /\ n.term = IF m.term > node[s].term THEN m.term ELSE node[s].term
      /\ m.term > node[s].term => n.votedFor = None /\ n.granters = {}
      /\ ~(m.term > node[s].term) => n = node[s]
  BY <1>1, AtFacts DEF TypeOK, Election
<1>4. granted => Free(n, m.candidate)
  OBVIOUS
<1>5. /\ answer.type = "vote-response" /\ answer.term = n.term /\ answer.voter = s
      /\ answer.candidate = m.candidate /\ answer.granted = granted
  OBVIOUS
<1>6. granted \in BOOLEAN
  OBVIOUS
<1>7. \A v \in votes : v[1] \in Nat /\ v[2] \in Server /\ v[3] \in Server
  BY DEF TypeOK
<1> HIDE DEF n, granted, answer
<1>8. /\ node'[s].term = n.term
      /\ node'[s].granters = n.granters
      /\ node'[s].votedFor = IF granted THEN m.candidate ELSE n.votedFor
      /\ \A r \in Server \ {s} : node'[r] = node[r]
  BY <1>2, <1>3, <1>6 DEF TypeOK, Election
<1>9. \A v \in votes : v[1] = n.term /\ v[2] = s /\ granted => v[3] = m.candidate
  <2> SUFFICES ASSUME NEW v \in votes, v[1] = n.term, v[2] = s, granted
               PROVE  v[3] = m.candidate
    OBVIOUS
  <2>1. /\ v[1] <= node[s].term
        /\ v[1] = node[s].term => node[s].votedFor = v[3]
    BY DEF VoteInv, VoteRecorded
  <2>2. n = node[s] /\ v[1] = node[s].term
    BY <1>1, <1>3, <1>7, <2>1
  <2>3. n.votedFor = v[3] /\ n.votedFor \in {None, m.candidate}
    BY <1>4, <2>1, <2>2 DEF Free
  <2>4. v[3] # None
    BY <1>7, ServerAssumption
  <2>5. QED
    BY <2>3, <2>4
<1>10. VotesUnique'
  <2>1. CASE granted
    <3>1. votes' = votes \cup {<<n.term, s, m.candidate>>}
      BY <1>2, <2>1
    <3>2. QED
      BY <1>9, <2>1, <3>1 DEF VoteInv, VotesUnique
  <2>2. CASE ~granted
    BY <1>2, <2>2 DEF VoteInv, VotesUnique
  <2>3. QED
    BY <1>6, <2>1, <2>2
<1>11. VoteRecorded'
  <2> SUFFICES ASSUME NEW v \in votes'
               PROVE  /\ v[1] <= node'[v[2]].term
                      /\ v[1] = node'[v[2]].term => node'[v[2]].votedFor = v[3]
    BY DEF VoteRecorded
  <2>1. CASE granted /\ v = <<n.term, s, m.candidate>>
    BY <1>3, <1>8, <2>1 DEF Election
  <2>2. CASE v \in votes /\ v[2] # s
    BY <1>7, <1>8, <2>2 DEF VoteInv, VoteRecorded
  <2>3. CASE v \in votes /\ v[2] = s
    <3>1. /\ v[1] <= node[s].term
          /\ v[1] = node[s].term => node[s].votedFor = v[3]
      BY <2>3 DEF VoteInv, VoteRecorded
    <3>2. v[1] <= n.term /\ (v[1] = n.term => n.votedFor = v[3])
      BY <1>1, <1>3, <1>7, <2>3, <3>1
    <3>3. v[1] = n.term => node'[s].votedFor = v[3]
      BY <1>8, <1>9, <2>3, <3>2
    <3>4. QED
      BY <1>8, <2>3, <3>2, <3>3
  <2>4. QED
    BY <1>2, <2>1, <2>2, <2>3
<1>12. votes \subseteq votes'
  BY <1>2
<1>13. GrantIsVote'
  <2>1. answer.granted => <<n.term, s, m.candidate>> \in votes'
    BY <1>2, <1>5
  <2>2. QED
    BY <1>2, <1>5, <1>12, <2>1 DEF VoteInv, GrantIsVote
<1>14. TallyIsVotes'
  <2> SUFFICES ASSUME NEW r \in Server, NEW v \in node'[r].granters
               PROVE  <<node'[r].term, v, r>> \in votes'
    BY DEF TallyIsVotes
  <2>1. CASE r # s
    BY <1>8, <1>12, <2>1 DEF VoteInv, TallyIsVotes
  <2>2. CASE r = s
    <3>1. n = node[s] /\ v \in node[s].granters
      BY <1>3, <1>8, <2>2
    <3>2. QED
      BY <1>8, <1>12, <2>2, <3>1 DEF VoteInv, TallyIsVotes
  <2>3. QED
    BY <2>1, <2>2
<1>15. ElectedByMajority'
  BY <1>2, <1>12, MajorityStays DEF VoteInv
<1>16. QED
  BY <1>10, <1>11, <1>13, <1>14, <1>15 DEF VoteInv

(* Counting an answer: the tally counts votes, and a full one is the       *)
(* majority that elects.                                                   *)
LEMMA ResponseVotes ==
    ASSUME TypeOK, TypeOK', VoteInv, NEW s \in Server, NEW m \in msgs, VoteResponse(s, m)
    PROVE  VoteInv'
<1> DEFINE n == At(s, m.term)
           counts == m.term = node[s].term /\ n.role = "candidate" /\ m.granted
           tally == n.granters \cup {m.voter}
           won == counts /\ Cardinality(tally) >= Majority
<1>1. /\ m.term \in Nat /\ m.voter \in Server
      /\ m.type = "vote-response" /\ m.candidate = s
  BY DEF VoteResponse, TypeOK, Message
<1>2. /\ node' = [node EXCEPT ![s] =
                     IF won THEN [n EXCEPT !.granters = tally, !.role = "leader",
                                           !.leader = s]
                     ELSE IF counts THEN [n EXCEPT !.granters = tally]
                     ELSE n]
      /\ elected' = IF won THEN elected \cup {<<n.term, s>>} ELSE elected
      /\ UNCHANGED <<msgs, votes>>
  BY DEF VoteResponse
<1>3. /\ n \in Election /\ node[s].term \in Nat
      /\ n.term = IF m.term > node[s].term THEN m.term ELSE node[s].term
      /\ m.term > node[s].term => n.granters = {}
      /\ ~(m.term > node[s].term) => n = node[s]
  BY <1>1, AtFacts DEF TypeOK, Election
<1>4. counts => m.term = n.term /\ n = node[s] /\ m.granted
  BY <1>1, <1>3
<1>5. won => counts /\ Cardinality(tally) >= Majority
  OBVIOUS
<1>6. \A v \in tally : v \in n.granters \/ v = m.voter
  OBVIOUS
<1>7. tally \subseteq Server
  BY <1>1, <1>3 DEF Election
<1> HIDE DEF n, counts, tally, won
<1>8. /\ node'[s].term = n.term
      /\ node'[s].votedFor = n.votedFor
      /\ node'[s].granters = IF counts THEN tally ELSE n.granters
      /\ \A r \in Server \ {s} : node'[r] = node[r]
  BY <1>2, <1>3, <1>5 DEF TypeOK, Election
<1>9. VotesUnique' /\ VoteRecorded'
  BY <1>1, <1>2, <1>3, <1>8, NoVoteCast
<1>10. GrantIsVote'
  BY <1>2 DEF VoteInv, GrantIsVote
<1>11. \A v \in n.granters : <<n.term, v, s>> \in votes
  BY <1>3 DEF VoteInv, TallyIsVotes
<1>12. counts => \A v \in tally : <<n.term, v, s>> \in votes
  BY <1>1, <1>4, <1>6, <1>11 DEF VoteInv, GrantIsVote
<1>13. TallyIsVotes'
  <2> SUFFICES ASSUME NEW r \in Server, NEW v \in node'[r].granters
               PROVE  <<node'[r].term, v, r>> \in votes
    BY <1>2 DEF TallyIsVotes
  <2>1. CASE r # s
    BY <1>8, <2>1 DEF VoteInv, TallyIsVotes
  <2>2. CASE r = s
    BY <1>8, <1>11, <1>12, <2>2
  <2>3. QED
    BY <2>1, <2>2
<1>14. ElectedByMajority'
  <2> SUFFICES ASSUME NEW e \in elected'
               PROVE  \E Q \in SUBSET Server :
                         /\ Cardinality(Q) >= Majority
                         /\ \A v \in Q : <<e[1], v, e[2]>> \in votes
    BY <1>2 DEF ElectedByMajority
  <2>1. CASE e \in elected
    BY <2>1 DEF VoteInv, ElectedByMajority
  <2>2. CASE won /\ e = <<n.term, s>>
    BY <1>5, <1>7, <1>12, <2>2
  <2>3. QED
    BY <1>2, <2>1, <2>2
<1>15. QED
  BY <1>9, <1>10, <1>13, <1>14 DEF VoteInv

(* Following a leader casts no vote and ends any tally's use. *)
LEMMA AppendVotes ==
    ASSUME TypeOK, TypeOK', VoteInv, NEW s \in Server, NEW m \in msgs, AppendEntries(s, m)
    PROVE  VoteInv'
<1> DEFINE n == At(s, m.term)
<1>1. m.term \in Nat
  BY DEF AppendEntries, TypeOK, Message
<1>2. /\ node' = [node EXCEPT ![s] = [n EXCEPT !.role = "follower", !.leader = m.leader]]
      /\ UNCHANGED <<msgs, votes, elected>>
  BY DEF AppendEntries
<1>3. /\ n \in Election /\ node[s].term \in Nat
      /\ n.term = IF m.term > node[s].term THEN m.term ELSE node[s].term
      /\ m.term > node[s].term => n.granters = {}
      /\ ~(m.term > node[s].term) => n = node[s]
  BY <1>1, AtFacts DEF TypeOK, Election
<1> HIDE DEF n
<1>4. /\ node'[s].term = n.term
      /\ node'[s].votedFor = n.votedFor
      /\ node'[s].granters = n.granters
      /\ \A r \in Server \ {s} : node'[r] = node[r]
  BY <1>2, <1>3 DEF TypeOK, Election
<1>5. VotesUnique' /\ VoteRecorded'
  BY <1>1, <1>2, <1>3, <1>4, NoVoteCast
<1>6. GrantIsVote'
  BY <1>2 DEF VoteInv, GrantIsVote
<1>7. TallyIsVotes'
  BY <1>2, <1>3, <1>4 DEF VoteInv, TallyIsVotes
<1>8. ElectedByMajority'
  BY <1>2, MajorityStays DEF VoteInv
<1>9. QED
  BY <1>5, <1>6, <1>7, <1>8 DEF VoteInv
(* Sending a request or a heartbeat, and growing a log, touch no vote.     *)
LEMMA QuietVotes ==
    ASSUME VoteInv, UNCHANGED <<node, votes, elected>>,
           \A m \in msgs' \ msgs : m.type # "vote-response"
    PROVE  VoteInv'
<1>1. VotesUnique' /\ VoteRecorded' /\ TallyIsVotes' /\ ElectedByMajority'
  BY DEF VoteInv, VotesUnique, VoteRecorded, TallyIsVotes, ElectedByMajority
<1>2. GrantIsVote'
  BY DEF VoteInv, GrantIsVote
<1>3. QED
  BY <1>1, <1>2 DEF VoteInv

(* Every step keeps the vote invariant. *)
LEMMA VoteNext == TypeOK /\ TypeOK' /\ VoteInv /\ [Next]_electionVars => VoteInv'
<1> SUFFICES ASSUME TypeOK, TypeOK', VoteInv, [Next]_electionVars PROVE VoteInv'
  OBVIOUS
<1>1. ASSUME NEW s \in Server, NEW t \in 1 .. MaxTerm, LogAppend(s, t)
      PROVE  VoteInv'
  BY <1>1, QuietVotes DEF LogAppend
<1>2. ASSUME NEW s \in Server, Timeout(s)
      PROVE  VoteInv'
  BY <1>2, TimeoutVotes
<1>3. ASSUME NEW s \in Server, AskForVotes(s)
      PROVE  VoteInv'
  <2>1. \A m \in msgs' \ msgs : m.type # "vote-response"
    BY <1>3 DEF AskForVotes, Send
  <2>2. QED
    BY <1>3, <2>1, QuietVotes DEF AskForVotes
<1>4. ASSUME NEW s \in Server, Heartbeat(s)
      PROVE  VoteInv'
  <2>1. \A m \in msgs' \ msgs : m.type # "vote-response"
    BY <1>4 DEF Heartbeat, Send
  <2>2. QED
    BY <1>4, <2>1, QuietVotes DEF Heartbeat
<1>5. ASSUME NEW s \in Server, NEW m \in msgs, RequestVote(s, m)
      PROVE  VoteInv'
  BY <1>5, RequestVotes
<1>6. ASSUME NEW s \in Server, NEW m \in msgs, VoteResponse(s, m)
      PROVE  VoteInv'
  BY <1>6, ResponseVotes
<1>7. ASSUME NEW s \in Server, NEW m \in msgs, AppendEntries(s, m)
      PROVE  VoteInv'
  BY <1>7, AppendVotes
<1>8. CASE UNCHANGED electionVars
  BY <1>8, QuietVotes DEF electionVars
<1>9. QED
  BY <1>1, <1>2, <1>3, <1>4, <1>5, <1>6, <1>7, <1>8 DEF Next

(* The vote invariant holds in every reachable state. *)
LEMMA VoteCorrect == Spec => []VoteInv
<1>1. Init => TypeOK /\ VoteInv
  BY TypeInit, VoteInit
<1>2. TypeOK /\ VoteInv /\ [Next]_electionVars => TypeOK' /\ VoteInv'
  BY TypeNext, VoteNext
<1>3. QED
  BY <1>1, <1>2, PTL DEF Spec

(* Two winners of one term are one server: their majorities share a voter. *)
LEMMA WinnersAgree == TypeOK /\ VoteInv => OneLeaderPerTerm
<1> SUFFICES ASSUME TypeOK, VoteInv, NEW e \in elected, NEW f \in elected, e[1] = f[1]
             PROVE  e[2] = f[2]
  BY DEF OneLeaderPerTerm
<1>1. PICK P \in SUBSET Server : /\ Cardinality(P) >= Majority
                                 /\ \A v \in P : <<e[1], v, e[2]>> \in votes
  BY DEF VoteInv, ElectedByMajority
<1>2. PICK Q \in SUBSET Server : /\ Cardinality(Q) >= Majority
                                 /\ \A v \in Q : <<f[1], v, f[2]>> \in votes
  BY DEF VoteInv, ElectedByMajority
<1>3. PICK v \in P \cap Q : TRUE
  BY <1>1, <1>2, MajoritiesMeet
<1>4. <<e[1], v, e[2]>> \in votes /\ <<e[1], v, f[2]>> \in votes
  BY <1>1, <1>2, <1>3
<1>5. QED
  BY <1>4 DEF VoteInv, VotesUnique

(* Election Safety: at most one server ever wins a term.                   *)
THEOREM ElectionSafety == Spec => []OneLeaderPerTerm
BY TypeCorrect, VoteCorrect, WinnersAgree, PTL
-----------------------------------------------------------------------------
(* Nobody follows anybody at first. *)
LEMMA LeaderInit == Init => LeaderInv
BY DEF Init, LeaderInv, LeaderWasElected

(* Every step keeps the leader invariant. *)
LEMMA LeaderNext == TypeOK /\ LeaderInv /\ [Next]_electionVars => LeaderInv'
<1> SUFFICES ASSUME TypeOK, LeaderInv, [Next]_electionVars PROVE LeaderInv'
  OBVIOUS
<1> DEFINE Good(r) == /\ node'[r].leader # None => <<node'[r].term, node'[r].leader>> \in elected'
                      /\ node'[r].role = "leader" => <<node'[r].term, r>> \in elected'
<1>0. ASSUME NEW s \in Server, elected \subseteq elected', Good(s),
             \A r \in Server \ {s} : node'[r] = node[r],
             \A m \in msgs' \ msgs :
                m.type = "append-entries" => <<m.term, m.leader>> \in elected'
      PROVE  LeaderInv'
  <2>1. \A r \in Server : Good(r)
    BY <1>0 DEF LeaderInv, LeaderWasElected
  <2>2. QED
    BY <1>0, <2>1 DEF LeaderInv, LeaderWasElected
<1>1. ASSUME NEW s \in Server, NEW t \in 1 .. MaxTerm, LogAppend(s, t)
      PROVE  LeaderInv'
  BY <1>1 DEF LogAppend, LeaderInv, LeaderWasElected
<1>2. ASSUME NEW s \in Server, Timeout(s)
      PROVE  LeaderInv'
  <2>1. node'[s].leader = None /\ node'[s].role = "candidate"
    BY <1>2 DEF Timeout, TypeOK
  <2>2. Good(s)
    BY <2>1
  <2> HIDE DEF Good
  <2>3. /\ \A r \in Server \ {s} : node'[r] = node[r]
        /\ UNCHANGED <<msgs, elected>>
    BY <1>2 DEF Timeout, TypeOK
  <2>4. QED
    BY <1>0, <2>2, <2>3
<1>3. ASSUME NEW s \in Server, AskForVotes(s)
      PROVE  LeaderInv'
  <2>1. \A m \in msgs' \ msgs : m.type # "append-entries"
    BY <1>3 DEF AskForVotes, Send
  <2>2. QED
    BY <1>3, <2>1 DEF AskForVotes, LeaderInv, LeaderWasElected
<1>4. ASSUME NEW s \in Server, Heartbeat(s)
      PROVE  LeaderInv'
  <2>1. <<node[s].term, s>> \in elected
    BY <1>4 DEF Heartbeat, LeaderInv
  <2>2. \A m \in msgs' \ msgs : m.term = node[s].term /\ m.leader = s
    BY <1>4 DEF Heartbeat, Send
  <2>3. QED
    BY <1>4, <2>1, <2>2 DEF Heartbeat, LeaderInv, LeaderWasElected
<1>5. ASSUME NEW s \in Server, NEW m \in msgs, RequestVote(s, m)
      PROVE  LeaderInv'
  <2> DEFINE n == At(s, m.term)
  <2>1. m.term \in Nat
    BY <1>5 DEF RequestVote, TypeOK, Message
  <2>2. /\ n \in Election
        /\ n.leader # None \/ n.role = "leader" => n = node[s]
    BY <2>1, AtFacts
  <2>3. /\ \E x : node'[s] = [n EXCEPT !.votedFor = x] \/ node'[s] = n
        /\ \A r \in Server \ {s} : node'[r] = node[r]
        /\ UNCHANGED elected
    BY <1>5 DEF RequestVote, TypeOK
  <2>4. \A x \in msgs' \ msgs : x.type # "append-entries"
    BY <1>5 DEF RequestVote, Send
  <2> HIDE DEF n
  <2>5. /\ node'[s].term = n.term /\ node'[s].leader = n.leader
        /\ node'[s].role = n.role
    BY <2>2, <2>3 DEF Election
  <2>6. Good(s)
    BY <2>2, <2>3, <2>5 DEF LeaderInv, LeaderWasElected
  <2> HIDE DEF Good
  <2>7. QED
    BY <1>0, <2>3, <2>4, <2>6
<1>6. ASSUME NEW s \in Server, NEW m \in msgs, VoteResponse(s, m)
      PROVE  LeaderInv'
  <2> DEFINE n == At(s, m.term)
             tally == n.granters \cup {m.voter}
             winner == [n EXCEPT !.granters = tally, !.role = "leader", !.leader = s]
  <2>1. m.term \in Nat
    BY <1>6 DEF VoteResponse, TypeOK, Message
  <2>2. /\ n \in Election
        /\ n.leader # None \/ n.role = "leader" => n = node[s]
    BY <2>1, AtFacts
  <2>3. /\ \/ node'[s] = winner /\ <<n.term, s>> \in elected'
           \/ node'[s] = [n EXCEPT !.granters = tally]
           \/ node'[s] = n
        /\ \A r \in Server \ {s} : node'[r] = node[r]
        /\ elected \subseteq elected'
        /\ UNCHANGED msgs
    BY <1>6 DEF VoteResponse, TypeOK
  <2> HIDE DEF n, tally
  <2>4. CASE node'[s] = winner /\ <<n.term, s>> \in elected'
    <3>1. node'[s].term = n.term /\ node'[s].leader = s
      BY <2>2, <2>4 DEF Election
    <3>2. Good(s)
      BY <2>4, <3>1
    <3> HIDE DEF Good
    <3>3. QED
      BY <1>0, <2>3, <3>2
  <2>5. CASE node'[s] = [n EXCEPT !.granters = tally] \/ node'[s] = n
    <3>1. /\ node'[s].term = n.term /\ node'[s].leader = n.leader
          /\ node'[s].role = n.role
      BY <2>2, <2>5 DEF Election
    <3>2. Good(s)
      BY <2>2, <2>3, <3>1 DEF LeaderInv, LeaderWasElected
    <3> HIDE DEF Good
    <3>3. QED
      BY <1>0, <2>3, <3>2
  <2>6. QED
    BY <2>3, <2>4, <2>5
<1>7. ASSUME NEW s \in Server, NEW m \in msgs, AppendEntries(s, m)
      PROVE  LeaderInv'
  <2>1. m.term \in Nat /\ node[s].term \in Nat
    BY <1>7 DEF AppendEntries, TypeOK, Message, Election
  <2>2. At(s, m.term) \in Election /\ At(s, m.term).term = m.term
    BY <1>7, <2>1, AtFacts DEF AppendEntries
  <2>3. node'[s] = [At(s, m.term) EXCEPT !.role = "follower", !.leader = m.leader]
    BY <1>7 DEF AppendEntries, TypeOK
  <2>4. node'[s].term = m.term /\ node'[s].leader = m.leader /\ node'[s].role = "follower"
    BY <2>2, <2>3 DEF Election
  <2>5. <<m.term, m.leader>> \in elected'
    BY <1>7 DEF AppendEntries, LeaderInv
  <2>6. Good(s)
    BY <2>4, <2>5
  <2> HIDE DEF Good
  <2>7. /\ \A r \in Server \ {s} : node'[r] = node[r]
        /\ UNCHANGED <<msgs, elected>>
    BY <1>7 DEF AppendEntries, TypeOK
  <2>8. QED
    BY <1>0, <2>6, <2>7
<1>8. CASE UNCHANGED electionVars
  BY <1>8 DEF electionVars, LeaderInv, LeaderWasElected
<1>9. QED
  BY <1>1, <1>2, <1>3, <1>4, <1>5, <1>6, <1>7, <1>8 DEF Next

(* Whoever a node follows won the term the node is in.                     *)
THEOREM LeaderCorrect == Spec => []LeaderWasElected
<1>1. Init => TypeOK /\ LeaderInv
  BY TypeInit, LeaderInit
<1>2. TypeOK /\ LeaderInv /\ [Next]_electionVars => TypeOK' /\ LeaderInv'
  BY TypeNext, LeaderNext
<1>3. LeaderInv => LeaderWasElected
  BY DEF LeaderInv
<1>4. QED
  BY <1>1, <1>2, <1>3, PTL DEF Spec
-----------------------------------------------------------------------------
(* One step never lowers a term, and never changes the vote of a term.     *)
LEMMA VoteStep ==
    ASSUME TypeOK, Next, NEW r \in Server
    PROVE  /\ node'[r].term >= node[r].term
           /\ node'[r].term = node[r].term /\ node[r].votedFor # None
                => node'[r].votedFor = node[r].votedFor
<1> DEFINE Final == /\ node'[r].term >= node[r].term
                    /\ node'[r].term = node[r].term /\ node[r].votedFor # None
                         => node'[r].votedFor = node[r].votedFor
<1> SUFFICES Final
  OBVIOUS
<1>0. node[r] \in Election /\ node[r].term \in Nat
  BY DEF TypeOK, Election
<1>1. CASE node'[r] = node[r]
  BY <1>0, <1>1
<1>2. ASSUME NEW s \in Server, Timeout(s)
      PROVE  Final
  BY <1>0, <1>1, <1>2 DEF Timeout, TypeOK
<1>3. ASSUME NEW s \in Server, NEW m \in msgs, RequestVote(s, m)
      PROVE  Final
  <2>1. CASE r # s
    BY <1>1, <1>3, <2>1 DEF RequestVote, TypeOK
  <2>2. CASE r = s
    <3> DEFINE n == At(s, m.term)
    <3>1. m.term \in Nat
      BY <1>3 DEF RequestVote, TypeOK, Message
    <3>2. /\ n \in Election
          /\ n.term >= node[s].term
          /\ n.term = node[s].term => n = node[s]
      BY <1>0, <2>2, <3>1, AtFacts
    <3>3. \/ node'[s] = n
          \/ Free(n, m.candidate) /\ node'[s] = [n EXCEPT !.votedFor = m.candidate]
      BY <1>3 DEF RequestVote, TypeOK
    <3> HIDE DEF n
    <3>4. QED
      BY <2>2, <3>2, <3>3 DEF Free, Election
  <2>3. QED
    BY <2>1, <2>2
<1>4. ASSUME NEW s \in Server, NEW m \in msgs, VoteResponse(s, m)
      PROVE  Final
  <2>1. CASE r # s
    BY <1>1, <1>4, <2>1 DEF VoteResponse, TypeOK
  <2>2. CASE r = s
    <3> DEFINE n == At(s, m.term)
    <3>1. m.term \in Nat
      BY <1>4 DEF VoteResponse, TypeOK, Message
    <3>2. /\ n \in Election
          /\ n.term >= node[s].term
          /\ n.term = node[s].term => n = node[s]
      BY <1>0, <2>2, <3>1, AtFacts
    <3>3. \/ node'[s] = n
          \/ \E g : node'[s] = [n EXCEPT !.granters = g]
          \/ \E g : node'[s] = [n EXCEPT !.granters = g, !.role = "leader", !.leader = s]
      BY <1>4 DEF VoteResponse, TypeOK
    <3> HIDE DEF n
    <3>4. node'[s].term = n.term /\ node'[s].votedFor = n.votedFor
      BY <3>2, <3>3 DEF Election
    <3>5. QED
      BY <2>2, <3>2, <3>4
  <2>3. QED
    BY <2>1, <2>2
<1>5. ASSUME NEW s \in Server, NEW m \in msgs, AppendEntries(s, m)
      PROVE  Final
  <2>1. CASE r # s
    BY <1>1, <1>5, <2>1 DEF AppendEntries, TypeOK
  <2>2. CASE r = s
    <3> DEFINE n == At(s, m.term)
    <3>1. m.term \in Nat
      BY <1>5 DEF AppendEntries, TypeOK, Message
    <3>2. /\ n \in Election
          /\ n.term >= node[s].term
          /\ n.term = node[s].term => n = node[s]
      BY <1>0, <2>2, <3>1, AtFacts
    <3>3. node'[s] = [n EXCEPT !.role = "follower", !.leader = m.leader]
      BY <1>5 DEF AppendEntries, TypeOK
    <3> HIDE DEF n
    <3>4. node'[s].term = n.term /\ node'[s].votedFor = n.votedFor
      BY <3>2, <3>3 DEF Election
    <3>5. QED
      BY <2>2, <3>2, <3>4
  <2>3. QED
    BY <2>1, <2>2
<1>6. QED
  BY <1>1, <1>2, <1>3, <1>4, <1>5 DEF Next, LogAppend, AskForVotes, Heartbeat

(* A node's term never falls and its vote in a term is final.              *)
THEOREM VotesAreFinal == Spec => VoteIsFinal
<1>1. TypeOK /\ [Next]_electionVars
        => [\A s \in Server :
               /\ node'[s].term >= node[s].term
               /\ node'[s].term = node[s].term /\ node[s].votedFor # None
                    => node'[s].votedFor = node[s].votedFor]_electionVars
  BY VoteStep
<1>2. QED
  BY <1>1, TypeCorrect, PTL DEF Spec, VoteIsFinal
=============================================================================
