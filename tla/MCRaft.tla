------------------------------- MODULE MCRaft -------------------------------
(* Clusters of three: elections alone, from the start, and replication     *)
(* from where three elections have left a cluster.                         *)
EXTENDS RaftReplication

CONSTANTS s1, s2, s3

VARIABLE topic    \* what the cluster does: "election" or "replication"

(* Who may stand in which term: two servers against each other in term 1,  *)
(* and one against the leader of term 3.                                   *)
Candidacies == {<<s1, 1>>, <<s2, 1>>, <<s3, 2>>}
LateCandidacies == {<<s2, 4>>}

Elections == INSTANCE RaftElection WITH
    MayTimeOut <- Candidacies, MaxTerm <- 2, MaxLog <- 1

Follower(vote) == [term |-> 3, role |-> "follower", votedFor |-> vote,
                   leader |-> s1, granters |-> {}]

(* What three elections can leave behind.  s1 led term 1 and s2 led term 2,*)
(* each with the vote of s3, and each kept its entry to itself.  Then s1   *)
(* won term 3, again with the vote of s3, and both peers refused its first *)
(* request, so its books are back at the start of the log.                 *)
Prepared ==
    /\ node = [s \in Server |->
                CASE s = s1 -> [term |-> 3, role |-> "leader", votedFor |-> s1,
                                leader |-> s1, granters |-> {s1, s3}]
                  [] s = s2 -> Follower(None)
                  [] s = s3 -> Follower(s1)]
    /\ log = [s \in Server |-> CASE s = s1 -> <<1>> [] s = s2 -> <<2>> [] s = s3 -> <<>>]
    /\ msgs = {}
    /\ votes = {<<1, s1, s1>>, <<1, s3, s1>>, <<2, s2, s2>>, <<2, s3, s2>>,
                <<3, s1, s1>>, <<3, s3, s1>>}
    /\ elected = {<<1, s1>>, <<2, s2>>, <<3, s1>>}

MCInit ==
    /\ InitReplication
    /\ \/ topic = "election" /\ Elections!Init
       \/ topic = "replication" /\ Prepared

MCNext ==
    /\ UNCHANGED topic
    /\ \/ topic = "election" /\ Elections!Next /\ UNCHANGED replicationVars
       \/ topic = "replication" /\ RaftNext

MCSpec == MCInit /\ [][MCNext]_<<topic, raftVars>>
=============================================================================
