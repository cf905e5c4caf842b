----------------------------- MODULE TopicProofs -----------------------------
(***************************************************************************)
(* What the reference solutions of the protocol topics guarantee for every *)
(* set of participants, servers and replicas.  The theorems name the       *)
(* properties as MCTopics states them, of the instances it runs.           *)
(***************************************************************************)
EXTENDS MCTopics, PaxosProofs, SequenceTheorems

-----------------------------------------------------------------------------
(* commit-recovery *)

CRState == [log : SUBSET CR!Record, applied : BOOLEAN, crashed : BOOLEAN,
            state : {"unknown", "working", "prepared", "committed", "aborted"}]

(* What a participant's log says of its memory, of the vote h the          *)
(* coordinator heard from it and of the decision d: a commit is logged     *)
(* only on the coordinator's word and known while the participant is up,   *)
(* and who logged an abort of its own has never said yes.                  *)
CRKept(r, h, d) ==
    /\ r.state = "working" => r.log = {"begin"}
    /\ r.state = "prepared" => "prepared" \in r.log /\ "commit" \notin r.log
                               /\ "abort" \notin r.log
    /\ r.state = "committed" => "commit" \in r.log
    /\ r.state = "aborted" => r.log # {} /\ "commit" \notin r.log
                              /\ ("abort" \in r.log \/ "prepared" \notin r.log)
    /\ r.applied => "commit" \in r.log
    /\ "commit" \in r.log /\ ~r.crashed => r.state = "committed"
    /\ "commit" \in r.log => d = "commit"
    /\ "abort" \in r.log => h # "yes" \/ d = "abort"
    /\ h = "yes" => "prepared" \in r.log
    /\ d = "commit" => h = "yes"

CRInv == \A p \in Participant : CRKept(rm[p], coord.heard[p], coord.decision)

(* One participant moves. *)
LEMMA CRMoves ==
    ASSUME CR!TypeOK, CRInv, NEW p \in Participant, NEW r \in CRState,
           rm' = [rm EXCEPT ![p] = r], UNCHANGED coord,
           CRKept(r, coord.heard[p], coord.decision)
    PROVE  CR!TypeOK' /\ CRInv'
<1>1. CR!TypeOK'
  BY DEF CR!TypeOK, CRState
<1>2. \A q \in Participant : rm'[q] = (IF q = p THEN r ELSE rm[q])
  BY DEF CR!TypeOK
<1>3. CRInv'
  BY <1>2 DEF CRInv
<1> QED BY <1>1, <1>3

(* What a command of participant p makes of it. *)
LEMMA CRCommand ==
    ASSUME CR!TypeOK, CRInv, NEW p \in Participant,
           \/ CR!Begin(p) \/ CR!Decide(p) \/ CR!Apply(p)
           \/ \E v \in {"yes", "no"} : CR!Prepare(p, v)
           \/ CR!Crash(p) \/ CR!Recover(p) \/ CR!CoordinatorSays(p)
    PROVE  CR!TypeOK' /\ CRInv'
<1>1. PICK q \in CRState, h \in {"none", "yes", "no"}, d \in {"none", "commit", "abort"} :
          q = rm[p] /\ h = coord.heard[p] /\ d = coord.decision
  BY DEF CR!TypeOK, CRState
<1>2. CRKept(q, h, d)
  BY <1>1 DEF CRInv
<1>3. ASSUME NEW r \in CRState, rm' = [rm EXCEPT ![p] = r], CRKept(r, h, d), UNCHANGED coord
      PROVE  CR!TypeOK' /\ CRInv'
  BY <1>1, <1>3, CRMoves
<1>4. CASE CR!Begin(p)
  <2>1. PICK r : r = [q EXCEPT !.log = @ \cup {"begin"}, !.state = "working"]
    OBVIOUS
  <2>2. /\ r \in CRState /\ r.log = q.log \cup {"begin"} /\ r.state = "working"
        /\ r.applied = q.applied
    BY <2>1 DEF CRState, CR!Record
  <2>3. q.log = {} /\ rm' = [rm EXCEPT ![p] = r] /\ UNCHANGED coord
    BY <1>1, <1>4, <2>1 DEF CR!Begin, CR!Write
  <2>4. CRKept(r, h, d)
    BY <1>2, <2>2, <2>3 DEF CRKept
  <2> QED BY <1>3, <2>2, <2>3, <2>4
<1>5. ASSUME NEW rec \in {"prepared", "commit", "abort"},
             NEW st \in {"prepared", "committed", "aborted"},
             rm' = [rm EXCEPT ![p].log = @ \cup {rec}, ![p].state = st], UNCHANGED coord,
             \/ q.state = "working" /\ rec = "prepared" /\ st = "prepared"
             \/ q.state = "working" /\ rec = "abort" /\ st = "aborted"
             \/ q.state = "prepared" /\ rec = "commit" /\ st = "committed" /\ d = "commit"
             \/ q.state = "prepared" /\ rec = "abort" /\ st = "aborted" /\ d = "abort"
      PROVE  CR!TypeOK' /\ CRInv'
  <2>1. PICK r : r = [q EXCEPT !.log = @ \cup {rec}, !.state = st]
    OBVIOUS
  <2>2. r \in CRState /\ r.log = q.log \cup {rec} /\ r.state = st /\ r.applied = q.applied
    BY <2>1 DEF CRState, CR!Record
  <2>3. rm' = [rm EXCEPT ![p] = r]
    BY <1>1, <1>5, <2>1
  <2>4. CRKept(r, h, d)
    BY <1>2, <1>5, <2>2 DEF CRKept
  <2> QED BY <1>3, <1>5, <2>2, <2>3, <2>4
<1>6. CASE \/ \E v \in {"yes", "no"} : CR!Prepare(p, v)
           \/ CR!Decide(p)
  <2>1. UNCHANGED coord
    BY <1>6 DEF CR!Prepare, CR!Decide
  <2>2. \/ /\ q.state = "working"
           /\ rm' = [rm EXCEPT ![p].log = @ \cup {"prepared"}, ![p].state = "prepared"]
        \/ /\ q.state = "working"
           /\ rm' = [rm EXCEPT ![p].log = @ \cup {"abort"}, ![p].state = "aborted"]
        \/ /\ q.state = "prepared" /\ d = "commit"
           /\ rm' = [rm EXCEPT ![p].log = @ \cup {"commit"}, ![p].state = "committed"]
        \/ /\ q.state = "prepared" /\ d = "abort"
           /\ rm' = [rm EXCEPT ![p].log = @ \cup {"abort"}, ![p].state = "aborted"]
    BY <1>1, <1>6 DEF CR!Prepare, CR!Decide, CR!Write, CR!Up
  <2> QED BY <1>5, <2>1, <2>2
<1>7. CASE CR!Apply(p)
  <2>1. PICK r : r = [q EXCEPT !.applied = TRUE]
    OBVIOUS
  <2>2. r \in CRState /\ r.log = q.log /\ r.state = q.state
    BY <2>1 DEF CRState
  <2>3. rm' = [rm EXCEPT ![p] = r] /\ q.state = "committed" /\ UNCHANGED coord
    BY <1>1, <1>7, <2>1 DEF CR!Apply, CR!Up
  <2>4. CRKept(r, h, d)
    BY <1>2, <2>2, <2>3 DEF CRKept
  <2> QED BY <1>3, <2>2, <2>3, <2>4
<1>8. CASE CR!Crash(p)
  <2>1. PICK r : r = [q EXCEPT !.crashed = TRUE, !.state = "unknown"]
    OBVIOUS
  <2>2. /\ r \in CRState /\ r.log = q.log /\ r.state = "unknown" /\ r.applied = q.applied
        /\ r.crashed = TRUE
    BY <2>1 DEF CRState
  <2>3. rm' = [rm EXCEPT ![p] = r] /\ UNCHANGED coord
    BY <1>1, <1>8, <2>1 DEF CR!Crash
  <2>4. CRKept(r, h, d)
    BY <1>2, <2>2 DEF CRKept
  <2> QED BY <1>3, <2>2, <2>3, <2>4
<1>9. CASE CR!Recover(p)
  <2>1. PICK st : st = IF q.log = {} THEN "unknown" ELSE CR!StateFromLog(q.log)
    OBVIOUS
  <2>2. PICK r : r = [q EXCEPT !.crashed = FALSE, !.state = st]
    OBVIOUS
  <2>3. /\ st \in {"unknown", "committed", "aborted", "prepared"}
        /\ st = "committed" <=> "commit" \in q.log
        /\ st = "aborted" => q.log # {} /\ "commit" \notin q.log
                             /\ ("abort" \in q.log \/ "prepared" \notin q.log)
        /\ st = "prepared" => "prepared" \in q.log /\ "commit" \notin q.log
                              /\ "abort" \notin q.log
    BY <2>1 DEF CR!StateFromLog
  <2>4. r \in CRState /\ r.log = q.log /\ r.state = st /\ r.applied = q.applied
    BY <2>2, <2>3 DEF CRState
  <2>5. rm' = [rm EXCEPT ![p] = r] /\ UNCHANGED coord
    BY <1>1, <1>9, <2>1, <2>2 DEF CR!Recover
  <2>6. CRKept(r, h, d)
    BY <1>2, <2>3, <2>4 DEF CRKept
  <2> QED BY <1>3, <2>4, <2>5, <2>6
<1>10. CASE CR!CoordinatorSays(p)
  <2>1. PICK st : st = IF d = "commit" THEN "committed" ELSE "aborted"
    OBVIOUS
  <2>2. PICK r : r = [q EXCEPT !.log = @ \cup {d}, !.state = st,
                               !.applied = @ \/ d = "commit"]
    OBVIOUS
  <2>3. d # "none" /\ q.state = "prepared" /\ UNCHANGED coord /\ rm' = [rm EXCEPT ![p] = r]
    BY <1>1, <1>10, <2>1, <2>2 DEF CR!CoordinatorSays, CR!Up
  <2>4. /\ r \in CRState /\ r.log = q.log \cup {d} /\ r.state = st
        /\ r.applied = (q.applied \/ d = "commit")
    BY <2>1, <2>2, <2>3 DEF CRState, CR!Record
  <2>5. CRKept(r, h, d)
    BY <1>2, <2>1, <2>3, <2>4 DEF CRKept
  <2> QED BY <1>3, <2>3, <2>4, <2>5
<1> QED BY <1>4, <1>6, <1>7, <1>8, <1>9, <1>10

(* The coordinator hears a vote, or decides. *)
LEMMA CRCoordinator ==
    ASSUME CR!TypeOK, CRInv, CR!Resolve \/ \E p \in Participant : CR!VoteSent(p)
    PROVE  CR!TypeOK' /\ CRInv'
<1>1. CASE CR!Resolve
  <2>1. CR!TypeOK'
    BY <1>1 DEF CR!Resolve, CR!TypeOK
  <2>2. /\ coord.decision = "none" /\ rm' = rm /\ coord'.heard = coord.heard
        /\ \/ coord'.decision = "commit" /\ \A p \in Participant : coord.heard[p] = "yes"
           \/ coord'.decision = "abort"
    BY <1>1 DEF CR!Resolve, CR!TypeOK
  <2>3. CRInv'
    BY <2>2 DEF CRInv, CRKept
  <2> QED BY <2>1, <2>3
<1>2. ASSUME NEW p \in Participant, CR!VoteSent(p) PROVE CR!TypeOK' /\ CRInv'
  <2>1. PICK v \in {"yes", "no"} :
            /\ coord' = [coord EXCEPT !.heard[p] = v] /\ rm' = rm /\ coord.heard[p] = "none"
            /\ v = "yes" => rm[p].state = "prepared"
    BY <1>2 DEF CR!VoteSent, CR!Up
  <2>2. CR!TypeOK'
    BY <2>1 DEF CR!TypeOK
  <2>3. /\ coord'.decision = coord.decision
        /\ \A q \in Participant : coord'.heard[q] = (IF q = p THEN v ELSE coord.heard[q])
    BY <2>1 DEF CR!TypeOK
  <2>4. CRInv'
    BY <2>1, <2>3 DEF CRInv, CRKept
  <2> QED BY <2>2, <2>4
<1> QED BY <1>1, <1>2

(* RecoveryKeepsPromise, for any participants: however often they crash    *)
(* and recover from their logs, no log, store or memory goes against the   *)
(* coordinator, and a logged commit is known again, to be redone.          *)
THEOREM RecoveryKeepsPromiseCorrect == CR!Spec => []RecoveryKeepsPromise
<1>1. CR!Init => CR!TypeOK /\ CRInv
  BY DEF CR!Init, CR!TypeOK, CRInv, CRKept, CR!Record
<1>2. CR!TypeOK /\ CRInv /\ [CR!Next]_(CR!vars) => CR!TypeOK' /\ CRInv'
  <2> SUFFICES ASSUME CR!TypeOK, CRInv, [CR!Next]_(CR!vars) PROVE CR!TypeOK' /\ CRInv'
    OBVIOUS
  <2>1. CASE UNCHANGED CR!vars
    BY <2>1 DEF CR!vars, CR!TypeOK, CRInv
  <2> QED BY <2>1, CRCommand, CRCoordinator DEF CR!Next
<1>3. CRInv => RecoveryKeepsPromise
  BY DEF CRInv, CRKept, RecoveryKeepsPromise, CR!RecoveryKeepsPromise
<1> QED BY <1>1, <1>2, <1>3, PTL DEF CR!Spec
-----------------------------------------------------------------------------
(* two-phase-commit, by the book *)

(* What TwoPhase::reconsider leaves alone, and what it decides. *)
LEMMA T2Reconsider ==
    ASSUME NEW t \in T2!Tx
    PROVE  LET r == T2!Reconsider(t)
           IN  /\ r \in T2!Tx
               /\ r.votes = t.votes /\ r.p_state = t.p_state
               /\ r.up = t.up /\ r.broadcast = t.broadcast
               /\ t.decision # "none" => r.decision = t.decision
               /\ (\E p \in Participant : t.votes[p] = "no") =>
                      r.decision = (IF t.decision = "none" THEN "abort" ELSE t.decision)
               /\ t.decision = "none" /\ r.decision = "commit" =>
                      \A p \in Participant : t.votes[p] = "yes"
  BY DEF T2!Reconsider, T2!Tx

(* The tables of the transaction keep their types. *)
LEMMA T2TypeCorrect == T2!Spec => []T2!TypeOK
<1>1. T2!Init => T2!TypeOK
  BY DEF T2!Init, T2!TypeOK, T2!Tx
<1>2. T2!TypeOK /\ [T2!Next]_tx2 => T2!TypeOK'
  <2> SUFFICES ASSUME T2!TypeOK, [T2!Next]_tx2 PROVE T2!TypeOK'
    OBVIOUS
  <2> USE DEF T2!TypeOK
  <2>1. CASE T2!Prepare
    BY <2>1 DEF T2!Prepare, T2!Tx
  <2>2. CASE T2!Decide
    BY <2>2 DEF T2!Decide, T2!Tx
  <2>3. CASE T2!Crash
    BY <2>3 DEF T2!Crash, T2!Tx
  <2>4. ASSUME NEW p \in Participant, NEW v \in {"yes", "no"}, T2!Vote(p, v) PROVE tx2' \in T2!Tx
    <3> DEFINE t == [tx2 EXCEPT !.votes[p] = v,
                       !.p_state[p] = IF v = "yes" THEN "prepared" ELSE "aborted"]
    <3>1. t \in T2!Tx
      BY DEF T2!Tx
    <3> QED BY <2>4, <3>1, T2Reconsider DEF T2!Vote
  <2>5. ASSUME NEW p \in Participant, T2!Deliver(p) PROVE tx2' \in T2!Tx
    BY <2>5 DEF T2!Deliver, T2!Settled, T2!Tx
  <2>6. ASSUME NEW p \in Participant, T2!GiveUp(p) PROVE tx2' \in T2!Tx
    <3> DEFINE t == [tx2 EXCEPT !.p_state[p] = "aborted",
                       !.votes[p] = IF @ = "none" THEN "no" ELSE @]
    <3>1. t \in T2!Tx
      BY DEF T2!Tx
    <3> QED BY <2>6, <3>1, T2Reconsider DEF T2!GiveUp
  <2>7. ASSUME NEW p \in Participant, T2!PTimeout(p) PROVE tx2' \in T2!Tx
    BY <2>6, <2>7 DEF T2!PTimeout
  <2>8. ASSUME NEW p \in Participant, T2!PConsult(p) PROVE tx2' \in T2!Tx
    <3>1. CASE T2!GiveUp(p)
      BY <2>6, <3>1
    <3>2. ASSUME NEW q \in Participant, tx2' = [tx2 EXCEPT !.p_state[p] = tx2.p_state[q]]
          PROVE  tx2' \in T2!Tx
      BY <3>2 DEF T2!Tx
    <3>3. CASE tx2' = [tx2 EXCEPT !.p_state[p] = "aborted"]
      BY <3>3 DEF T2!Tx
    <3> QED BY <2>8, <3>1, <3>2, <3>3 DEF T2!PConsult
  <2>9. CASE UNCHANGED tx2
    BY <2>9
  <2> QED BY <2>1, <2>2, <2>3, <2>4, <2>5, <2>7, <2>8, <2>9 DEF T2!Next
<1> QED BY <1>1, <1>2, PTL DEF T2!Spec

(* A step by the book keeps DecisionInv. *)
LEMMA T2DecisionStep ==
    ASSUME T2!TypeOK, T2!DecisionInv, [T2!Next]_tx2
    PROVE  T2!DecisionInv'
<1> USE DEF T2!TypeOK
<1>1. CASE T2!Prepare
  BY <1>1 DEF T2!Prepare, T2!Tx, T2!DecisionInv
<1>2. CASE T2!Decide
  BY <1>2 DEF T2!Decide, T2!Tx, T2!DecisionInv
<1>3. CASE T2!Crash
  BY <1>3 DEF T2!Crash, T2!Tx, T2!DecisionInv
<1>4. ASSUME NEW p \in Participant, NEW v \in {"yes", "no"}, T2!Vote(p, v)
      PROVE  T2!DecisionInv'
  <2> DEFINE t == [tx2 EXCEPT !.votes[p] = v,
                     !.p_state[p] = IF v = "yes" THEN "prepared" ELSE "aborted"]
  <2>1. t \in T2!Tx
    BY DEF T2!Tx
  <2>2. /\ tx2' = T2!Reconsider(t) /\ tx2.votes[p] = "none" /\ tx2.decision # "commit"
        /\ t.decision = tx2.decision /\ t.up = tx2.up /\ t.broadcast = tx2.broadcast
        /\ t.votes = [tx2.votes EXCEPT ![p] = v]
        /\ t.p_state = [tx2.p_state EXCEPT ![p] = IF v = "yes" THEN "prepared" ELSE "aborted"]
    BY <1>4 DEF T2!Vote, T2!Tx, T2!DecisionInv
  <2> HIDE DEF t
  <2>3. tx2' = T2!Reconsider(t) /\ tx2' \in T2!Tx
    BY <2>1, <2>2, T2Reconsider
  <2>4. v = "no" => tx2'.decision = "abort"
    BY <2>1, <2>2, <2>3, T2Reconsider DEF T2!Tx
  <2> QED BY <2>1, <2>2, <2>3, <2>4, T2Reconsider DEF T2!Tx, T2!DecisionInv
<1>5. ASSUME NEW p \in Participant, T2!Deliver(p)
      PROVE  T2!DecisionInv'
  BY <1>5 DEF T2!Deliver, T2!Decision, T2!Settled, T2!Tx, T2!DecisionInv
<1>6. ASSUME NEW p \in Participant, T2!GiveUp(p)
      PROVE  T2!DecisionInv'
  <2> DEFINE t == [tx2 EXCEPT !.p_state[p] = "aborted",
                     !.votes[p] = IF @ = "none" THEN "no" ELSE @]
  <2>1. t \in T2!Tx
    BY DEF T2!Tx
  <2>2. /\ tx2' = T2!Reconsider(t) /\ tx2.votes[p] = "none" /\ tx2.decision # "commit"
        /\ t.decision = tx2.decision /\ t.up = tx2.up /\ t.broadcast = tx2.broadcast
        /\ t.votes = [tx2.votes EXCEPT ![p] = "no"]
        /\ t.p_state = [tx2.p_state EXCEPT ![p] = "aborted"]
    BY <1>6 DEF T2!GiveUp, T2!Tx, T2!DecisionInv
  <2> HIDE DEF t
  <2>3. tx2' = T2!Reconsider(t) /\ tx2' \in T2!Tx
    BY <2>1, <2>2, T2Reconsider
  <2>4. tx2'.decision = "abort"
    BY <2>1, <2>2, <2>3, T2Reconsider DEF T2!Tx
  <2> QED BY <2>1, <2>2, <2>3, <2>4, T2Reconsider DEF T2!Tx, T2!DecisionInv
<1>7. ASSUME NEW p \in Participant, T2!PTimeout(p)
      PROVE  T2!DecisionInv'
  BY <1>6, <1>7 DEF T2!PTimeout
<1>8. ASSUME NEW p \in Participant, T2!PConsult(p)
      PROVE  T2!DecisionInv'
  <2>1. CASE T2!GiveUp(p)
    BY <1>6, <2>1
  <2>2. ASSUME NEW q \in Participant, tx2.p_state[q] \in {"committed", "aborted"},
               tx2' = [tx2 EXCEPT !.p_state[p] = tx2.p_state[q]]
        PROVE  T2!DecisionInv'
    BY <2>2 DEF T2!Tx, T2!DecisionInv
  <2>3. ASSUME NEW q \in Participant, tx2.p_state[q] = "working", ~tx2.up,
               tx2' = [tx2 EXCEPT !.p_state[p] = "aborted"]
        PROVE  T2!DecisionInv'
    BY <2>3 DEF T2!Tx, T2!DecisionInv
  <2> QED BY <1>8, <2>1, <2>2, <2>3 DEF T2!PConsult, T2!Decision
<1>9. CASE UNCHANGED tx2
  BY <1>9 DEF T2!DecisionInv
<1> QED BY <1>1, <1>2, <1>3, <1>4, <1>5, <1>7, <1>8, <1>9 DEF T2!Next

(* Whoever commits does so on a broadcast decision with every yes behind   *)
(* it, and whoever has aborted is out of reach of one.                     *)
LEMMA T2DecisionCorrect ==
    T2!Spec => [](T2!TypeOK /\ T2!DecisionInv)
<1>1. T2!Init => T2!DecisionInv
  BY DEF T2!Init, T2!DecisionInv
<1>2. T2!TypeOK /\ T2!DecisionInv /\ [T2!Next]_tx2 => T2!DecisionInv'
  BY T2DecisionStep
<1> QED BY <1>1, <1>2, T2TypeCorrect, PTL DEF T2!Spec

(* "never split the participants": by the book nobody commits what another *)
(* aborts, whatever the order of votes, crashes and questions.             *)
THEOREM ParticipantsNeverSplit ==
    T2!Spec => []T2!NeverSplit
<1>1. T2!TypeOK /\ T2!DecisionInv => T2!NeverSplit
  BY DEF T2!TypeOK, T2!Tx, T2!DecisionInv, T2!NeverSplit, T2!TC!Consistent
<1> QED BY <1>1, T2DecisionCorrect, PTL

(* An abort of one participant is an abort of the abstract protocol: while *)
(* somebody has no vote, or the decision is not commit, nobody committed.  *)
LEMMA T2AbortStep ==
    ASSUME T2!TypeOK, T2!DecisionInv, NEW p \in Participant,
           tx2.p_state[p] \in {"working", "prepared"},
           tx2.decision # "commit",
           tx2'.p_state = [tx2.p_state EXCEPT ![p] = "aborted"]
    PROVE  T2!TC!Next
<1>1. \A q \in Participant : tx2.p_state[q] # "committed"
  BY DEF T2!DecisionInv
<1>2. T2!TC!Abort(p)
  BY <1>1 DEF T2!TC!Abort, T2!TC!Become
<1> QED BY <1>2 DEF T2!TC!Next

(* With a broadcast commit everybody has prepared, and nobody aborted. *)
LEMMA T2CommitStep ==
    ASSUME T2!TypeOK, T2!DecisionInv, NEW p \in Participant,
           tx2.p_state[p] \in {"working", "prepared"},
           tx2.decision = "commit", tx2.broadcast,
           tx2'.p_state = [tx2.p_state EXCEPT ![p] = "committed"]
    PROVE  T2!TC!Next
<1>1. \A q \in Participant : tx2.p_state[q] \in {"prepared", "committed"}
  BY DEF T2!TypeOK, T2!Tx, T2!DecisionInv
<1>2. T2!TC!Commit(p)
  BY <1>1 DEF T2!TC!Commit, T2!TC!Become
<1> QED BY <1>2 DEF T2!TC!Next

(* A participant that has not voted aborts by itself. *)
LEMMA T2GiveUpStep ==
    ASSUME T2!TypeOK, T2!DecisionInv, NEW p \in Participant, T2!GiveUp(p)
    PROVE  T2!TC!Next
<1> DEFINE t == [tx2 EXCEPT !.p_state[p] = "aborted",
                   !.votes[p] = IF @ = "none" THEN "no" ELSE @]
<1>1. t \in T2!Tx /\ t.p_state = [tx2.p_state EXCEPT ![p] = "aborted"] /\ tx2' = T2!Reconsider(t)
  BY DEF T2!TypeOK, T2!Tx, T2!GiveUp
<1> HIDE DEF t
<1>2. tx2'.p_state = [tx2.p_state EXCEPT ![p] = "aborted"]
  BY <1>1, T2Reconsider
<1>3. tx2.p_state[p] = "working" /\ tx2.decision # "commit"
  BY DEF T2!GiveUp, T2!TypeOK, T2!Tx, T2!DecisionInv
<1> QED BY <1>2, <1>3, T2AbortStep

(* A step by the book is a step of atomic commit, or changes nothing of it.*)
LEMMA T2Step ==
    ASSUME T2!TypeOK, T2!DecisionInv, [T2!Next]_tx2
    PROVE  [T2!TC!Next]_(tx2.p_state)
<1>1. CASE T2!Prepare
  BY <1>1 DEF T2!Prepare, T2!TypeOK, T2!Tx
<1>2. CASE T2!Decide
  BY <1>2 DEF T2!Decide, T2!TypeOK, T2!Tx
<1>3. CASE T2!Crash
  BY <1>3 DEF T2!Crash, T2!TypeOK, T2!Tx
<1>4. ASSUME NEW p \in Participant, NEW v \in {"yes", "no"}, T2!Vote(p, v)
      PROVE  T2!TC!Next
  <2> DEFINE s == IF v = "yes" THEN "prepared" ELSE "aborted"
             t == [tx2 EXCEPT !.votes[p] = v, !.p_state[p] = s]
  <2>1. t \in T2!Tx /\ t.p_state = [tx2.p_state EXCEPT ![p] = s] /\ tx2' = T2!Reconsider(t)
    BY <1>4 DEF T2!TypeOK, T2!Tx, T2!Vote
  <2>2. tx2.p_state[p] = "working" /\ tx2.decision # "commit"
    BY <1>4 DEF T2!Vote, T2!TypeOK, T2!Tx, T2!DecisionInv
  <2> HIDE DEF t
  <2>3. tx2'.p_state = [tx2.p_state EXCEPT ![p] = s]
    BY <2>1, T2Reconsider
  <2>4. CASE v = "yes"
    <3>1. T2!TC!Prepare(p)
      BY <2>2, <2>3, <2>4 DEF T2!TC!Prepare, T2!TC!Become
    <3> QED BY <3>1 DEF T2!TC!Next
  <2>5. CASE v = "no"
    BY <2>2, <2>3, <2>5, T2AbortStep
  <2> QED BY <2>4, <2>5
<1>5. ASSUME NEW p \in Participant, T2!Deliver(p)
      PROVE  T2!TC!Next
  <2>1. /\ tx2.p_state[p] \in {"working", "prepared"} /\ tx2.broadcast
        /\ tx2'.p_state = [tx2.p_state EXCEPT ![p] = T2!Settled(tx2.decision)]
        /\ tx2.decision \in {"commit", "abort"}
    BY <1>5 DEF T2!Deliver, T2!Decision, T2!TypeOK, T2!Tx
  <2>2. CASE tx2.decision = "commit"
    BY <2>1, <2>2, T2CommitStep DEF T2!Settled
  <2>3. CASE tx2.decision = "abort"
    BY <2>1, <2>3, T2AbortStep DEF T2!Settled
  <2> QED BY <2>1, <2>2, <2>3
<1>6. ASSUME NEW p \in Participant, T2!PTimeout(p)
      PROVE  T2!TC!Next
  BY <1>6, T2GiveUpStep DEF T2!PTimeout
<1>7. ASSUME NEW p \in Participant, T2!PConsult(p)
      PROVE  T2!TC!Next
  <2>1. CASE T2!GiveUp(p)
    BY <2>1, T2GiveUpStep
  <2>2. ASSUME NEW q \in Participant, tx2.p_state[p] = "prepared",
               tx2.p_state[q] = "committed",
               tx2' = [tx2 EXCEPT !.p_state[p] = "committed"]
        PROVE  T2!TC!Next
    <3>1. tx2.decision = "commit" /\ tx2.broadcast
      BY <2>2 DEF T2!DecisionInv
    <3>2. tx2'.p_state = [tx2.p_state EXCEPT ![p] = "committed"]
      BY <2>2 DEF T2!TypeOK, T2!Tx
    <3> QED BY <2>2, <3>1, <3>2, T2CommitStep
  <2>3. ASSUME NEW q \in Participant, tx2.p_state[p] = "prepared",
               tx2.p_state[q] \in {"aborted", "working"}, ~tx2.up,
               \A r \in Participant : tx2.p_state[q] = "working" => tx2.p_state[r] # "committed",
               tx2' = [tx2 EXCEPT !.p_state[p] = "aborted"]
        PROVE  T2!TC!Next
    <3>1. \A r \in Participant : tx2.p_state[r] # "committed"
      BY <2>3 DEF T2!DecisionInv
    <3>2. tx2'.p_state = [tx2.p_state EXCEPT ![p] = "aborted"]
      BY <2>3 DEF T2!TypeOK, T2!Tx
    <3>3. T2!TC!Abort(p)
      BY <2>3, <3>1, <3>2 DEF T2!TC!Abort, T2!TC!Become
    <3> QED BY <3>3 DEF T2!TC!Next
  <2>4. \/ T2!GiveUp(p)
        \/ /\ tx2.p_state[p] = "prepared" /\ ~tx2.up
           /\ \E q \in Participant :
                 \/ /\ tx2.p_state[q] \in {"committed", "aborted"}
                    /\ tx2' = [tx2 EXCEPT !.p_state[p] = tx2.p_state[q]]
                 \/ /\ tx2.p_state[q] = "working"
                    /\ \A r \in Participant : tx2.p_state[r] # "committed"
                    /\ tx2' = [tx2 EXCEPT !.p_state[p] = "aborted"]
    BY <1>7 DEF T2!PConsult, T2!Decision
  <2> QED BY <2>1, <2>2, <2>3, <2>4
<1>8. CASE UNCHANGED tx2
  BY <1>8
<1> QED BY <1>1, <1>2, <1>3, <1>4, <1>5, <1>6, <1>7, <1>8 DEF T2!Next

(* Two-phase commit by the book implements atomic commit: what its         *)
(* participants come to is what TCommit allows them to.                    *)
THEOREM TwoPhaseImplementsTCommit ==
    T2!Spec => ImplementsTCommit
<1>1. T2!Init => T2!TC!Init
  BY DEF T2!Init, T2!TC!Init
<1>2. T2!TypeOK /\ T2!DecisionInv /\ [T2!Next]_tx2 => [T2!TC!Next]_(tx2.p_state)
  BY T2Step
<1> QED BY <1>1, <1>2, T2DecisionCorrect, PTL
        DEF T2!Spec, ImplementsTCommit, T2!ImplementsTCommit, T2!TC!Spec
-----------------------------------------------------------------------------
(* three-phase-commit *)

T3State == [state : {"init", "voting", "pre-committed", "committed", "aborted"},
            decision : {"none", "commit", "abort"}, broadcast : BOOLEAN, up : BOOLEAN,
            votes : [Participant -> {"none", "yes", "no"}],
            p_state : [Participant ->
                         {"working", "prepared", "pre-committed", "committed", "aborted"}],
            acks : SUBSET Participant, cut_off : SUBSET Participant, split : BOOLEAN]

T3Type == tx3 \in T3State /\ hasty \in BOOLEAN

(* The coordinator has begun to pre-commit. *)
T3Begun(t) == t.state \in {"pre-committed", "committed"}
T3Refused(t) == \E p \in Participant : t.votes[p] = "no"

(* Nobody goes past prepared before the pre-commit round has begun, which  *)
(* takes every yes; and who aborts without haste knows of a no, or that a  *)
(* dead coordinator never began the round.                                 *)
T3Safe(t, h) ==
    /\ T3Begun(t) => \A p \in Participant : t.votes[p] = "yes"
    /\ t.decision = "commit" => T3Begun(t)
    /\ t.decision = "abort" => T3Refused(t)
    /\ \A p \in Participant :
          /\ t.p_state[p] \in {"pre-committed", "committed"} => T3Begun(t)
          /\ t.p_state[p] = "working" => t.votes[p] = "none"
          /\ t.p_state[p] = "aborted" => h \/ T3Refused(t) \/ (~t.up /\ ~T3Begun(t))

T3Inv == T3Safe(tx3, hasty)

(* A step that changes the state of participant p and no vote. *)
LEMMA T3Settles ==
    ASSUME NEW t \in T3State, NEW h \in BOOLEAN, NEW p \in Participant, T3Safe(t, h),
           NEW s \in {"pre-committed", "committed", "aborted"}, NEW g \in BOOLEAN, h => g,
           NEW u, u = [t EXCEPT !.p_state[p] = s],
           s \in {"pre-committed", "committed"} => T3Begun(t),
           s = "aborted" => g \/ T3Refused(t) \/ (~t.up /\ ~T3Begun(t))
    PROVE  u \in T3State /\ T3Safe(u, g)
<1>1. PICK f : f = [t.p_state EXCEPT ![p] = s]
  OBVIOUS
<1>2. u = [t EXCEPT !.p_state = f]
  BY <1>1
<1>3. f \in [Participant -> {"working", "prepared", "pre-committed", "committed", "aborted"}]
  BY <1>1 DEF T3State
<1>4. /\ u \in T3State /\ u.p_state = f /\ u.votes = t.votes /\ u.state = t.state
      /\ u.decision = t.decision /\ u.up = t.up
  BY <1>2, <1>3 DEF T3State
<1>5. \A q \in Participant : f[q] = (IF q = p THEN s ELSE t.p_state[q])
  BY <1>1 DEF T3State
<1> QED BY <1>4, <1>5 DEF T3Safe, T3Begun, T3Refused

(* A step that touches neither votes nor participants, nor the decision.   *)
LEMMA T3Moves ==
    ASSUME NEW t \in T3State, NEW u \in T3State, NEW h \in BOOLEAN, T3Safe(t, h),
           u.votes = t.votes, u.p_state = t.p_state, u.decision = t.decision,
           u.state = t.state, t.up \/ u.up = t.up
    PROVE  T3Safe(u, h)
BY DEF T3Safe, T3Begun, T3Refused

(* A vote keeps the types and the invariant. *)
LEMMA T3Vote ==
    ASSUME NEW t \in T3State, NEW h \in BOOLEAN, NEW p \in Participant, T3Safe(t, h),
           t.votes[p] = "none", NEW v \in {"yes", "no"}, NEW u \in T3State,
           \A q \in Participant : u.votes[q] = (IF q = p THEN v ELSE t.votes[q]),
           \A q \in Participant : u.p_state[q] = (IF q # p THEN t.p_state[q]
                                                  ELSE IF v = "yes" THEN "prepared"
                                                  ELSE "aborted"),
           u.up = t.up, ~T3Begun(u),
           u.decision = t.decision \/ (u.decision = "abort" /\ v = "no")
    PROVE  T3Safe(u, h)
<1>1. ~T3Begun(t)
  BY DEF T3Safe
<1>2. T3Refused(t) => T3Refused(u)
  BY DEF T3Refused
<1>3. v = "no" => T3Refused(u)
  BY DEF T3Refused
<1>4. u.decision # "commit" /\ (u.decision = "abort" => T3Refused(u))
  BY <1>1, <1>2, <1>3 DEF T3Safe
<1>5. ASSUME NEW q \in Participant
      PROVE  /\ u.p_state[q] \notin {"pre-committed", "committed"}
             /\ u.p_state[q] = "working" => u.votes[q] = "none"
             /\ u.p_state[q] = "aborted" => h \/ T3Refused(u) \/ ~u.up
  <2>1. CASE q = p
    BY <1>3, <2>1
  <2>2. CASE q # p
    <3>1. u.p_state[q] = t.p_state[q] /\ u.votes[q] = t.votes[q]
      BY <2>2
    <3> QED BY <1>1, <1>2, <3>1 DEF T3Safe
  <2> QED BY <2>1, <2>2
<1> QED BY <1>4, <1>5 DEF T3Safe

(* Every step of a transaction keeps the types and the invariant. *)
LEMMA T3Step ==
    ASSUME T3Type, T3Inv, T3!Next
    PROVE  T3Type' /\ T3Inv'
<1>1. PICK t \in T3State, h \in BOOLEAN : t = tx3 /\ h = hasty
  BY DEF T3Type
<1>2. T3Safe(t, h)
  BY <1>1 DEF T3Inv
<1>3. ASSUME NEW u \in T3State, NEW g \in BOOLEAN, tx3' = u, hasty' = g, T3Safe(u, g)
      PROVE  T3Type' /\ T3Inv'
  BY <1>3 DEF T3Type, T3Inv
<1>4. CASE T3!PreCommit
  <2>1. PICK u : u = [t EXCEPT !.state = "pre-committed"]
    OBVIOUS
  <2>2. tx3' = u /\ hasty' = h /\ t.up /\ \A p \in Participant : t.votes[p] = "yes"
    BY <1>1, <1>4, <2>1 DEF T3!PreCommit, T3!AllYes
  <2>3. /\ u \in T3State /\ u.state = "pre-committed" /\ u.votes = t.votes /\ u.up = t.up
        /\ u.p_state = t.p_state /\ u.decision = t.decision
    BY <2>1 DEF T3State
  <2>4. T3Safe(u, h)
    BY <1>2, <2>2, <2>3 DEF T3Safe, T3Begun, T3Refused
  <2> QED BY <1>3, <2>2, <2>3, <2>4
<1>5. CASE T3!Commit
  <2>1. PICK u : u = [t EXCEPT !.decision = "commit", !.state = "committed",
                               !.broadcast = TRUE]
    OBVIOUS
  <2>2. tx3' = u /\ hasty' = h /\ t.state = "pre-committed"
    BY <1>1, <1>5, <2>1 DEF T3!Commit
  <2>3. /\ u \in T3State /\ u.state = "committed" /\ u.votes = t.votes /\ u.up = t.up
        /\ u.p_state = t.p_state /\ u.decision = "commit"
    BY <2>1 DEF T3State
  <2>4. T3Safe(u, h)
    BY <1>2, <2>2, <2>3 DEF T3Safe, T3Begun, T3Refused
  <2> QED BY <1>3, <2>2, <2>3, <2>4
<1>6. CASE T3!Crash \/ T3!Heal \/ (\E group \in SUBSET Participant : T3!Partition(group))
           \/ \E p \in Participant : T3!Ack(p)
  <2>1. ASSUME NEW u \in T3State, tx3' = u, hasty' = h, u.votes = t.votes,
               u.p_state = t.p_state, u.decision = t.decision, u.state = t.state,
               t.up \/ u.up = t.up
        PROVE  T3Type' /\ T3Inv'
    <3>1. T3Safe(u, h)
      BY <1>2, <2>1, T3Moves
    <3> QED BY <1>3, <2>1, <3>1
  <2>2. CASE T3!Crash
    <3>1. PICK u : u = [t EXCEPT !.up = FALSE]
      OBVIOUS
    <3>2. tx3' = u /\ hasty' = h /\ t.up
      BY <1>1, <2>2, <3>1 DEF T3!Crash
    <3>3. /\ u \in T3State /\ u.votes = t.votes /\ u.p_state = t.p_state
          /\ u.decision = t.decision /\ u.state = t.state
      BY <3>1 DEF T3State
    <3> QED BY <2>1, <3>2, <3>3
  <2>3. ASSUME NEW group \in SUBSET Participant, NEW b \in BOOLEAN, hasty' = h,
               tx3' = [t EXCEPT !.cut_off = group, !.split = b]
        PROVE  T3Type' /\ T3Inv'
    <3>1. PICK u : u = [t EXCEPT !.cut_off = group, !.split = b]
      OBVIOUS
    <3>2. /\ u \in T3State /\ u.votes = t.votes /\ u.p_state = t.p_state
          /\ u.decision = t.decision /\ u.state = t.state /\ u.up = t.up
      BY <3>1 DEF T3State
    <3> QED BY <2>1, <2>3, <3>1, <3>2
  <2>4. CASE T3!Heal
    BY <1>1, <2>3, <2>4 DEF T3!Heal
  <2>5. ASSUME NEW group \in SUBSET Participant, T3!Partition(group)
        PROVE  T3Type' /\ T3Inv'
    BY <1>1, <2>3, <2>5 DEF T3!Partition
  <2>6. ASSUME NEW p \in Participant, T3!Ack(p) PROVE T3Type' /\ T3Inv'
    <3>1. PICK u : u = [t EXCEPT !.acks = @ \cup {p}]
      OBVIOUS
    <3>2. tx3' = u /\ hasty' = h
      BY <1>1, <2>6, <3>1 DEF T3!Ack
    <3>3. /\ u \in T3State /\ u.votes = t.votes /\ u.p_state = t.p_state
          /\ u.decision = t.decision /\ u.state = t.state /\ u.up = t.up
      BY <3>1 DEF T3State
    <3> QED BY <2>1, <3>2, <3>3
  <2> QED BY <1>6, <2>2, <2>4, <2>5, <2>6
<1>7. ASSUME NEW p \in Participant, NEW s \in {"pre-committed", "committed", "aborted"},
             NEW g \in BOOLEAN, h => g, hasty' = g, tx3' = [t EXCEPT !.p_state[p] = s],
             s \in {"pre-committed", "committed"} => T3Begun(t),
             s = "aborted" => g \/ T3Refused(t) \/ (~t.up /\ ~T3Begun(t))
      PROVE  T3Type' /\ T3Inv'
  <2>1. PICK u : u = [t EXCEPT !.p_state[p] = s]
    OBVIOUS
  <2>2. u \in T3State /\ T3Safe(u, g)
    BY <1>2, <1>7, <2>1, T3Settles
  <2> QED BY <1>3, <1>7, <2>1, <2>2
<1>8. ASSUME NEW p \in Participant, T3!PPrecommit(p) PROVE T3Type' /\ T3Inv'
  BY <1>1, <1>7, <1>8 DEF T3!PPrecommit, T3Begun
<1>9. ASSUME NEW p \in Participant, T3!Deliver(p) PROVE T3Type' /\ T3Inv'
  <2>1. t.decision \in {"commit", "abort"} /\ hasty' = h
    BY <1>1, <1>9 DEF T3!Deliver, T3State
  <2>2. CASE t.decision = "commit"
    <3>1. tx3' = [t EXCEPT !.p_state[p] = "committed"] /\ T3Begun(t)
      BY <1>1, <1>2, <1>9, <2>2 DEF T3!Deliver, T3Safe
    <3> QED BY <1>7, <2>1, <3>1
  <2>3. CASE t.decision = "abort"
    <3>1. tx3' = [t EXCEPT !.p_state[p] = "aborted"] /\ T3Refused(t)
      BY <1>1, <1>2, <1>9, <2>3 DEF T3!Deliver, T3Safe
    <3> QED BY <1>7, <2>1, <3>1
  <2> QED BY <2>1, <2>2, <2>3
<1>10. ASSUME NEW p \in Participant, T3!PTimeout(p) PROVE T3Type' /\ T3Inv'
  <2>1. t.p_state[p] \in {"working", "prepared", "pre-committed"}
    BY <1>1, <1>10 DEF T3!PTimeout, T3!Undecided, T3State
  <2>2. CASE t.p_state[p] = "pre-committed"
    <3>1. tx3' = [t EXCEPT !.p_state[p] = "committed"] /\ hasty' = h /\ T3Begun(t)
      BY <1>1, <1>2, <1>10, <2>2 DEF T3!PTimeout, T3Safe
    <3> QED BY <1>7, <3>1
  <2>3. CASE t.p_state[p] = "prepared"
    <3>1. PICK g \in BOOLEAN : g = (h \/ (t.decision # "abort" /\ (t.up \/ T3Begun(t))))
      OBVIOUS
    <3>2. tx3' = [t EXCEPT !.p_state[p] = "aborted"] /\ hasty' = g
      BY <1>1, <1>10, <2>3, <3>1 DEF T3!PTimeout, T3Begun
    <3>3. g \/ T3Refused(t) \/ (~t.up /\ ~T3Begun(t))
      BY <1>2, <3>1 DEF T3Safe
    <3> QED BY <1>7, <3>1, <3>2, <3>3
  <2>4. CASE t.p_state[p] = "working"
    <3>1. t.votes[p] = "none"
      BY <1>2, <2>4 DEF T3Safe
    <3>2. PICK f, w, u : /\ f = [t.p_state EXCEPT ![p] = "aborted"]
                         /\ w = [t.votes EXCEPT ![p] = "no"]
                         /\ u = [t EXCEPT !.p_state = f, !.votes = w]
      OBVIOUS
    <3>3. tx3' = u /\ hasty' = h
      BY <1>1, <1>10, <2>4, <3>1, <3>2 DEF T3!PTimeout
    <3>4. /\ f \in [Participant ->
                      {"working", "prepared", "pre-committed", "committed", "aborted"}]
          /\ w \in [Participant -> {"none", "yes", "no"}]
          /\ \A q \in Participant : /\ f[q] = (IF q = p THEN "aborted" ELSE t.p_state[q])
                                    /\ w[q] = (IF q = p THEN "no" ELSE t.votes[q])
      BY <3>2 DEF T3State
    <3>5. /\ u \in T3State /\ u.votes = w /\ u.p_state = f /\ u.state = t.state
          /\ u.decision = t.decision /\ u.up = t.up
      BY <3>2, <3>4 DEF T3State
    <3>6. ~T3Begun(u)
      BY <1>2, <3>1, <3>5 DEF T3Safe, T3Begun
    <3>7. T3Safe(u, h)
      <4>1. PICK v : v = "no"
        OBVIOUS
      <4>2. /\ \A q \in Participant : u.votes[q] = (IF q = p THEN v ELSE t.votes[q])
            /\ \A q \in Participant : u.p_state[q] = (IF q # p THEN t.p_state[q]
                                                      ELSE IF v = "yes" THEN "prepared"
                                                      ELSE "aborted")
        BY <3>4, <3>5, <4>1
      <4> QED BY <1>2, <3>1, <3>5, <3>6, <4>1, <4>2, T3Vote
    <3> QED BY <1>3, <3>3, <3>5, <3>7
  <2> QED BY <2>1, <2>2, <2>3, <2>4
<1>11. ASSUME NEW p \in Participant, NEW v \in {"yes", "no"}, T3!Vote(p, v)
       PROVE  T3Type' /\ T3Inv'
  <2>1. t.votes[p] = "none" /\ hasty' = h
    BY <1>1, <1>11 DEF T3!Vote
  <2>2. PICK f, w, s, x :
               /\ f = [t.p_state EXCEPT ![p] = IF v = "yes" THEN "prepared" ELSE "aborted"]
               /\ w = [t.votes EXCEPT ![p] = v]
               /\ s = (IF t.state = "init" THEN "voting" ELSE t.state)
               /\ x = [t EXCEPT !.votes = w, !.p_state = f, !.state = s]
    OBVIOUS
  <2>3. /\ f \in [Participant ->
                    {"working", "prepared", "pre-committed", "committed", "aborted"}]
        /\ w \in [Participant -> {"none", "yes", "no"}]
        /\ \A q \in Participant : /\ f[q] = (IF q # p THEN t.p_state[q]
                                             ELSE IF v = "yes" THEN "prepared"
                                             ELSE "aborted")
                                  /\ w[q] = (IF q = p THEN v ELSE t.votes[q])
    BY <2>2 DEF T3State
  <2>33. ~T3Begun(t)
    BY <1>2, <2>1 DEF T3Safe
  <2>34. s \in {"init", "voting", "pre-committed", "committed", "aborted"}
    BY <2>2 DEF T3State
  <2>4. /\ x \in T3State /\ x.votes = w /\ x.p_state = f /\ x.state = s
        /\ x.decision = t.decision /\ x.up = t.up
    BY <2>2, <2>3, <2>34 DEF T3State
  <2>5. s \notin {"pre-committed", "committed"}
    BY <2>2, <2>33 DEF T3Begun
  <2>6. PICK u : u = IF v = "no" /\ t.decision = "none"
                     THEN [x EXCEPT !.decision = "abort", !.state = "aborted",
                                    !.broadcast = TRUE]
                     ELSE x
    OBVIOUS
  <2>7. tx3' = u
    <3>1. x = [t EXCEPT !.votes[p] = v,
                        !.p_state[p] = IF v = "yes" THEN "prepared" ELSE "aborted",
                        !.state = IF @ = "init" THEN "voting" ELSE @]
      BY <2>2 DEF T3State
    <3> QED BY <1>1, <1>11, <2>6, <3>1 DEF T3!Vote
  <2>8. /\ u \in T3State /\ u.votes = w /\ u.p_state = f /\ u.up = t.up
        /\ u.state \in {s, "aborted"}
        /\ u.decision = t.decision \/ (u.decision = "abort" /\ v = "no")
    <3>1. CASE v = "no" /\ t.decision = "none"
      BY <2>4, <2>6, <3>1 DEF T3State
    <3>2. CASE ~(v = "no" /\ t.decision = "none")
      <4>1. u = x
        BY <2>6, <3>2
      <4> QED BY <2>4, <4>1
    <3> QED BY <3>1, <3>2
  <2>9. T3Safe(u, h)
    <3>1. ~T3Begun(u)
      BY <2>5, <2>8 DEF T3Begun
    <3>2. /\ \A q \in Participant : u.votes[q] = (IF q = p THEN v ELSE t.votes[q])
          /\ \A q \in Participant : u.p_state[q] = (IF q # p THEN t.p_state[q]
                                                    ELSE IF v = "yes" THEN "prepared"
                                                    ELSE "aborted")
      BY <2>3, <2>8
    <3> QED BY <1>2, <2>1, <2>8, <3>1, <3>2, T3Vote
  <2> QED BY <1>3, <2>1, <2>7, <2>8, <2>9
<1> QED BY <1>4, <1>5, <1>6, <1>8, <1>9, <1>10, <1>11 DEF T3!Next

(* SplitNeedsHaste, for any participants: neither a partition nor a crash  *)
(* of the coordinator makes one participant commit and another abort,      *)
(* unless a prepared one timed out while the round could still go on.      *)
THEOREM SplitNeedsHasteCorrect == T3!Spec => []SplitNeedsHaste
<1>1. T3!Init => T3Type /\ T3Inv
  <2> SUFFICES ASSUME T3!Init PROVE T3Type /\ T3Inv
    OBVIOUS
  <2>1. T3Type
    BY DEF T3!Init, T3Type, T3State
  <2>2. /\ tx3.state = "init" /\ tx3.decision = "none"
        /\ \A p \in Participant : tx3.p_state[p] = "working" /\ tx3.votes[p] = "none"
    BY DEF T3!Init
  <2>3. T3Inv
    BY <2>2 DEF T3Inv, T3Safe, T3Begun, T3Refused
  <2> QED BY <2>1, <2>3
<1>2. T3Type /\ T3Inv /\ [T3!Next]_(T3!vars) => T3Type' /\ T3Inv'
  <2> SUFFICES ASSUME T3Type, T3Inv, [T3!Next]_(T3!vars) PROVE T3Type' /\ T3Inv'
    OBVIOUS
  <2>1. CASE UNCHANGED T3!vars
    BY <2>1 DEF T3!vars, T3Type, T3Inv
  <2> QED BY <2>1, T3Step
<1>3. T3Type /\ T3Inv => SplitNeedsHaste
  BY DEF T3Type, T3Inv, T3Safe, T3Begun, T3Refused, SplitNeedsHaste, T3!SplitNeedsHaste
<1> QED BY <1>1, <1>2, <1>3, PTL DEF T3!Spec
-----------------------------------------------------------------------------
(* raft-membership *)

(* The instance counts the members of a set as this module does. *)
LEMMA RMCounts == ASSUME NEW S PROVE RM!Cardinality(S) = Cardinality(S)
BY DEF RM!Cardinality, Cardinality

(* Two member lists that differ by at most one server: a majority of the   *)
(* smaller one and a majority of the larger one share a server.            *)
LEMMA AdjacentMajorities ==
    ASSUME NEW M, NEW N, IsFiniteSet(N), M \subseteq N,
           Cardinality(N) <= Cardinality(M) + 1,
           NEW V, NEW W, RM!Carries(V, M), RM!Carries(W, N)
    PROVE  V \cap W # {}
<1> DEFINE A == M \cap V
           B == N \cap W
<1>1. IsFiniteSet(M) /\ IsFiniteSet(A) /\ IsFiniteSet(B) /\ A \subseteq N /\ B \subseteq N
  BY FS_Subset
<1>2. PICK a \in Nat : a = Cardinality(A)
  BY <1>1, FS_CardinalityType
<1>3. PICK b \in Nat : b = Cardinality(B)
  BY <1>1, FS_CardinalityType
<1>4. PICK m \in Nat : m = Cardinality(M)
  BY <1>1, FS_CardinalityType
<1>5. PICK n \in Nat : n = Cardinality(N)
  BY FS_CardinalityType
<1>6. a >= (m \div 2) + 1 /\ b >= (n \div 2) + 1 /\ m <= n /\ n <= m + 1
  <2>1. Cardinality(M) <= Cardinality(N)
    BY FS_Subset
  <2>2. Cardinality(A) >= (Cardinality(M) \div 2) + 1
        /\ Cardinality(B) >= (Cardinality(N) \div 2) + 1
    BY RMCounts DEF RM!Carries, RM!QuorumOf
  <2> QED BY <1>2, <1>3, <1>4, <1>5, <2>1, <2>2
<1>7. a + b > n
  BY <1>6
<1>8. A \cap B # {}
  BY <1>1, <1>2, <1>3, <1>5, <1>7, FS_MajoritiesIntersect
<1> QED BY <1>8

(* Two majorities of one member list share a server. *)
LEMMA SameMajorities ==
    ASSUME NEW M \in SUBSET Server, NEW V, NEW W, RM!Carries(V, M), RM!Carries(W, M)
    PROVE  V \cap W # {}
<1>1. IsFiniteSet(M) /\ Cardinality(M) \in Nat
  BY TopicsAssumption, FS_Subset, FS_CardinalityType
<1>2. Cardinality(M) <= Cardinality(M) + 1
  BY <1>1
<1> QED BY <1>1, <1>2, AdjacentMajorities

RMState == [phase : {"stable", "joint", "new", "pending"}, members : SUBSET Server,
            old : SUBSET Server, new : SUBSET Server]

(* The configuration d is at most one change away from c. *)
OneChange(c, d) ==
    \/ c.phase # "joint" /\ d.phase = "joint" /\ d.old = c.members
    \/ c.phase = "joint" /\ d.phase # "joint" /\ d.members = c.new
    \/ c.phase # "joint" /\ d.phase # "joint" /\ d.members = c.members
    \/ \E s \in Server \ c.members :
          c.phase # "joint" /\ d.phase # "joint" /\ d.members = c.members \cup {s}
    \/ \E s \in c.members :
          c.phase # "joint" /\ d.phase # "joint" /\ d.members = c.members \ {s}

(* Whoever decides in a configuration and whoever decides one change later *)
(* share a server.                                                         *)
LEMMA ChangeOverlaps ==
    ASSUME NEW c \in RMState, NEW d \in RMState, NEW V, NEW W,
           RM!Agree(c, V), RM!Agree(d, W), OneChange(c, d)
    PROVE  V \cap W # {}
<1>1. c.members \in SUBSET Server /\ c.new \in SUBSET Server /\ IsFiniteSet(c.members)
      /\ d.members \in SUBSET Server /\ IsFiniteSet(d.members)
  BY TopicsAssumption, FS_Subset DEF RMState
<1>2. CASE c.phase # "joint" /\ d.phase = "joint" /\ d.old = c.members
  BY <1>1, <1>2, SameMajorities DEF RM!Agree
<1>3. CASE c.phase = "joint" /\ d.phase # "joint" /\ d.members = c.new
  BY <1>1, <1>3, SameMajorities DEF RM!Agree
<1>4. CASE c.phase # "joint" /\ d.phase # "joint" /\ d.members = c.members
  BY <1>1, <1>4, SameMajorities DEF RM!Agree
<1>5. Cardinality(c.members) \in Nat /\ Cardinality(d.members) \in Nat
  BY <1>1, FS_CardinalityType
<1>6. ASSUME NEW s \in Server \ c.members, c.phase # "joint", d.phase # "joint",
             d.members = c.members \cup {s}
      PROVE  V \cap W # {}
  <2>1. Cardinality(d.members) <= Cardinality(c.members) + 1 /\ c.members \subseteq d.members
    BY <1>1, <1>5, <1>6, FS_AddElement
  <2> QED BY <1>1, <1>6, <2>1, AdjacentMajorities DEF RM!Agree
<1>7. ASSUME NEW s \in c.members, c.phase # "joint", d.phase # "joint",
             d.members = c.members \ {s}
      PROVE  V \cap W # {}
  <2>1. Cardinality(c.members) <= Cardinality(d.members) + 1 /\ d.members \subseteq c.members
    BY <1>1, <1>5, <1>7, FS_RemoveElement
  <2>2. W \cap V # {}
    BY <1>1, <1>7, <2>1, AdjacentMajorities DEF RM!Agree
  <2> QED BY <2>2
<1> QED BY <1>2, <1>3, <1>4, <1>6, <1>7 DEF OneChange

(* The configuration in use is never more than one change away from the    *)
(* one committed last, and is that one when no change is under way.        *)
RMInv ==
    /\ OneChange(settled, config)
    /\ config.phase = "stable" =>
          settled.phase # "joint" /\ settled.members = config.members

(* A change begins in a stable configuration, and the next waits for it.   *)
LEMMA RMStep ==
    ASSUME config \in RMState, settled \in RMState, RMInv, RM!Next
    PROVE  config' \in RMState /\ settled' \in RMState /\ RMInv'
<1>1. PICK c \in RMState, k \in RMState : c = config /\ k = settled
  OBVIOUS
<1>2. c.phase = "stable" => k.phase # "joint" /\ k.members = c.members
  BY <1>1 DEF RMInv
<1>3. ASSUME NEW d \in RMState, NEW m \in RMState, config' = d, settled' = m,
             OneChange(m, d), d.phase = "stable" => m = d
      PROVE  config' \in RMState /\ settled' \in RMState /\ RMInv'
  BY <1>3 DEF RMInv, OneChange
<1>4. ASSUME NEW new \in SUBSET Server, RM!Joint(new)
      PROVE  config' \in RMState /\ settled' \in RMState /\ RMInv'
  <2>1. PICK d : d = [c EXCEPT !.phase = "joint", !.old = c.members, !.new = new]
    OBVIOUS
  <2>2. d \in RMState /\ d.phase = "joint" /\ d.old = c.members
    BY <2>1 DEF RMState
  <2>3. config' = d /\ settled' = k /\ c.phase = "stable"
    BY <1>1, <1>4, <2>1 DEF RM!Joint
  <2> QED BY <1>2, <1>3, <2>2, <2>3 DEF OneChange
<1>5. CASE RM!CommitJoint
  <2>1. PICK d : d = [c EXCEPT !.phase = "new", !.members = c.new]
    OBVIOUS
  <2>2. d \in RMState /\ d.phase = "new" /\ d.members = c.new
    BY <2>1 DEF RMState
  <2>3. config' = d /\ settled' = c /\ c.phase = "joint"
    BY <1>1, <1>5, <2>1 DEF RM!CommitJoint
  <2> QED BY <1>3, <2>2, <2>3 DEF OneChange
<1>6. CASE RM!CommitNew \/ RM!CommitChange
  <2>1. config' \in RMState /\ config'.phase = "stable" /\ settled' = config'
    BY <1>1, <1>6 DEF RM!CommitNew, RM!CommitChange, RMState
  <2>2. PICK d \in RMState : d = config' /\ d.phase = "stable" /\ d = settled'
    BY <2>1
  <2> QED BY <1>3, <2>2 DEF OneChange
<1>7. ASSUME NEW N \in SUBSET Server, c.phase = "stable",
             config' = [c EXCEPT !.phase = "pending", !.members = N], settled' = k,
             \/ \E s \in Server \ c.members : N = c.members \cup {s}
             \/ \E s \in c.members : N = c.members \ {s}
      PROVE  config' \in RMState /\ settled' \in RMState /\ RMInv'
  <2>1. PICK d : d = [c EXCEPT !.phase = "pending", !.members = N]
    OBVIOUS
  <2>2. d \in RMState /\ d.phase = "pending" /\ d.members = N
    BY <2>1 DEF RMState
  <2> QED BY <1>2, <1>3, <1>7, <2>1, <2>2 DEF OneChange
<1>8. ASSUME NEW s \in Server, RM!Add(s) \/ RM!Remove(s)
      PROVE  config' \in RMState /\ settled' \in RMState /\ RMInv'
  <2>1. CASE RM!Add(s)
    <3>1. c.members \cup {s} \in SUBSET Server /\ s \in Server \ c.members
      BY <1>1, <2>1 DEF RM!Add, RMState
    <3> QED BY <1>1, <1>7, <2>1, <3>1 DEF RM!Add
  <2>2. CASE RM!Remove(s)
    <3>1. c.members \ {s} \in SUBSET Server /\ s \in c.members
      BY <1>1, <2>2 DEF RM!Remove, RMState
    <3> QED BY <1>1, <1>7, <2>2, <3>1 DEF RM!Remove
  <2> QED BY <1>8, <2>1, <2>2
<1> QED BY <1>4, <1>5, <1>6, <1>8 DEF RM!Next

(* DecisionsOverlap, for any set of servers: through joint consensus and   *)
(* single-server changes, one after another, whoever decides during a      *)
(* change and whoever decides in the configuration committed last share a  *)
(* server.                                                                 *)
THEOREM DecisionsOverlapCorrect == RM!Spec => []DecisionsOverlap
<1> DEFINE Typed == config \in RMState /\ settled \in RMState
<1>1. RM!Init => Typed /\ RMInv
  BY TopicsAssumption DEF RM!Init, RMState, RMInv, OneChange
<1>2. Typed /\ RMInv /\ [RM!Next]_(RM!vars) => Typed' /\ RMInv'
  <2> SUFFICES ASSUME Typed, RMInv, [RM!Next]_(RM!vars) PROVE Typed' /\ RMInv'
    OBVIOUS
  <2>1. CASE UNCHANGED RM!vars
    BY <2>1 DEF RM!vars, RMInv, OneChange
  <2> QED BY <2>1, RMStep
<1>3. Typed /\ RMInv => DecisionsOverlap
  <2> SUFFICES ASSUME Typed, RMInv, NEW V \in SUBSET Server, NEW W \in SUBSET Server,
                      RM!Agree(settled, V), RM!Agree(config, W)
               PROVE  V \cap W # {}
    BY DEF DecisionsOverlap, RM!DecisionsOverlap
  <2> QED BY ChangeOverlaps DEF RMInv
<1> QED BY <1>1, <1>2, <1>3, PTL DEF RM!Spec
-----------------------------------------------------------------------------
(* abd *)

Tags == [ts : Nat, writer : Nat]
Copies == [ABD!Replica -> Tags]

(* The instance counts the members of a set as this module does. *)
LEMMA ABDCounts == ASSUME NEW S PROVE ABD!Cardinality(S) = Cardinality(S)
BY DEF ABD!Cardinality, Cardinality

(* Tags are totally ordered. *)
LEMMA TagOrder ==
    ASSUME NEW s \in Tags, NEW t \in Tags, NEW u \in Tags
    PROVE  /\ ~ABD!Above(s, s)
           /\ ABD!Above(s, t) => ~ABD!Above(t, s)
           /\ ~ABD!Above(s, t) /\ ~ABD!Above(t, u) => ~ABD!Above(s, u)
BY DEF Tags, ABD!Above

(* The highest tag of some replicas exists, and the highest of two.        *)
LEMMA TagMax ==
    ASSUME NEW f \in Copies, NEW A \in SUBSET ABD!Replica, NEW z \in Tags
    PROVE  \E t \in {f[r] : r \in A} \cup {z} :
              \A s \in {f[r] : r \in A} \cup {z} : ~ABD!Above(s, t)
<1> DEFINE Part(k) == {f[r] : r \in {q \in A : q <= k}} \cup {z}
           Has(k) == \E t \in Part(k) : \A s \in Part(k) : ~ABD!Above(s, t)
           K == {k \in 0 .. Replicas : Has(k)}
<1>1. Replicas \in Nat /\ A \subseteq 1 .. Replicas /\ \A r \in A : f[r] \in Tags
  BY TopicsAssumption DEF ABD!Replica, Copies
<1>2. 0 \in K
  <2>1. Part(0) = {z}
    BY <1>1
  <2> QED BY <1>1, <2>1, TagOrder
<1>3. PICK k \in K : \A j \in K : j <= k
  <2>1. K \in SUBSET Nat /\ \A j \in K : j <= Replicas
    BY <1>1
  <2> HIDE DEF K
  <2> QED BY <1>1, <1>2, <2>1, NatMax
<1>4. CASE k = Replicas
  <2>1. Part(k) = {f[r] : r \in A} \cup {z}
    BY <1>1, <1>4
  <2> QED BY <2>1
<1>5. CASE k # Replicas
  <2>1. k \in Nat /\ k + 1 \in 0 .. Replicas
    BY <1>1, <1>5
  <2>2. PICK t \in Part(k) : \A s \in Part(k) : ~ABD!Above(s, t)
    OBVIOUS
  <2>3. t \in Tags /\ \A s \in Part(k) : s \in Tags
    BY <1>1
  <2>33. \A q \in A : q <= k + 1 <=> (q <= k \/ q = k + 1)
    <3>1. \A q \in A : q \in Nat
      BY <1>1
    <3> QED BY <2>1, <3>1
  <2>34. ~(k + 1 <= k)
    BY <2>1
  <2>4. CASE k + 1 \notin A
    <3>1. Part(k + 1) = Part(k)
      <4>1. {q \in A : q <= k + 1} = {q \in A : q <= k}
        BY <2>33, <2>4
      <4> QED BY <4>1
    <3>2. Has(k + 1)
      BY <2>2, <3>1
    <3> QED BY <1>3, <2>1, <3>2
  <2>5. CASE k + 1 \in A
    <3>1. PICK n \in Tags : n = f[k + 1]
      BY <1>1, <2>5
    <3>2. Part(k + 1) = Part(k) \cup {n}
      <4>1. {q \in A : q <= k + 1} = {q \in A : q <= k} \cup {k + 1}
        BY <2>33, <2>5
      <4> QED BY <3>1, <4>1
    <3>3. CASE ABD!Above(n, t)
      <4>1. \A s \in Part(k + 1) : ~ABD!Above(s, n)
        BY <2>2, <2>3, <3>2, <3>3, TagOrder
      <4>2. Has(k + 1)
        BY <3>2, <4>1
      <4> QED BY <1>3, <2>1, <4>2
    <3>4. CASE ~ABD!Above(n, t)
      <4>1. \A s \in Part(k + 1) : ~ABD!Above(s, t)
        BY <2>2, <3>2, <3>4
      <4>2. Has(k + 1)
        BY <3>2, <4>1
      <4> QED BY <1>3, <2>1, <4>2
    <3> QED BY <3>3, <3>4
  <2> QED BY <2>4, <2>5
<1> QED BY <1>4, <1>5

(* The higher of two tags is one of them and below neither. *)
LEMMA HighestOfTwo ==
    ASSUME NEW s \in Tags, NEW t \in Tags, NEW h, h = ABD!Highest({s, t})
    PROVE  h \in {s, t} /\ ~ABD!Above(s, h) /\ ~ABD!Above(t, h)
<1>1. \E x \in {s, t} : \A y \in {s, t} : ~ABD!Above(y, x)
  BY TagOrder
<1> QED BY <1>1 DEF ABD!Highest

(* A phase that finds enough replicas up asks a quorum of them.            *)
LEMMA AskedIsQuorum ==
    ASSUME NEW L \in SUBSET ABD!Replica, Cardinality(L) >= ABD!Quorum,
           NEW A, A = {r \in L : Cardinality({q \in L : q < r}) < ABD!Quorum}
    PROVE  A \in SUBSET ABD!Replica /\ Cardinality(A) >= ABD!Quorum
<1>0. Replicas \in Nat
  BY TopicsAssumption
<1>1. Replicas \in Nat /\ L \subseteq 1 .. Replicas /\ IsFiniteSet(1 .. Replicas)
  BY <1>0, FS_Interval DEF ABD!Replica
<1>2. ABD!Quorum \in Nat
  BY <1>1 DEF ABD!Quorum
<1>3. IsFiniteSet(L) /\ Cardinality(L) \in Nat
  BY <1>1, FS_Subset, FS_CardinalityType
<1>4. IsFiniteSet(A) /\ Cardinality(A) \in Nat
  BY <1>3, FS_Subset, FS_CardinalityType
<1>5. ASSUME NEW r \in L PROVE Cardinality({q \in L : q < r}) \in Nat
  BY <1>3, FS_Subset, FS_CardinalityType
<1>6. CASE A = L
  BY <1>1, <1>6
<1>7. CASE A # L
  <2> DEFINE Full == {r \in L : ~(Cardinality({q \in L : q < r}) < ABD!Quorum)}
  <2>1. Full # {} /\ Full \in SUBSET Nat
    <3>1. PICK r \in L : r \notin A
      BY <1>7
    <3>2. L \subseteq Nat
      BY <1>1
    <3> QED BY <3>1, <3>2
  <2>2. PICK r \in Full : \A x \in Full : r <= x
    <3> HIDE DEF Full
    <3> QED BY <2>1, NatMin
  <2>3. PICK B : B = {q \in L : q < r}
    OBVIOUS
  <2>4. B \subseteq A
    <3> SUFFICES ASSUME NEW q \in L, q < r PROVE q \in A
      BY <2>3
    <3>1. q \notin Full
      BY <1>1, <2>2
    <3> QED BY <3>1
  <2>5. Cardinality(B) >= ABD!Quorum /\ Cardinality(B) \in Nat
    BY <1>2, <1>5, <2>2, <2>3
  <2>6. Cardinality(B) <= Cardinality(A)
    BY <1>4, <2>4, FS_Subset
  <2>7. Cardinality(A) >= ABD!Quorum
    BY <1>2, <1>4, <2>5, <2>6
  <2> QED BY <2>7
<1> QED BY <1>6, <1>7

(* Two quorums of replicas share one. *)
LEMMA ReplicaQuorumsMeet ==
    ASSUME NEW P \in SUBSET ABD!Replica, NEW Q \in SUBSET ABD!Replica,
           Cardinality(P) >= ABD!Quorum, Cardinality(Q) >= ABD!Quorum
    PROVE  \E r \in ABD!Replica : r \in P /\ r \in Q
<1>1. PICK n \in Nat : n = Replicas
  BY TopicsAssumption
<1>2. IsFiniteSet(1 .. n) /\ Cardinality(1 .. n) = n
  BY FS_Interval
<1>3. IsFiniteSet(P) /\ IsFiniteSet(Q) /\ P \subseteq 1 .. n /\ Q \subseteq 1 .. n
  BY <1>1, <1>2, FS_Subset DEF ABD!Replica
<1>4. PICK a \in Nat : a = Cardinality(P)
  BY <1>3, FS_CardinalityType
<1>5. PICK b \in Nat : b = Cardinality(Q)
  BY <1>3, FS_CardinalityType
<1>6. a >= (n \div 2) + 1 /\ b >= (n \div 2) + 1
  BY <1>1, <1>4, <1>5 DEF ABD!Quorum
<1>7. Cardinality(P) + Cardinality(Q) > Cardinality(1 .. n)
  BY <1>2, <1>4, <1>5, <1>6
<1>8. P \cap Q # {}
  BY <1>2, <1>3, <1>7, FS_MajoritiesIntersect
<1> QED BY <1>8

ABDState == [tag : Copies, up : [ABD!Replica -> BOOLEAN]]
ABDType == reg \in ABDState /\ told \in Tags

(* A quorum of the copies f holds tag t or a later one. *)
Covered(f, t) ==
    \E Q \in SUBSET ABD!Replica :
        Cardinality(Q) >= ABD!Quorum /\ \A r \in Q : ~ABD!Above(t, f[r])

(* What clients were told of is on a quorum. *)
ABDInv == Covered(reg.tag, told)

(* The first phase asks a quorum and finds the highest tag in it. *)
LEMMA ABDPhaseOne ==
    ASSUME ABDType, ABD!Reachable
    PROVE  /\ ABD!Asked \in SUBSET ABD!Replica /\ Cardinality(ABD!Asked) >= ABD!Quorum
           /\ ABD!ReadQuorum \in Tags
           /\ \A r \in ABD!Asked : ~ABD!Above(reg.tag[r], ABD!ReadQuorum)
<1>1. ABD!Live \in SUBSET ABD!Replica /\ Cardinality(ABD!Live) >= ABD!Quorum
  BY ABDCounts DEF ABD!Live, ABD!Reachable
<1>2. ABD!Asked = {r \in ABD!Live : Cardinality({q \in ABD!Live : q < r}) < ABD!Quorum}
  BY ABDCounts DEF ABD!Asked
<1>3. ABD!Asked \in SUBSET ABD!Replica /\ Cardinality(ABD!Asked) >= ABD!Quorum
  BY <1>1, <1>2, AskedIsQuorum
<1>4. PICK f \in Copies : f = reg.tag
  BY DEF ABDType, ABDState
<1>5. PICK A \in SUBSET ABD!Replica : A = ABD!Asked
  BY <1>3
<1>6. ABD!Zero \in Tags
  BY DEF ABD!Zero, ABD!Tag, Tags
<1>7. PICK S : S = {f[r] : r \in A} \cup {ABD!Zero}
  OBVIOUS
<1>8. \E t \in S : \A s \in S : ~ABD!Above(s, t)
  <2>1. PICK z \in Tags : z = ABD!Zero
    BY <1>6
  <2>2. \E t \in {f[r] : r \in A} \cup {z} :
           \A s \in {f[r] : r \in A} \cup {z} : ~ABD!Above(s, t)
    BY TagMax
  <2>3. S = {f[r] : r \in A} \cup {z}
    BY <1>7, <2>1
  <2> QED BY <2>2, <2>3
<1>9. ABD!ReadQuorum = ABD!Highest(S)
  BY <1>4, <1>5, <1>7 DEF ABD!ReadQuorum
<1>10. ABD!Highest(S) \in S /\ \A s \in S : ~ABD!Above(s, ABD!Highest(S))
  BY <1>8 DEF ABD!Highest
<1>11. S \subseteq Tags
  BY <1>6, <1>7 DEF Copies
<1> QED BY <1>3, <1>4, <1>5, <1>7, <1>9, <1>10, <1>11

(* The quorum that holds what was told and the quorum that is asked meet.  *)
LEMMA ABDNoStale == ABDType /\ ABDInv => ABD!ReadsNeverGoBack
<1> SUFFICES ASSUME ABDType, ABDInv, ABD!Reachable PROVE ~ABD!Above(told, ABD!ReadQuorum)
  BY DEF ABD!ReadsNeverGoBack
<1>1. PICK Q \in SUBSET ABD!Replica :
         Cardinality(Q) >= ABD!Quorum /\ \A r \in Q : ~ABD!Above(told, reg.tag[r])
  BY DEF ABDInv, Covered
<1>2. PICK r \in ABD!Replica : r \in Q /\ r \in ABD!Asked
  BY <1>1, ABDPhaseOne, ReplicaQuorumsMeet
<1>3. reg.tag[r] \in Tags /\ told \in Tags /\ ABD!ReadQuorum \in Tags
  BY ABDPhaseOne DEF ABDType, ABDState, Copies
<1>4. ~ABD!Above(told, reg.tag[r]) /\ ~ABD!Above(reg.tag[r], ABD!ReadQuorum)
  BY <1>1, <1>2, ABDPhaseOne
<1> QED BY <1>3, <1>4, TagOrder

(* Phase two puts a tag that is not below the one found on all it asks.    *)
LEMMA ABDPhaseTwo ==
    ASSUME ABDType, ABDInv, ABD!Reachable, NEW t \in Tags, ~ABD!Above(ABD!ReadQuorum, t),
           reg' = [reg EXCEPT !.tag = ABD!WriteQuorum(t)], ABD!Tell(t)
    PROVE  ABDType' /\ ABDInv'
<1>1. PICK A \in SUBSET ABD!Replica : A = ABD!Asked /\ Cardinality(A) >= ABD!Quorum
  BY ABDPhaseOne
<1>2. PICK f \in Copies : f = reg.tag
  BY DEF ABDType, ABDState
<1>3. PICK g : g = [r \in ABD!Replica |-> IF r \in A /\ ABD!Above(t, f[r]) THEN t ELSE f[r]]
  OBVIOUS
<1>4. /\ g \in Copies
      /\ \A r \in ABD!Replica : /\ f[r] \in Tags
                                /\ g[r] = (IF r \in A /\ ABD!Above(t, f[r]) THEN t ELSE f[r])
  BY <1>3 DEF Copies
<1>5. reg' = [reg EXCEPT !.tag = g]
  BY <1>1, <1>2, <1>3 DEF ABD!WriteQuorum
<1>6. reg' \in ABDState /\ reg'.tag = g
  BY <1>4, <1>5 DEF ABDType, ABDState
<1>7. told \in Tags /\ ABD!ReadQuorum \in Tags /\ ~ABD!Above(told, ABD!ReadQuorum)
  BY ABDPhaseOne, ABDNoStale DEF ABDType, ABD!ReadsNeverGoBack
<1>8. ~ABD!Above(told, t)
  BY <1>7, TagOrder
<1>9. PICK u : u = ABD!Highest({told, t})
  OBVIOUS
<1>10. told' = u /\ u \in {told, t}
  BY <1>7, <1>9, HighestOfTwo DEF ABD!Tell
<1>11. ~ABD!Above(u, t) /\ u \in Tags
  BY <1>7, <1>8, <1>10, TagOrder
<1>12. ASSUME NEW r \in A PROVE ~ABD!Above(u, g[r])
  <2>1. ~ABD!Above(t, g[r]) /\ g[r] \in Tags
    BY <1>4, TagOrder
  <2> QED BY <1>11, <2>1, TagOrder
<1>13. Covered(g, u)
  BY <1>1, <1>12 DEF Covered
<1> QED BY <1>6, <1>10, <1>11, <1>13 DEF ABDType, ABDInv

(* A tag that only grows covers what it covered. *)
LEMMA ABDGrows ==
    ASSUME NEW f \in Copies, NEW g \in Copies, NEW t \in Tags, Covered(f, t),
           \A r \in ABD!Replica : ~ABD!Above(f[r], g[r])
    PROVE  Covered(g, t)
<1>1. PICK Q \in SUBSET ABD!Replica :
         Cardinality(Q) >= ABD!Quorum /\ \A r \in Q : ~ABD!Above(t, f[r])
  BY DEF Covered
<1>2. ASSUME NEW r \in Q PROVE ~ABD!Above(t, g[r])
  <2>1. f[r] \in Tags /\ g[r] \in Tags /\ ~ABD!Above(f[r], g[r]) /\ ~ABD!Above(t, f[r])
    BY <1>1 DEF Copies
  <2> QED BY <2>1, TagOrder
<1> QED BY <1>1, <1>2 DEF Covered

(* Every operation on the register keeps the invariant. *)
LEMMA ABDStep ==
    ASSUME ABDType, ABDInv, ABD!Next
    PROVE  ABDType' /\ ABDInv'
<1>1. ASSUME NEW w \in Writer, ABD!Reachable, NEW t, t = ABD!Tag(ABD!ReadQuorum.ts + 1, w)
      PROVE  t \in Tags /\ ~ABD!Above(ABD!ReadQuorum, t)
  <2>1. ABD!ReadQuorum.ts \in Nat /\ w \in Nat
    BY <1>1, ABDPhaseOne, TopicsAssumption DEF Tags
  <2>2. t.ts = ABD!ReadQuorum.ts + 1 /\ t.writer = w /\ t \in Tags
    BY <1>1, <2>1 DEF ABD!Tag, Tags
  <2> QED BY <2>1, <2>2 DEF ABD!Above
<1>2. ASSUME NEW w \in Writer, ABD!Write(w) PROVE ABDType' /\ ABDInv'
  <2>1. PICK t : t = ABD!Tag(ABD!ReadQuorum.ts + 1, w)
    OBVIOUS
  <2>2. ABD!Reachable /\ reg' = [reg EXCEPT !.tag = ABD!WriteQuorum(t)] /\ ABD!Tell(t)
    BY <1>2, <2>1 DEF ABD!Write
  <2>3. t \in Tags /\ ~ABD!Above(ABD!ReadQuorum, t)
    BY <1>1, <2>1, <2>2
  <2> QED BY <2>2, <2>3, ABDPhaseTwo
<1>3. CASE ABD!Read
  <2>1. PICK t : t = ABD!ReadQuorum
    OBVIOUS
  <2>2. ABD!Reachable /\ reg' = [reg EXCEPT !.tag = ABD!WriteQuorum(t)] /\ ABD!Tell(t)
    BY <1>3, <2>1 DEF ABD!Read, ABD!WriteBack
  <2>3. t \in Tags /\ ~ABD!Above(ABD!ReadQuorum, t)
    BY <2>1, <2>2, ABDPhaseOne, TagOrder
  <2> QED BY <2>2, <2>3, ABDPhaseTwo
<1>4. PICK f \in Copies : f = reg.tag
  BY DEF ABDType, ABDState
<1>5. told \in Tags
  BY DEF ABDType
<1>6. ASSUME NEW w \in Writer, NEW r \in ABD!Replica, ABD!Poke(w, r)
      PROVE  ABDType' /\ ABDInv'
  <2>1. PICK t : t = ABD!Tag(ABD!ReadQuorum.ts + 1, w)
    OBVIOUS
  <2>2. /\ ABD!Reachable /\ reg' = [reg EXCEPT !.tag[r] = t] /\ told' = told
        /\ ABD!Above(t, f[r])
    BY <1>4, <1>6, <2>1 DEF ABD!Poke
  <2>3. t \in Tags
    BY <1>1, <2>1, <2>2
  <2>4. PICK g : g = [f EXCEPT ![r] = t]
    OBVIOUS
  <2>5. reg' = [reg EXCEPT !.tag = g]
    BY <1>4, <2>2, <2>4
  <2>6. g \in Copies /\ \A q \in ABD!Replica : g[q] = IF q = r THEN t ELSE f[q]
    BY <2>3, <2>4 DEF Copies
  <2>7. reg' \in ABDState /\ reg'.tag = g
    BY <2>5, <2>6 DEF ABDType, ABDState
  <2>8. ASSUME NEW q \in ABD!Replica PROVE ~ABD!Above(f[q], g[q])
    <3>1. f[q] \in Tags
      BY DEF Copies
    <3> QED BY <2>2, <2>3, <2>6, <3>1, TagOrder
  <2>9. Covered(g, told)
    BY <1>4, <1>5, <2>6, <2>8, ABDGrows DEF ABDInv
  <2> QED BY <1>5, <2>2, <2>7, <2>9 DEF ABDType, ABDInv
<1>7. ASSUME NEW r \in ABD!Replica, ABD!Switch(r) PROVE ABDType' /\ ABDInv'
  <2>1. PICK up : up = [reg.up EXCEPT ![r] = ~@]
    OBVIOUS
  <2>2. reg' = [reg EXCEPT !.up = up] /\ told' = told
    BY <1>7, <2>1 DEF ABD!Switch
  <2>3. up \in [ABD!Replica -> BOOLEAN]
    BY <2>1, Zenon DEF ABDType, ABDState
  <2>4. reg' \in ABDState /\ reg'.tag = reg.tag
    BY <2>2, <2>3 DEF ABDType, ABDState
  <2> QED BY <1>5, <2>2, <2>4 DEF ABDType, ABDInv
<1> QED BY <1>2, <1>3, <1>6, <1>7 DEF ABD!Next

(* ReadsNeverGoBack, for any number of replicas and writers: no read finds *)
(* less than a client was told of, whichever majorities are up and         *)
(* wherever writers died.                                                  *)
THEOREM ReadsNeverGoBackCorrect == ABD!Spec => []ReadsNeverGoBack
<1>1. ABD!Init => ABDType /\ ABDInv
  <2> SUFFICES ASSUME ABD!Init PROVE ABDType /\ ABDInv
    OBVIOUS
  <2>1. PICK n \in Nat : n = Replicas /\ n # 0
    BY TopicsAssumption
  <2>2. ABD!Zero \in Tags
    BY DEF ABD!Zero, ABD!Tag, Tags
  <2>3. /\ reg \in ABDState /\ told = ABD!Zero
        /\ \A r \in ABD!Replica : reg.tag[r] = ABD!Zero
    BY <2>2 DEF ABD!Init, ABDState, Copies
  <2>4. Cardinality(ABD!Replica) = n
    BY <2>1, FS_Interval DEF ABD!Replica
  <2>5. Cardinality(ABD!Replica) >= ABD!Quorum
    <3>1. n >= (n \div 2) + 1
      BY <2>1
    <3> QED BY <2>1, <2>4, <3>1 DEF ABD!Quorum
  <2>6. \A r \in ABD!Replica : ~ABD!Above(told, reg.tag[r])
    BY <2>2, <2>3, TagOrder
  <2> QED BY <2>2, <2>3, <2>5, <2>6 DEF ABDType, ABDInv, Covered
<1>2. ABDType /\ ABDInv /\ [ABD!Next]_(ABD!vars) => ABDType' /\ ABDInv'
  <2> SUFFICES ASSUME ABDType, ABDInv, [ABD!Next]_(ABD!vars) PROVE ABDType' /\ ABDInv'
    OBVIOUS
  <2>1. CASE UNCHANGED ABD!vars
    BY <2>1 DEF ABD!vars, ABDType, ABDInv
  <2> QED BY <2>1, ABDStep
<1>3. ABDType /\ ABDInv => ReadsNeverGoBack
  BY ABDNoStale DEF ReadsNeverGoBack
<1> QED BY <1>1, <1>2, <1>3, PTL DEF ABD!Spec
-----------------------------------------------------------------------------
(* anti-entropy *)

Versions == 0 .. MaxVersion
Stores == [AE!Replica -> Versions]
Hint == [owner : AE!Replica, standin : AE!Replica, version : Versions]
AEState == [store : Stores, down : SUBSET AE!Replica, hints : SUBSET Hint]
AEType == ae \in AEState /\ written \in SUBSET Versions

(* Each replica has each version of W or a later one, or a hint for it.    *)
Reached(s, H, W) ==
    \A v \in W, r \in AE!Replica :
        \/ s[r] >= v
        \/ \E h \in H : h.owner = r /\ h.version = v /\ s[h.standin] >= v

Later(s, t) == \A r \in AE!Replica : s[r] <= t[r]

(* Stores that only move on, and hints that go only to an owner that has   *)
(* what they carry.                                                        *)
LEMMA AEGrows ==
    ASSUME NEW s \in Stores, NEW t \in Stores, NEW H \in SUBSET Hint, NEW G,
           NEW W \in SUBSET Versions, Reached(s, H, W), Later(s, t),
           \A h \in H : h \in G \/ t[h.owner] >= h.version
    PROVE  Reached(t, G, W)
<1> SUFFICES ASSUME NEW v \in W, NEW r \in AE!Replica
             PROVE  \/ t[r] >= v
                    \/ \E h \in G : h.owner = r /\ h.version = v /\ t[h.standin] >= v
  BY DEF Reached
<1>1. v \in Nat /\ \A q \in AE!Replica : s[q] \in Nat /\ t[q] \in Nat /\ s[q] <= t[q]
  BY TopicsAssumption DEF Versions, Stores, Later
<1>2. CASE s[r] >= v
  BY <1>1, <1>2
<1>3. ASSUME NEW h \in H, h.owner = r, h.version = v, s[h.standin] >= v
      PROVE  \/ t[r] >= v
             \/ \E g \in G : g.owner = r /\ g.version = v /\ t[g.standin] >= v
  <2>1. h.standin \in AE!Replica
    BY DEF Hint
  <2>2. t[h.standin] >= v
    BY <1>1, <1>3, <2>1
  <2> QED BY <1>3, <2>2
<1> QED BY <1>2, <1>3 DEF Reached

(* A merge stores a version where an older one was, and nothing else.      *)
LEMMA AEMerges ==
    ASSUME NEW s \in Stores, NEW S \in SUBSET AE!Replica, NEW v \in Versions,
           NEW t, t = AE!Merge(s, S, v)
    PROVE  t \in Stores /\ Later(s, t) /\ \A r \in S : t[r] >= v
<1>1. \A r \in AE!Replica : s[r] \in Versions /\ s[r] \in Nat
  BY TopicsAssumption DEF Stores, Versions
<1>2. v \in Nat
  BY TopicsAssumption DEF Versions
<1>3. t = [r \in AE!Replica |-> IF r \in S /\ s[r] < v THEN v ELSE s[r]]
  BY DEF AE!Merge
<1>4. t \in Stores
  BY <1>1, <1>3 DEF Stores
<1>5. \A r \in AE!Replica : t[r] = IF r \in S /\ s[r] < v THEN v ELSE s[r]
  BY <1>3
<1>6. Later(s, t)
  BY <1>1, <1>2, <1>5 DEF Later
<1>7. \A r \in S : t[r] >= v
  BY <1>1, <1>2, <1>5
<1> QED BY <1>4, <1>6, <1>7

(* The first and the newest of some replicas exist. *)
LEMMA AEChoices ==
    ASSUME NEW s \in Stores, NEW L \in SUBSET AE!Replica, L # {}
    PROVE  /\ \E r \in L : \A q \in L : r <= q
           /\ \E r \in L : \A q \in L : s[q] <= s[r]
<1>1. L \in SUBSET Nat
  BY TopicsAssumption DEF AE!Replica
<1>2. \E r \in L : \A q \in L : r <= q
  BY <1>1, NatMin
<1>3. PICK S : S = {s[r] : r \in L}
  OBVIOUS
<1>4. S \in SUBSET Nat /\ S # {} /\ \A x \in S : x <= MaxVersion
  BY <1>3, TopicsAssumption DEF Stores, Versions
<1>5. PICK x \in S : \A y \in S : y <= x
  BY <1>4, NatMax, TopicsAssumption
<1> QED BY <1>2, <1>3, <1>5

(* The last of the versions that are due at a replica exists. *)
LEMMA AELast ==
    ASSUME NEW D \in SUBSET Versions, D # {}, NEW m, m = CHOOSE v \in D : \A u \in D : u <= v
    PROVE  m \in D /\ \A u \in D : u <= m
<1>1. D \in SUBSET Nat /\ \A x \in D : x <= MaxVersion
  BY TopicsAssumption DEF Versions
<1>2. \E v \in D : \A u \in D : u <= v
  BY <1>1, NatMax, TopicsAssumption
<1> QED BY <1>2

AEInv == Reached(ae.store, ae.hints, written)

(* Every step of anti-entropy keeps the invariant. *)
LEMMA AEStep ==
    ASSUME AEType, AEInv, AE!Next
    PROVE  AEType' /\ AEInv'
<1>1. PICK s \in Stores, H \in SUBSET Hint, D \in SUBSET AE!Replica :
         s = ae.store /\ H = ae.hints /\ D = ae.down
  BY DEF AEType, AEState
<1>2. PICK W \in SUBSET Versions : W = written
  BY DEF AEType
<1>3. Reached(s, H, W)
  BY <1>1, <1>2 DEF AEInv
<1>4. ASSUME NEW t \in Stores, Later(s, t), ae' = [ae EXCEPT !.store = t], written' = W
      PROVE  AEType' /\ AEInv'
  <2>1. ae' \in AEState /\ ae'.store = t /\ ae'.hints = H
    BY <1>1, <1>4 DEF AEType, AEState
  <2>2. Reached(t, H, W)
    BY <1>3, <1>4, AEGrows
  <2> QED BY <1>4, <2>1, <2>2 DEF AEType, AEInv
<1>5. PICK L \in SUBSET AE!Replica : L = AE!Live /\ L = AE!Replica \ D
  BY <1>1 DEF AE!Live
<1>6. CASE AE!Read
  <2>1. L # {} /\ written' = W
    BY <1>2, <1>5, <1>6 DEF AE!Read
  <2>2. PICK b : b = CHOOSE r \in L : \A q \in L : s[q] <= s[r]
    OBVIOUS
  <2>3. b \in L
    BY <2>1, <2>2, AEChoices
  <2>4. PICK v \in Versions : v = s[b]
    BY <2>3 DEF Stores
  <2>5. PICK t : t = AE!Merge(s, L, v)
    OBVIOUS
  <2>6. ae' = [ae EXCEPT !.store = t]
    BY <1>1, <1>5, <1>6, <2>2, <2>4, <2>5 DEF AE!Read
  <2> QED BY <1>4, <2>1, <2>5, <2>6, AEMerges
<1>7. ASSUME NEW a \in AE!Replica, NEW b \in AE!Replica, AE!Sync(a, b)
      PROVE  AEType' /\ AEInv'
  <2>1. PICK t : t = AE!Merge(s, {a}, s[b])
    OBVIOUS
  <2>2. s[a] \in Versions /\ s[b] \in Versions
    BY DEF Stores
  <2>3. t \in Stores /\ Later(s, t)
    BY <2>1, <2>2, AEMerges
  <2>4. PICK u : u = AE!Merge(t, {b}, s[a])
    OBVIOUS
  <2>5. u \in Stores /\ Later(t, u)
    BY <2>2, <2>3, <2>4, AEMerges
  <2>6. Later(s, u)
    <3>1. \A r \in AE!Replica : s[r] \in Nat /\ t[r] \in Nat /\ u[r] \in Nat
      BY <2>3, <2>5, TopicsAssumption DEF Stores, Versions
    <3> QED BY <2>3, <2>5, <3>1 DEF Later
  <2>7. ae' = [ae EXCEPT !.store = u] /\ written' = W
    BY <1>1, <1>2, <1>7, <2>1, <2>4 DEF AE!Sync
  <2> QED BY <1>4, <2>5, <2>6, <2>7
<1>8. ASSUME NEW r \in AE!Replica, AE!DownOrUp(r) PROVE AEType' /\ AEInv'
  <2>1. PICK E \in SUBSET AE!Replica : E = IF r \in D THEN D \ {r} ELSE D \cup {r}
    OBVIOUS
  <2>2. ae' = [ae EXCEPT !.down = E] /\ written' = W
    BY <1>1, <1>2, <1>8, <2>1 DEF AE!DownOrUp
  <2>3. ae' \in AEState /\ ae'.store = s /\ ae'.hints = H
    BY <1>1, <2>2 DEF AEType, AEState
  <2> QED BY <1>3, <2>2, <2>3 DEF AEType, AEInv
<1>9. CASE AE!Handoff
  <2>1. PICK G : G = AE!Kept
    OBVIOUS
  <2>2. G \in SUBSET H /\ \A h \in H : h \in G \/ AE!Deliverable(h)
    BY <1>1, <2>1 DEF AE!Kept
  <2> DEFINE due(r) == {h.version : h \in {g \in H : AE!Deliverable(g) /\ g.owner = r}}
             last(r) == CHOOSE v \in due(r) \cup {s[r]} : \A u \in due(r) \cup {s[r]} : u <= v
  <2>3. PICK t : t = [r \in AE!Replica |-> last(r)]
    OBVIOUS
  <2>4. ae' = [ae EXCEPT !.hints = G, !.store = t] /\ written' = W
    BY <1>1, <1>2, <1>9, <2>1, <2>3 DEF AE!Handoff
  <2>5. ASSUME NEW r \in AE!Replica
        PROVE  last(r) \in Versions /\ \A u \in due(r) \cup {s[r]} : u <= last(r)
    <3>0. s[r] \in Versions /\ \A h \in H : h.version \in Versions
      BY DEF Hint, Stores
    <3>1. PICK X \in SUBSET Versions : X = due(r) \cup {s[r]} /\ X # {}
      <4>1. due(r) \cup {s[r]} \in SUBSET Versions
        BY <3>0
      <4> QED BY <4>1
    <3>2. last(r) = CHOOSE v \in X : \A u \in X : u <= v
      BY <3>1
    <3> HIDE DEF last, due
    <3> QED BY <3>1, <3>2, AELast
  <2>6. ASSUME NEW r \in AE!Replica
        PROVE  t[r] \in Versions /\ s[r] <= t[r] /\ \A u \in due(r) : u <= t[r]
    BY <2>3, <2>5
  <2>7. t \in Stores /\ Later(s, t)
    BY <2>3, <2>6 DEF Stores, Later
  <2>8. ASSUME NEW h \in H, h \notin G PROVE t[h.owner] >= h.version
    <3>1. h.owner \in AE!Replica /\ h.version \in Nat /\ h.version \in due(h.owner)
      BY <2>2, <2>8, TopicsAssumption DEF Hint, Versions
    <3>2. t[h.owner] \in Nat
      BY <2>6, <3>1, TopicsAssumption DEF Versions
    <3>3. h.version <= t[h.owner]
      BY <2>6, <3>1
    <3> QED BY <3>1, <3>2, <3>3
  <2>9. Reached(t, G, W)
    BY <1>3, <2>7, <2>8, AEGrows
  <2>10. ae' \in AEState /\ ae'.store = t /\ ae'.hints = G
    BY <1>1, <2>2, <2>4, <2>7 DEF AEType, AEState
  <2> QED BY <2>4, <2>9, <2>10 DEF AEType, AEInv
<1>10. ASSUME NEW v \in 1 .. MaxVersion, AE!Write(v) PROVE AEType' /\ AEInv'
  <2>1. L # {} /\ written' = W \cup {v} /\ v \in Versions
    BY <1>2, <1>5, <1>10, TopicsAssumption DEF AE!Write, Versions
  <2>2. PICK first : first = CHOOSE r \in L : \A q \in L : r <= q
    OBVIOUS
  <2>3. first \in L
    BY <2>1, <2>2, AEChoices
  <2>4. PICK t : t = AE!Merge(s, L, v)
    OBVIOUS
  <2>5. t \in Stores /\ Later(s, t) /\ \A r \in L : t[r] >= v
    BY <2>1, <2>4, AEMerges
  <2>6. PICK G : G = H \cup {[owner |-> o, standin |-> first, version |-> v] : o \in D}
    OBVIOUS
  <2>7. ae' = [ae EXCEPT !.store = t, !.hints = G]
    <3>1. first = CHOOSE r \in AE!Live : \A q \in AE!Live : r <= q
      BY <1>5, <2>2
    <3>2. t = AE!Merge(ae.store, AE!Live, v)
      BY <1>1, <1>5, <2>4
    <3>3. G = ae.hints \cup {[owner |-> o, standin |-> first, version |-> v] : o \in ae.down}
      BY <1>1, <2>6
    <3> QED BY <1>10, <3>1, <3>2, <3>3 DEF AE!Write
  <2>8. G \in SUBSET Hint
    BY <2>1, <2>3, <2>6 DEF Hint
  <2>9. ae' \in AEState /\ ae'.store = t /\ ae'.hints = G
    BY <1>1, <2>5, <2>7, <2>8 DEF AEType, AEState
  <2>10. Reached(t, G, W)
    BY <1>3, <2>5, <2>6, AEGrows
  <2>11. Reached(t, G, {v})
    <3> SUFFICES ASSUME NEW r \in AE!Replica, r \notin L
                 PROVE  \E h \in G : h.owner = r /\ h.version = v /\ t[h.standin] >= v
      BY <2>5 DEF Reached
    <3>1. PICK h : h = [owner |-> r, standin |-> first, version |-> v]
      OBVIOUS
    <3>2. h \in G
      BY <1>5, <2>6, <3>1
    <3>3. h.owner = r /\ h.version = v /\ t[h.standin] >= v
      BY <2>3, <2>5, <3>1
    <3> QED BY <3>2, <3>3
  <2>12. Reached(t, G, W \cup {v})
    BY <2>10, <2>11 DEF Reached
  <2> QED BY <2>1, <2>9, <2>12 DEF AEType, AEInv
<1> QED BY <1>6, <1>7, <1>8, <1>9, <1>10 DEF AE!Next

(* After a handoff a hint that is left for a replica that is up waits for  *)
(* a stand-in that is down.                                                *)
LEMMA HandoffLeaves ==
    ASSUME AEType, AE!Handoff
    PROVE  \A h \in ae'.hints : h.owner \in AE!Live => h.standin \in ae.down
<1>1. ae'.hints = AE!Kept
  BY DEF AEType, AEState, AE!Handoff
<1> QED BY <1>1 DEF AE!Kept, AE!Deliverable, AE!Live

(* HandoffCatchesUp, for any number of replicas and versions: a replica    *)
(* that is up has caught up after a handoff, but for what a stand-in that  *)
(* is down holds for it.                                                   *)
THEOREM HandoffCatchesUpCorrect == AE!Spec => HandoffCatchesUp
<1> DEFINE CatchesUp ==
             AE!Handoff =>
                \A v \in written, r \in AE!Live :
                   \/ ae'.store[r] >= v
                   \/ \E h \in ae'.hints : /\ h.owner = r /\ h.version = v
                                           /\ h.standin \in ae.down
                                           /\ ae'.store[h.standin] >= v
<1>1. AE!Init => AEType /\ AEInv
  <2> SUFFICES ASSUME AE!Init PROVE AEType /\ AEInv
    OBVIOUS
  <2>1. 0 \in Versions
    BY TopicsAssumption DEF Versions
  <2>2. AEType
    BY <2>1 DEF AE!Init, AEType, AEState, Stores
  <2> QED BY <2>2 DEF AE!Init, AEInv, Reached
<1>2. AEType /\ AEInv /\ [AE!Next]_(AE!vars) => AEType' /\ AEInv'
  <2> SUFFICES ASSUME AEType, AEInv, [AE!Next]_(AE!vars) PROVE AEType' /\ AEInv'
    OBVIOUS
  <2>1. CASE UNCHANGED AE!vars
    BY <2>1 DEF AE!vars, AEType, AEInv
  <2> QED BY <2>1, AEStep
<1>3. AEType /\ AEInv /\ [AE!Next]_(AE!vars) => [CatchesUp]_(AE!vars)
  <2> SUFFICES ASSUME AEType, AEInv, AE!Handoff, NEW v \in written, NEW r \in AE!Live
               PROVE  \/ ae'.store[r] >= v
                      \/ \E h \in ae'.hints : /\ h.owner = r /\ h.version = v
                                              /\ h.standin \in ae.down
                                              /\ ae'.store[h.standin] >= v
    OBVIOUS
  <2>1. AEInv' /\ written' = written /\ r \in AE!Replica
    BY AEStep DEF AE!Next, AE!Handoff, AE!Live
  <2>2. \/ ae'.store[r] >= v
        \/ \E h \in ae'.hints : h.owner = r /\ h.version = v /\ ae'.store[h.standin] >= v
    BY <2>1 DEF AEInv, Reached
  <2> QED BY <2>2, HandoffLeaves
<1> QED BY <1>1, <1>2, <1>3, PTL DEF AE!Spec, HandoffCatchesUp, AE!HandoffCatchesUp
-----------------------------------------------------------------------------
(* multi-paxos *)

MPSlot == [value : Value \cup {MP!NoValue}, ballot : Nat, accepted_by : SUBSET Acceptor,
           chosen : BOOLEAN]
MPSlots == [MP!Slot -> MPSlot]
MPState == [promised : [Acceptor -> Nat], ballot : Nat, leader : BOOLEAN,
            ever_leader : BOOLEAN, slots : MPSlots]

(* What was applied is chosen, and is the value of its slot. *)
Stands(s, h) ==
    \A i \in DOMAIN h : i \in MP!Slot /\ s[i].chosen /\ s[i].value = h[i]

(* Every prepare and every preemption reaches all acceptors, so they have  *)
(* promised the same ballot, and a leader knows it.                        *)
Together(p) == \A a, b \in Acceptor : p[a] = p[b]
Leads(p, l, b) == l => \A a \in Acceptor : p[a] <= b

MPInv ==
    /\ mp \in MPState
    /\ Stands(mp.slots, applied)
    /\ Together(mp.promised)
    /\ Leads(mp.promised, mp.leader, mp.ballot)

(* The instance counts the members of a set as this module does. *)
LEMMA MPCounts == ASSUME NEW S PROVE MP!Cardinality(S) = Cardinality(S)
BY DEF MP!Cardinality, Cardinality

(* Every slot up to the progress of a log is chosen. *)
LEMMA ProgressIsChosen ==
    ASSUME NEW s \in MPSlots
    PROVE  /\ MP!Progress(s) \in 0 .. MaxSlot
           /\ \A i \in 1 .. MP!Progress(s) : s[i].chosen
<1> DEFINE Prefix(k) == \A i \in 1 .. k : s[i].chosen
           K == {k \in 0 .. MaxSlot : Prefix(k)}
<1>1. MaxSlot \in Nat
  BY TopicsAssumption
<1>2. 0 \in K /\ K \in SUBSET Nat /\ \A j \in K : j <= MaxSlot
  BY <1>1
<1>3. PICK k \in K : \A j \in K : j <= k
  <2> HIDE DEF K
  <2> QED BY <1>1, <1>2, NatMax
<1>4. k < MaxSlot => ~s[k + 1].chosen
  <2> SUFFICES ASSUME k < MaxSlot, s[k + 1].chosen PROVE FALSE
    OBVIOUS
  <2>1. k + 1 \in 0 .. MaxSlot /\ k \in Nat
    BY <1>1
  <2>2. Prefix(k + 1)
    <3> SUFFICES ASSUME NEW i \in 1 .. (k + 1) PROVE s[i].chosen
      OBVIOUS
    <3>1. i = k + 1 \/ i \in 1 .. k
      BY <2>1
    <3> QED BY <3>1
  <2> QED BY <1>3, <2>1, <2>2
<1>5. k \in 0 .. MaxSlot /\ \A i \in 1 .. k : s[i].chosen
  OBVIOUS
<1>6. \E j \in 0 .. MaxSlot : /\ \A i \in 1 .. j : s[i].chosen
                              /\ j < MaxSlot => ~s[j + 1].chosen
  BY <1>4, <1>5
<1> QED BY <1>6 DEF MP!Progress

(* A prepare or a preemption by ballot n. *)
LEMMA MPRaises ==
    ASSUME NEW p \in [Acceptor -> Nat], Together(p), NEW n \in Nat,
           NEW q, q = [a \in Acceptor |-> IF n > p[a] THEN n ELSE p[a]]
    PROVE  /\ q \in [Acceptor -> Nat] /\ Together(q)
           /\ \A a \in Acceptor : q[a] = p[a] \/ q[a] = n
           /\ Cardinality({a \in Acceptor : n > p[a]}) >= MP!Majority
                 => \A a \in Acceptor : q[a] <= n
           /\ ~(Cardinality({a \in Acceptor : n > p[a]}) >= MP!Majority) => q = p
<1>1. q \in [Acceptor -> Nat] /\ \A a \in Acceptor : q[a] = IF n > p[a] THEN n ELSE p[a]
  OBVIOUS
<1>2. Together(q)
  BY <1>1 DEF Together
<1>3. \A a \in Acceptor : p[a] \in Nat
  OBVIOUS
<1>4. PICK c \in Nat : c = Cardinality(Acceptor)
  BY PaxosAssumption, FS_CardinalityType
<1>5. MP!Majority = (c \div 2) + 1
  BY <1>4, MPCounts DEF MP!Majority
<1>6. CASE \A a \in Acceptor : n > p[a]
  <2>1. {a \in Acceptor : n > p[a]} = Acceptor /\ \A a \in Acceptor : q[a] = n
    BY <1>1, <1>6
  <2>2. c = 0 => Acceptor = {}
    BY <1>4, PaxosAssumption, FS_EmptySet
  <2>3. c # 0 => c >= (c \div 2) + 1
    OBVIOUS
  <2>4. ~(c >= (c \div 2) + 1) => q = p
    BY <1>1, <2>2, <2>3
  <2> QED BY <1>1, <1>2, <1>4, <1>5, <2>1, <2>4
<1>7. CASE ~ \A a \in Acceptor : n > p[a]
  <2>1. \A a \in Acceptor : ~(n > p[a])
    BY <1>7 DEF Together
  <2>2. {a \in Acceptor : n > p[a]} = {} /\ q = p
    BY <1>1, <2>1
  <2>3. Cardinality({}) = 0 /\ ~(0 >= (c \div 2) + 1)
    BY FS_EmptySet
  <2>4. ~(Cardinality({a \in Acceptor : n > p[a]}) >= MP!Majority)
    BY <1>5, <2>2, <2>3
  <2> QED BY <1>1, <1>2, <2>2, <2>4
<1> QED BY <1>6, <1>7

(* Preparing a ballot and being preempted by one keep the invariant. *)
LEMMA MPBallotStep ==
    ASSUME MPInv, NEW n \in MP!Ballot, MP!Prepare(n) \/ MP!Preempt(n)
    PROVE  MPInv'
<1>1. PICK m \in MPState : m = mp
  BY DEF MPInv
<1>2. PICK p \in [Acceptor -> Nat] : p = m.promised
  BY DEF MPState
<1>3. PICK b \in Nat : b = m.ballot
  BY DEF MPState
<1>4. Stands(m.slots, applied) /\ Together(p) /\ Leads(p, m.leader, b) /\ n \in Nat
  BY <1>1, <1>2, <1>3, TopicsAssumption DEF MPInv, MP!Ballot
<1>5. PICK q : q = [a \in Acceptor |-> IF n > p[a] THEN n ELSE p[a]]
  OBVIOUS
<1>6. /\ q \in [Acceptor -> Nat] /\ Together(q)
      /\ \A a \in Acceptor : q[a] = p[a] \/ q[a] = n
      /\ Cardinality({a \in Acceptor : n > p[a]}) >= MP!Majority
            => \A a \in Acceptor : q[a] <= n
      /\ ~(Cardinality({a \in Acceptor : n > p[a]}) >= MP!Majority) => q = p
  BY <1>4, <1>5, MPRaises
<1>7. MP!Raised(n) = q
  BY <1>1, <1>2, <1>5 DEF MP!Raised
<1>8. CASE MP!Prepare(n)
  <2>1. PICK won \in BOOLEAN :
           won <=> (Cardinality({a \in Acceptor : n > p[a]}) >= MP!Majority)
    OBVIOUS
  <2>2. PICK l \in BOOLEAN, e \in BOOLEAN :
           l = (m.leader \/ won) /\ e = (m.ever_leader \/ won)
    OBVIOUS
  <2>3. PICK c \in Nat : c = IF won THEN n ELSE b
    BY <1>4
  <2>4. mp' = [m EXCEPT !.promised = q, !.leader = l, !.ever_leader = e, !.ballot = c]
        /\ applied' = applied
    BY <1>1, <1>2, <1>3, <1>7, <1>8, <2>1, <2>2, <2>3, MPCounts DEF MP!Prepare
  <2>5. /\ mp' \in MPState /\ mp'.promised = q /\ mp'.leader = l /\ mp'.ballot = c
        /\ mp'.slots = m.slots
    BY <1>6, <2>4 DEF MPState
  <2>6. Leads(q, l, c)
    <3>1. CASE won
      BY <1>6, <2>1, <2>3, <3>1 DEF Leads
    <3>2. CASE ~won
      BY <1>4, <1>6, <2>1, <2>2, <2>3, <3>2 DEF Leads
    <3> QED BY <3>1, <3>2
  <2> QED BY <1>4, <1>6, <2>4, <2>5, <2>6 DEF MPInv
<1>9. CASE MP!Preempt(n)
  <2>1. PICK l \in BOOLEAN : l = (m.leader /\ n <= b)
    OBVIOUS
  <2>2. mp' = [m EXCEPT !.promised = q, !.leader = l] /\ applied' = applied
    BY <1>1, <1>3, <1>7, <1>9, <2>1 DEF MP!Preempt
  <2>3. /\ mp' \in MPState /\ mp'.promised = q /\ mp'.leader = l /\ mp'.ballot = b
        /\ mp'.slots = m.slots
    BY <1>3, <1>6, <2>2 DEF MPState
  <2>4. Leads(q, l, b)
    BY <1>4, <1>6, <2>1 DEF Leads
  <2> QED BY <1>4, <1>6, <2>2, <2>3, <2>4 DEF MPInv
<1> QED BY <1>8, <1>9

(* A step that changes slot i only. *)
LEMMA MPSlotChange ==
    ASSUME MPInv, NEW i \in MP!Slot, NEW x \in MPSlot, NEW h,
           mp' = [mp EXCEPT !.slots[i] = x], applied' = h,
           NEW s, s = [mp.slots EXCEPT ![i] = x], s \in MPSlots => Stands(s, h)
    PROVE  MPInv'
<1>1. s \in MPSlots
  BY DEF MPInv, MPState, MPSlots
<1>2. mp' = [mp EXCEPT !.slots = s]
  OBVIOUS
<1>3. /\ mp' \in MPState /\ mp'.promised = mp.promised /\ mp'.leader = mp.leader
      /\ mp'.ballot = mp.ballot /\ mp'.slots = s
  BY <1>1, <1>2 DEF MPInv, MPState
<1> QED BY <1>1, <1>3 DEF MPInv

(* A proposal keeps the invariant. *)
LEMMA MPProposeStep ==
    ASSUME MPInv, NEW i \in MP!Slot, NEW v \in Value, MP!Propose(i, v)
    PROVE  MPInv'
<1>1. mp.slots \in MPSlots /\ mp.ballot \in Nat /\ Stands(mp.slots, applied)
      /\ mp.slots[i] \in MPSlot
  BY DEF MPInv, MPState, MPSlots
<1>2. PICK by \in SUBSET Acceptor :
         by = IF mp.slots[i].ballot # mp.ballot THEN {} ELSE mp.slots[i].accepted_by
  BY <1>1 DEF MPSlot
<1>3. PICK x : x = [value |-> v, ballot |-> mp.ballot, chosen |-> FALSE, accepted_by |-> by]
  OBVIOUS
<1>4. x \in MPSlot
  BY <1>1, <1>2, <1>3 DEF MPSlot
<1>5. mp' = [mp EXCEPT !.slots[i] = x] /\ applied' = applied /\ ~mp.slots[i].chosen
  BY <1>2, <1>3 DEF MP!Propose
<1>6. PICK s : s = [mp.slots EXCEPT ![i] = x]
  OBVIOUS
<1>7. Stands(s, applied)
  <2> SUFFICES ASSUME NEW j \in DOMAIN applied
               PROVE  j \in MP!Slot /\ s[j].chosen /\ s[j].value = applied[j]
    BY DEF Stands
  <2>1. j \in MP!Slot /\ mp.slots[j].chosen /\ mp.slots[j].value = applied[j]
    BY <1>1 DEF Stands
  <2>2. s[j] = mp.slots[j]
    BY <1>1, <1>5, <1>6, <2>1 DEF MPSlots
  <2> QED BY <2>1, <2>2
<1> QED BY <1>4, <1>5, <1>6, <1>7, MPSlotChange

(* An acceptance that is counted keeps the invariant. *)
LEMMA MPAcceptedStep ==
    ASSUME MPInv, NEW i \in MP!Slot, NEW a \in Acceptor, MP!Accepted(i, a)
    PROVE  MPInv'
<1>1. PICK o \in MPSlot : o = mp.slots[i]
  BY DEF MPInv, MPState, MPSlots
<1>2. PICK by \in SUBSET Acceptor : by = o.accepted_by \cup {a}
  BY DEF MPSlot
<1>3. PICK c \in BOOLEAN : c = (o.chosen \/ MP!Cardinality(by) >= MP!Majority)
  OBVIOUS
<1>4. PICK x : x = [o EXCEPT !.accepted_by = by, !.chosen = c]
  OBVIOUS
<1>5. x \in MPSlot /\ x.value = o.value /\ x.chosen = c
  BY <1>4 DEF MPSlot
<1>6. mp' = [mp EXCEPT !.slots[i] = x]
  <2>1. mp' = [mp EXCEPT !.slots[i].accepted_by = by, !.slots[i].chosen = c]
    BY <1>1, <1>2, <1>3 DEF MP!Accepted
  <2> QED BY <1>1, <1>4, <2>1 DEF MPInv, MPState, MPSlots
<1>7. PICK s : s = [mp.slots EXCEPT ![i] = x]
  OBVIOUS
<1>8. s \in MPSlots /\ \A j \in MP!Slot : s[j] = IF j = i THEN x ELSE mp.slots[j]
  BY <1>5, <1>7 DEF MPInv, MPState, MPSlots
<1>9. mp'.slots = s
  BY <1>6, <1>7 DEF MPInv, MPState
<1>10. PICK k : k = MP!Progress(s)
  OBVIOUS
<1>11. k \in 0 .. MaxSlot /\ \A j \in 1 .. k : s[j].chosen /\ j \in MP!Slot
  BY <1>8, <1>10, ProgressIsChosen, TopicsAssumption DEF MP!Slot
<1>12. PICK h : h = [j \in 1 .. k |-> IF j \in DOMAIN applied THEN applied[j] ELSE s[j].value]
  OBVIOUS
<1>13. applied' = h
  <2>1. MP!Executed(mp'.slots)
    BY DEF MP!Accepted
  <2>2. MP!Executed(s)
    BY <1>9, <2>1
  <2>3. applied' = [j \in 1 .. MP!Progress(s) |->
                      IF j \in DOMAIN applied THEN applied[j] ELSE s[j].value]
    BY <2>2 DEF MP!Executed
  <2> QED BY <1>10, <1>12, <2>3
<1>14. Stands(s, h)
  <2> SUFFICES ASSUME NEW j \in 1 .. k PROVE s[j].value = h[j]
    BY <1>11, <1>12 DEF Stands
  <2>1. CASE j \in DOMAIN applied
    <3>1. h[j] = applied[j] /\ mp.slots[j].value = applied[j] /\ j \in MP!Slot
      BY <1>12, <2>1 DEF MPInv, Stands
    <3>2. s[j].value = mp.slots[j].value
      BY <1>1, <1>5, <1>8, <3>1
    <3> QED BY <3>1, <3>2
  <2>2. CASE j \notin DOMAIN applied
    BY <1>12, <2>2
  <2> QED BY <2>1, <2>2
<1> QED BY <1>5, <1>6, <1>7, <1>13, <1>14, MPSlotChange

(* AppliedStands, for any acceptors, values, ballots and slots: what a     *)
(* replica applied stays chosen with the same value, and a leader's ballot *)
(* is one that no acceptor has passed.                                     *)
THEOREM AppliedStandsCorrect == MP!Spec => []AppliedStands
<1>1. MP!Init => MPInv
  <2> SUFFICES ASSUME MP!Init PROVE MPInv
    OBVIOUS
  <2>1. mp \in MPState
    BY DEF MP!Init, MPState, MPSlots, MPSlot
  <2>2. DOMAIN applied = {}
    BY DEF MP!Init
  <2>3. ~mp.leader /\ \A a \in Acceptor : mp.promised[a] = 0
    BY DEF MP!Init
  <2> QED BY <2>1, <2>2, <2>3 DEF MPInv, Stands, Together, Leads
<1>2. MPInv /\ [MP!Next]_(MP!vars) => MPInv'
  <2> SUFFICES ASSUME MPInv, [MP!Next]_(MP!vars) PROVE MPInv'
    OBVIOUS
  <2>1. CASE UNCHANGED MP!vars
    BY <2>1 DEF MP!vars, MPInv
  <2> QED BY <2>1, MPBallotStep, MPProposeStep, MPAcceptedStep DEF MP!Next
<1>3. MPInv => AppliedStands
  BY DEF MPInv, Stands, Leads, AppliedStands, MP!AppliedStands
<1> QED BY <1>1, <1>2, <1>3, PTL DEF MP!Spec
-----------------------------------------------------------------------------
(* outbox and dedup *)

Writes == [kind : {"none", "naive", "transactional"},
           event : OutboxEvent \cup {MSG!NoEvent}, prev : OutboxEvent \cup {MSG!NoEvent}]
Boxes == [row : OutboxEvent \cup {MSG!NoEvent}, outbox : Seq(OutboxEvent),
          sent : SUBSET OutboxEvent, bus : SUBSET OutboxEvent, lost : SUBSET OutboxEvent,
          rewound : SUBSET OutboxEvent, down : BOOLEAN, last : Writes]

Records(s) == {s[i] : i \in DOMAIN s}
Distinct(s) == \A i, j \in DOMAIN s : s[i] = s[j] => i = j

(* Where the event e of a committed write is. *)
Somewhere(b, e) ==
    e # MSG!NoEvent => e \in Records(b.outbox) \/ e \in b.bus \/ e \in b.lost

(* What the tables say of each other: an event that may still be rewound   *)
(* has had no effect and can be taken out, and the row before it is        *)
(* accounted for.                                                          *)
BoxInv(b, f) ==
    /\ Somewhere(b, b.row)
    /\ b.sent \subseteq b.bus
    /\ Distinct(b.outbox)
    /\ \A e \in b.rewound : e \notin b.bus /\ e \notin Records(b.outbox)
    /\ \A e \in OutboxEvent : f[e] > 0 => e \in b.bus
    /\ b.last.kind # "none" => /\ b.last.event \in OutboxEvent
                               /\ Somewhere(b, b.last.prev)
                               /\ b.last.prev # MSG!NoEvent => b.last.prev # b.last.event
    /\ b.last.kind = "naive" =>
           b.last.event \notin Records(b.outbox) /\ ~(f[b.last.event] > 0)
    /\ b.last.kind = "transactional" /\ b.last.event \notin b.bus =>
           Len(b.outbox) > 0 /\ b.outbox[Len(b.outbox)] = b.last.event

(* Until an id is forgotten, what had an effect is remembered, once.       *)
ConsumerInv(c, f) ==
    /\ c.forgotten \in BOOLEAN
    /\ ~c.forgotten =>
           /\ c.ids \in Seq(OutboxEvent)
           /\ \A e \in OutboxEvent : ~(f[e] > 1) /\ (f[e] > 0 => e \in Records(c.ids))

MSGInv ==
    /\ box \in Boxes /\ effects \in [OutboxEvent -> Nat]
    /\ BoxInv(box, effects)
    /\ ConsumerInv(consumer, effects)

(* A part of a sequence. *)
LEMMA PartOf ==
    ASSUME NEW S, NEW s \in Seq(S), NEW m \in Nat, m > 0, NEW n \in Nat, n <= Len(s),
           m <= n + 1, NEW t, t = SubSeq(s, m, n)
    PROVE  /\ t \in Seq(S) /\ Len(t) = n - m + 1 /\ DOMAIN t = 1 .. n - m + 1
           /\ \A j \in 1 .. n - m + 1 : t[j] = s[m + j - 1]
<1>1. \A i \in m .. n : s[i] \in S
  <2>1. m .. n \subseteq 1 .. Len(s)
    BY LenProperties
  <2> QED BY <2>1, ElementOfSeq
<1>2. m \in Int /\ n \in Int
  OBVIOUS
<1>3. /\ t \in Seq(S) /\ Len(t) = (IF m <= n THEN n - m + 1 ELSE 0)
      /\ \A i \in 1 .. n - m + 1 : t[i] = s[m + i - 1]
  BY <1>1, <1>2, SubSeqProperties
<1>4. Len(t) = n - m + 1
  BY <1>3
<1>5. DOMAIN t = 1 .. Len(t)
  BY <1>3, LenProperties
<1> QED BY <1>3, <1>4, <1>5

(* A sequence with one more element. *)
LEMMA OneMore ==
    ASSUME NEW S, NEW s \in Seq(S), NEW x \in S, NEW n \in Nat, n = Len(s), NEW t, t = Append(s, x)
    PROVE  t \in Seq(S) /\ Len(t) = n + 1 /\ (\A j \in 1 .. n : t[j] = s[j]) /\ t[n + 1] = x
<1>1. /\ Append(s, x) \in Seq(S) /\ Len(Append(s, x)) = Len(s) + 1
      /\ \A j \in 1 .. Len(s) : Append(s, x)[j] = s[j]
      /\ Append(s, x)[Len(s) + 1] = x
  BY AppendProperties
<1> QED BY <1>1

(* Two sequences put together. *)
LEMMA JoinOf ==
    ASSUME NEW u \in Seq(Nat), NEW v \in Seq(Nat), NEW m, m = u \o v
    PROVE  /\ m \in Seq(Nat) /\ Len(m) = Len(u) + Len(v)
           /\ \A j \in 1 .. Len(u) + Len(v) :
                m[j] = IF j <= Len(u) THEN u[j] ELSE v[j - Len(u)]
<1>1. u \o v \in Seq(Nat) /\ Len(u \o v) = Len(u) + Len(v)
  BY ConcatProperties
<1>2. \A j \in 1 .. Len(u) + Len(v) :
         (u \o v)[j] = IF j <= Len(u) THEN u[j] ELSE v[j - Len(u)]
  BY ConcatProperties
<1> QED BY <1>1, <1>2

(* A record is appended to the outbox. *)
LEMMA RecordsAppend ==
    ASSUME NEW s \in Seq(OutboxEvent), NEW e \in OutboxEvent, NEW t, t = Append(s, e)
    PROVE  /\ t \in Seq(OutboxEvent) /\ Records(t) = Records(s) \cup {e}
           /\ Len(t) > 0 /\ t[Len(t)] = e
           /\ Distinct(s) /\ e \notin Records(s) => Distinct(t)
<1>1. /\ t \in Seq(OutboxEvent) /\ Len(t) = Len(s) + 1 /\ Len(s) \in Nat
      /\ DOMAIN s = 1 .. Len(s) /\ DOMAIN t = 1 .. Len(s) + 1
      /\ t[Len(s) + 1] = e /\ \A i \in 1 .. Len(s) : t[i] = s[i]
  OBVIOUS
<1>2. DOMAIN t = DOMAIN s \cup {Len(s) + 1}
  BY <1>1
<1>3. Records(t) = Records(s) \cup {e}
  BY <1>1, <1>2 DEF Records
<1>4. ASSUME Distinct(s), e \notin Records(s) PROVE Distinct(t)
  BY <1>1, <1>2, <1>4 DEF Distinct, Records
<1> QED BY <1>1, <1>3, <1>4

Without(s, i) == SubSeq(s, 1, i - 1) \o SubSeq(s, i + 1, Len(s))

(* A record is taken out. *)
LEMMA RecordsRemove ==
    ASSUME NEW s \in Seq(OutboxEvent), Distinct(s), NEW i \in 1 .. Len(s),
           NEW t, t = Without(s, i)
    PROVE  /\ t \in Seq(OutboxEvent) /\ Records(t) = Records(s) \ {s[i]} /\ Distinct(t)
           /\ i # Len(s) => Len(t) > 0 /\ t[Len(t)] = s[Len(s)]
<1>1. PICK n \in Nat : n = Len(s) /\ DOMAIN s = 1 .. n
  OBVIOUS
<1>2. PICK u, v : u = SubSeq(s, 1, i - 1) /\ v = SubSeq(s, i + 1, n)
  OBVIOUS
<1>3. i \in 1 .. n /\ i \in Nat
  BY <1>1
<1>4. u \in Seq(OutboxEvent) /\ Len(u) = i - 1 /\ \A j \in 1 .. i - 1 : u[j] = s[j]
  <2>1. i - 1 \in Nat /\ i - 1 <= n /\ 1 <= (i - 1) + 1 /\ (i - 1) - 1 + 1 = i - 1
    BY <1>3
  <2>2. PICK m \in Nat : m = i - 1
    BY <2>1
  <2>3. /\ u \in Seq(OutboxEvent) /\ Len(u) = m - 1 + 1
        /\ \A j \in 1 .. m - 1 + 1 : u[j] = s[1 + j - 1]
    BY <1>1, <1>2, <2>1, <2>2, PartOf
  <2> QED BY <2>1, <2>2, <2>3
<1>5. v \in Seq(OutboxEvent) /\ Len(v) = n - i /\ \A j \in 1 .. n - i : v[j] = s[i + j]
  <2>1. PICK m \in Nat : m = i + 1
    BY <1>3
  <2>2. m <= n + 1 /\ m > 0 /\ n - m + 1 = n - i
    BY <1>3, <2>1
  <2>3. /\ v \in Seq(OutboxEvent) /\ Len(v) = n - m + 1
        /\ \A j \in 1 .. n - m + 1 : v[j] = s[m + j - 1]
    <3>1. v = SubSeq(s, m, n) /\ n <= Len(s)
      BY <1>1, <1>2, <2>1
    <3> QED BY <2>2, <3>1, PartOf
  <2>4. \A j \in 1 .. n - i : m + j - 1 = i + j
    BY <1>3, <2>1
  <2> QED BY <2>2, <2>3, <2>4
<1>6. t = u \o v /\ t \in Seq(OutboxEvent) /\ Len(t) = n - 1
  <2>1. t = u \o v
    BY <1>1, <1>2 DEF Without
  <2>2. t \in Seq(OutboxEvent) /\ Len(t) = Len(u) + Len(v)
    BY <1>4, <1>5, <2>1, ConcatProperties
  <2>3. Len(t) = (i - 1) + (n - i)
    BY <1>4, <1>5, <2>2
  <2>4. (i - 1) + (n - i) = n - 1
    BY <1>3
  <2> QED BY <2>1, <2>2, <2>3, <2>4
<1>7. ASSUME NEW j \in 1 .. n - 1 PROVE t[j] = s[IF j < i THEN j ELSE j + 1]
  <2>0. t[j] = IF j <= i - 1 THEN u[j] ELSE v[j - (i - 1)]
    <3>1. j \in 1 .. Len(u) + Len(v)
      BY <1>3, <1>4, <1>5
    <3>2. t[j] = IF j <= Len(u) THEN u[j] ELSE v[j - Len(u)]
      <4>1. \A k \in 1 .. Len(u) + Len(v) :
               (u \o v)[k] = IF k <= Len(u) THEN u[k] ELSE v[k - Len(u)]
        BY <1>4, <1>5, ConcatProperties
      <4>2. (u \o v)[j] = IF j <= Len(u) THEN u[j] ELSE v[j - Len(u)]
        BY <3>1, <4>1
      <4> QED BY <1>6, <4>2
    <3> QED BY <1>4, <3>2
  <2>1. CASE j < i
    <3>1. j <= i - 1 /\ j \in 1 .. i - 1
      BY <1>3, <2>1
    <3> QED BY <1>4, <2>0, <2>1, <3>1
  <2>2. CASE ~(j < i)
    <3>1. j \in Nat /\ j >= i /\ j <= n - 1
      BY <1>3, <2>2
    <3>2. PICK d \in Nat : d = j - (i - 1)
      BY <1>3, <3>1
    <3>3. d \in 1 .. n - i /\ i + d = j + 1
      <4>1. i \in Int /\ n \in Int /\ j \in Int
        BY <1>3, <3>1
      <4>2. d >= 1 /\ d <= n - i /\ i + d = j + 1
        BY <3>1, <3>2, <4>1
      <4> QED BY <4>1, <4>2
    <3>4. t[j] = v[d]
      <4>1. ~(j <= i - 1)
        BY <1>3, <3>1
      <4> QED BY <2>0, <3>2, <4>1
    <3> QED BY <1>5, <2>2, <3>3, <3>4
  <2> QED BY <2>1, <2>2
<1>8. DOMAIN t = 1 .. n - 1
  BY <1>6, LenProperties
<1>9. Distinct(t)
  <2> SUFFICES ASSUME NEW j \in 1 .. n - 1, NEW k \in 1 .. n - 1, t[j] = t[k] PROVE j = k
    BY <1>8 DEF Distinct
  <2>1. PICK a \in 1 .. n, b \in 1 .. n :
           a = (IF j < i THEN j ELSE j + 1) /\ b = (IF k < i THEN k ELSE k + 1)
    BY <1>3
  <2>2. s[a] = s[b]
    BY <1>7, <2>1
  <2>3. a = b
    BY <1>1, <2>2 DEF Distinct
  <2> QED BY <1>3, <2>1, <2>3
<1>10. Records(t) \subseteq Records(s) \ {s[i]}
  <2> SUFFICES ASSUME NEW j \in 1 .. n - 1 PROVE t[j] \in Records(s) /\ t[j] # s[i]
    BY <1>8 DEF Records
  <2>1. PICK a \in 1 .. n : a = (IF j < i THEN j ELSE j + 1) /\ a # i
    BY <1>3
  <2>2. t[j] = s[a]
    BY <1>7, <2>1
  <2> QED BY <1>1, <2>1, <2>2 DEF Distinct, Records
<1>11. Records(s) \ {s[i]} \subseteq Records(t)
  <2> SUFFICES ASSUME NEW a \in 1 .. n, a # i PROVE s[a] \in Records(t)
    BY <1>1 DEF Records
  <2>1. PICK j \in 1 .. n - 1 : a = (IF j < i THEN j ELSE j + 1)
    <3>1. CASE a < i
      <4>1. a \in 1 .. n - 1
        BY <1>3, <3>1
      <4> QED BY <3>1, <4>1
    <3>2. CASE ~(a < i)
      <4>1. a - 1 \in 1 .. n - 1 /\ ~(a - 1 < i) /\ a = (a - 1) + 1
        BY <1>3, <3>2
      <4> QED BY <4>1
    <3> QED BY <3>1, <3>2
  <2>2. t[j] = s[a]
    BY <1>7, <2>1
  <2> QED BY <1>8, <2>2 DEF Records
<1>12. i # n => Len(t) > 0 /\ t[Len(t)] = s[n]
  <2> SUFFICES ASSUME i # n PROVE Len(t) > 0 /\ t[Len(t)] = s[n]
    OBVIOUS
  <2>1. n - 1 \in 1 .. n - 1 /\ ~(n - 1 < i) /\ (n - 1) + 1 = n /\ n - 1 > 0
    BY <1>3
  <2>2. t[n - 1] = s[n]
    BY <1>7, <2>1
  <2> QED BY <1>6, <2>1, <2>2
<1> QED BY <1>1, <1>6, <1>9, <1>10, <1>11, <1>12

(* The last record is taken out. *)
LEMMA RecordsPop ==
    ASSUME NEW s \in Seq(OutboxEvent), Distinct(s), Len(s) > 0,
           NEW t, t = SubSeq(s, 1, Len(s) - 1)
    PROVE  t \in Seq(OutboxEvent) /\ Records(t) = Records(s) \ {s[Len(s)]} /\ Distinct(t)
<1>1. PICK n \in Nat : n = Len(s) /\ DOMAIN s = 1 .. n /\ n > 0
  OBVIOUS
<1>2. /\ t \in Seq(OutboxEvent) /\ Len(t) = n - 1 /\ DOMAIN t = 1 .. n - 1
      /\ \A j \in 1 .. n - 1 : t[j] = s[j]
  BY <1>1
<1>3. 1 .. n = (1 .. n - 1) \cup {n} /\ n \notin 1 .. n - 1
  BY <1>1
<1>4. \A j \in 1 .. n - 1 : s[j] # s[n]
  BY <1>1, <1>3 DEF Distinct
<1>5. Records(s) = Records(t) \cup {s[n]}
  BY <1>1, <1>2, <1>3 DEF Records
<1>6. s[n] \notin Records(t)
  BY <1>2, <1>4 DEF Records
<1>7. Records(t) = Records(s) \ {s[n]}
  BY <1>5, <1>6
<1> QED BY <1>1, <1>2, <1>3, <1>7 DEF Distinct

(* A transactional write keeps the outbox invariant. *)
LEMMA BoxWrites ==
    ASSUME NEW b \in Boxes, NEW f \in [OutboxEvent -> Nat], BoxInv(b, f),
           NEW e \in OutboxEvent, e \notin Records(b.outbox), e \notin b.bus,
           e \notin b.lost, e \notin b.rewound,
           NEW c, c = [b EXCEPT !.row = e, !.outbox = Append(@, e),
                         !.last = [kind |-> "transactional", event |-> e, prev |-> b.row]]
    PROVE  c \in Boxes /\ BoxInv(c, f)
<1>1. PICK t : t = Append(b.outbox, e)
  OBVIOUS
<1>2. b.outbox \in Seq(OutboxEvent) /\ Distinct(b.outbox)
  BY DEF Boxes, BoxInv
<1>3. /\ t \in Seq(OutboxEvent) /\ Records(t) = Records(b.outbox) \cup {e}
      /\ Len(t) > 0 /\ t[Len(t)] = e /\ Distinct(t)
  BY <1>1, <1>2, RecordsAppend
<1>4. PICK w : w = [kind |-> "transactional", event |-> e, prev |-> b.row]
  OBVIOUS
<1>5. w \in Writes /\ w.kind = "transactional" /\ w.event = e /\ w.prev = b.row
  BY <1>4 DEF Writes, Boxes
<1>6. c = [b EXCEPT !.row = e, !.outbox = t, !.last = w]
  BY <1>1, <1>4
<1>7. /\ c \in Boxes /\ c.row = e /\ c.outbox = t /\ c.last = w /\ c.sent = b.sent
      /\ c.bus = b.bus /\ c.lost = b.lost /\ c.rewound = b.rewound
  BY <1>3, <1>5, <1>6 DEF Boxes
<1> QED BY <1>3, <1>5, <1>7 DEF BoxInv, Somewhere

(* A naive write keeps the outbox invariant. *)
LEMMA BoxNaive ==
    ASSUME NEW b \in Boxes, NEW f \in [OutboxEvent -> Nat], BoxInv(b, f),
           NEW e \in OutboxEvent, e \notin Records(b.outbox), e \notin b.bus,
           e \notin b.lost, e \notin b.rewound,
           NEW c, c = [b EXCEPT !.row = e, !.bus = @ \cup {e},
                         !.last = [kind |-> "naive", event |-> e, prev |-> b.row]]
    PROVE  c \in Boxes /\ BoxInv(c, f)
<1>1. PICK w : w = [kind |-> "naive", event |-> e, prev |-> b.row]
  OBVIOUS
<1>2. w \in Writes /\ w.kind = "naive" /\ w.event = e /\ w.prev = b.row
  BY <1>1 DEF Writes, Boxes
<1>0. PICK B \in SUBSET OutboxEvent : B = b.bus \cup {e}
  BY DEF Boxes
<1>3. c = [b EXCEPT !.row = e, !.bus = B, !.last = w]
  BY <1>0, <1>1
<1>4. /\ c \in Boxes /\ c.row = e /\ c.outbox = b.outbox /\ c.last = w /\ c.sent = b.sent
      /\ c.bus = B /\ c.lost = b.lost /\ c.rewound = b.rewound
  BY <1>2, <1>3 DEF Boxes
<1> QED BY <1>0, <1>2, <1>4 DEF BoxInv, Somewhere

(* After any crash: nothing is noted as sent and nothing can be rewound.   *)
LEMMA BoxCrashes ==
    ASSUME NEW b \in Boxes, NEW f \in [OutboxEvent -> Nat], BoxInv(b, f), NEW c \in Boxes,
           c.last = MSG!NoWrite, c.sent = {}, Distinct(c.outbox), Somewhere(c, c.row),
           \A e \in c.rewound : e \notin c.bus /\ e \notin Records(c.outbox),
           \A e \in OutboxEvent : f[e] > 0 => e \in c.bus
    PROVE  BoxInv(c, f)
BY DEF BoxInv, MSG!NoWrite

(* A crash, at any of its three places, keeps the invariant. *)
LEMMA MSGCrashStep ==
    ASSUME MSGInv, MSG!Crash \/ MSG!CrashAfterRow \/ MSG!CrashBeforeCommit
    PROVE  MSGInv'
<1>1. PICK b \in Boxes, f \in [OutboxEvent -> Nat] :
         b = box /\ f = effects /\ BoxInv(b, f)
  BY DEF MSGInv
<1>2. consumer' = consumer /\ effects' = f
  BY <1>1 DEF MSG!Crash, MSG!CrashAfterRow, MSG!CrashBeforeCommit
<1>3. ASSUME NEW c \in Boxes, box' = c, BoxInv(c, f) PROVE MSGInv'
  BY <1>1, <1>2, <1>3 DEF MSGInv
<1>4. MSG!NoWrite \in Writes
  BY DEF MSG!NoWrite, Writes
<1>5. PICK d : d = [b EXCEPT !.down = TRUE, !.last = MSG!NoWrite, !.sent = {}]
  OBVIOUS
<1>6. MSG!Crashed = d
  BY <1>1, <1>5 DEF MSG!Crashed
<1>7. /\ d \in Boxes /\ d.row = b.row /\ d.outbox = b.outbox /\ d.last = MSG!NoWrite
      /\ d.sent = {} /\ d.bus = b.bus /\ d.lost = b.lost /\ d.rewound = b.rewound
  BY <1>4, <1>5 DEF Boxes
<1>8. CASE MSG!Crash
  <2>1. box' = d
    BY <1>6, <1>8 DEF MSG!Crash
  <2>2. BoxInv(d, f)
    BY <1>1, <1>7, BoxCrashes DEF BoxInv, Somewhere
  <2> QED BY <1>3, <1>7, <2>1, <2>2
<1>9. CASE MSG!CrashAfterRow
  <2>1. PICK e : e = b.last.event
    OBVIOUS
  <2>2. PICK c : c = [d EXCEPT !.bus = b.bus \ {e}, !.lost = b.lost \cup {e}]
    OBVIOUS
  <2>3. box' = c /\ b.last.kind = "naive"
    BY <1>1, <1>6, <1>7, <1>9, <2>1, <2>2 DEF MSG!CrashAfterRow
  <2>4. e \in OutboxEvent /\ ~(f[e] > 0)
    BY <1>1, <2>1, <2>3 DEF BoxInv
  <2>5. /\ c \in Boxes /\ c.row = b.row /\ c.outbox = b.outbox /\ c.last = MSG!NoWrite
        /\ c.sent = {} /\ c.bus = b.bus \ {e} /\ c.lost = b.lost \cup {e}
        /\ c.rewound = b.rewound
    BY <1>7, <2>2, <2>4 DEF Boxes
  <2>6. BoxInv(c, f)
    <3>1. Somewhere(c, c.row) /\ Distinct(c.outbox)
      BY <1>1, <2>5 DEF BoxInv, Somewhere
    <3>2. \A x \in c.rewound : x \notin c.bus /\ x \notin Records(c.outbox)
      BY <1>1, <2>5 DEF BoxInv
    <3>3. \A x \in OutboxEvent : f[x] > 0 => x \in c.bus
      BY <1>1, <2>4, <2>5 DEF BoxInv
    <3> QED BY <1>1, <2>5, <3>1, <3>2, <3>3, BoxCrashes
  <2> QED BY <1>3, <2>3, <2>5, <2>6
<1>10. CASE MSG!CrashBeforeCommit
  <2>1. PICK e : e = b.last.event
    OBVIOUS
  <2>2. PICK p : p = b.last.prev
    OBVIOUS
  <2>3. b.last.kind = "naive" \/ (b.last.kind = "transactional" /\ e \notin b.bus)
    BY <1>1, <1>10, <2>1 DEF MSG!CrashBeforeCommit, MSG!InFlight
  <2>4. e \in OutboxEvent /\ p \in OutboxEvent \cup {MSG!NoEvent} /\ Somewhere(b, p)
        /\ (p # MSG!NoEvent => p # e)
    BY <1>1, <2>1, <2>2, <2>3 DEF BoxInv, Boxes, Writes
  <2>5. ASSUME NEW c, NEW B \in SUBSET OutboxEvent, NEW t \in Seq(OutboxEvent),
               c = [d EXCEPT !.row = p, !.rewound = b.rewound \cup {e}, !.bus = B,
                             !.outbox = t],
               box' = c, B = b.bus \ {e}, Records(t) = Records(b.outbox) \ {e}, Distinct(t),
               ~(f[e] > 0)
        PROVE  MSGInv'
    <3>1. /\ c \in Boxes /\ c.row = p /\ c.outbox = t /\ c.last = MSG!NoWrite
          /\ c.sent = {} /\ c.bus = B /\ c.lost = b.lost /\ c.rewound = b.rewound \cup {e}
      BY <1>7, <2>4, <2>5 DEF Boxes
    <3>2. Somewhere(c, c.row)
      BY <2>4, <2>5, <3>1 DEF Somewhere
    <3>3. \A x \in c.rewound : x \notin c.bus /\ x \notin Records(c.outbox)
      BY <1>1, <2>5, <3>1 DEF BoxInv
    <3>4. \A x \in OutboxEvent : f[x] > 0 => x \in c.bus
      BY <1>1, <2>5, <3>1 DEF BoxInv
    <3>5. Distinct(c.outbox)
      BY <2>5, <3>1
    <3>6. BoxInv(c, f)
      BY <1>1, <3>1, <3>2, <3>3, <3>4, <3>5, BoxCrashes
    <3> QED BY <1>3, <2>5, <3>1, <3>6
  <2>6. CASE b.last.kind = "naive"
    <3>1. PICK B \in SUBSET OutboxEvent : B = b.bus \ {e}
      BY DEF Boxes
    <3>2. PICK t \in Seq(OutboxEvent) : t = b.outbox /\ Distinct(t)
      BY <1>1 DEF Boxes, BoxInv
    <3>3. PICK c : c = [d EXCEPT !.row = p, !.rewound = b.rewound \cup {e}, !.bus = B,
                                 !.outbox = t]
      OBVIOUS
    <3>4. box' = c
      BY <1>1, <1>6, <1>7, <1>10, <2>1, <2>2, <2>6, <3>1, <3>2, <3>3
         DEF MSG!CrashBeforeCommit
    <3>5. e \notin Records(b.outbox) /\ ~(f[e] > 0)
      BY <1>1, <2>1, <2>6 DEF BoxInv
    <3>6. Records(t) = Records(b.outbox) \ {e}
      BY <3>2, <3>5
    <3> QED BY <2>5, <3>1, <3>2, <3>3, <3>4, <3>5, <3>6
  <2>7. CASE b.last.kind = "transactional" /\ e \notin b.bus
    <3>1. PICK B \in SUBSET OutboxEvent : B = b.bus /\ B = b.bus \ {e}
      BY <2>7 DEF Boxes
    <3>2. PICK t : t = SubSeq(b.outbox, 1, Len(b.outbox) - 1)
      OBVIOUS
    <3>3. /\ b.outbox \in Seq(OutboxEvent) /\ Distinct(b.outbox)
          /\ Len(b.outbox) > 0 /\ b.outbox[Len(b.outbox)] = e
      BY <1>1, <2>1, <2>7 DEF Boxes, BoxInv
    <3>4. t \in Seq(OutboxEvent) /\ Records(t) = Records(b.outbox) \ {e} /\ Distinct(t)
      BY <3>2, <3>3, RecordsPop
    <3>5. PICK c : c = [d EXCEPT !.row = p, !.rewound = b.rewound \cup {e}, !.bus = B,
                                 !.outbox = t]
      OBVIOUS
    <3>6. box' = c
      BY <1>1, <1>6, <1>7, <1>10, <2>1, <2>2, <2>7, <3>1, <3>2, <3>5
         DEF MSG!CrashBeforeCommit
    <3>7. ~(f[e] > 0)
      BY <1>1, <2>4, <2>7 DEF BoxInv
    <3> QED BY <2>5, <3>1, <3>4, <3>5, <3>6, <3>7
  <2> QED BY <2>3, <2>6, <2>7
<1> QED BY <1>8, <1>9, <1>10

(* The steps of the relay keep the invariant. *)
LEMMA MSGRelayStep ==
    ASSUME MSGInv, MSG!Recover \/ MSG!Publish \/ \E e \in OutboxEvent : MSG!Ack(e)
    PROVE  MSGInv'
<1>1. PICK b \in Boxes, f \in [OutboxEvent -> Nat] :
         b = box /\ f = effects /\ BoxInv(b, f)
  BY DEF MSGInv
<1>2. consumer' = consumer /\ effects' = f
  BY <1>1 DEF MSG!Recover, MSG!Publish, MSG!Ack
<1>3. ASSUME NEW c \in Boxes, box' = c, BoxInv(c, f) PROVE MSGInv'
  BY <1>1, <1>2, <1>3 DEF MSGInv
<1>4. CASE MSG!Recover
  <2>1. PICK c : c = [b EXCEPT !.down = FALSE]
    OBVIOUS
  <2>2. box' = c
    BY <1>1, <1>4, <2>1 DEF MSG!Recover
  <2>3. /\ c \in Boxes /\ c.row = b.row /\ c.outbox = b.outbox /\ c.last = b.last
        /\ c.sent = b.sent /\ c.bus = b.bus /\ c.lost = b.lost /\ c.rewound = b.rewound
    BY <2>1 DEF Boxes
  <2>4. BoxInv(c, f)
    BY <1>1, <2>3 DEF BoxInv, Somewhere
  <2> QED BY <1>3, <2>2, <2>3, <2>4
<1>5. CASE MSG!Publish
  <2>1. PICK R \in SUBSET OutboxEvent : R = Records(b.outbox)
    <3>1. b.outbox \in Seq(OutboxEvent)
      BY DEF Boxes
    <3>2. \A i \in DOMAIN b.outbox : b.outbox[i] \in OutboxEvent
      BY <3>1, LenProperties, ElementOfSeq
    <3>3. Records(b.outbox) \in SUBSET OutboxEvent
      BY <3>2 DEF Records
    <3> QED BY <3>3
  <2>2. PICK c : c = [b EXCEPT !.sent = R, !.bus = b.bus \cup R]
    OBVIOUS
  <2>3. box' = c
    BY <1>1, <1>5, <2>1, <2>2 DEF MSG!Publish, MSG!InOutbox, Records
  <2>4. /\ c \in Boxes /\ c.row = b.row /\ c.outbox = b.outbox /\ c.last = b.last
        /\ c.sent = R /\ c.bus = b.bus \cup R /\ c.lost = b.lost /\ c.rewound = b.rewound
    BY <2>1, <2>2 DEF Boxes
  <2>5. BoxInv(c, f)
    BY <1>1, <2>1, <2>4 DEF BoxInv, Somewhere
  <2> QED BY <1>3, <2>3, <2>4, <2>5
<1>6. ASSUME NEW e \in OutboxEvent, MSG!Ack(e) PROVE MSGInv'
  <2>1. PICK s \in Seq(OutboxEvent) : s = b.outbox /\ Distinct(s)
    BY <1>1 DEF Boxes, BoxInv
  <2>2. PICK i \in DOMAIN s :
           /\ s[i] = e
           /\ box' = [b EXCEPT !.outbox = Without(s, i), !.sent = b.sent \ {e}]
    BY <1>1, <1>6, <2>1 DEF MSG!Ack, Without
  <2>3. PICK t : t = Without(s, i)
    OBVIOUS
  <2>4. /\ t \in Seq(OutboxEvent) /\ Records(t) = Records(s) \ {e} /\ Distinct(t)
        /\ i # Len(s) => Len(t) > 0 /\ t[Len(t)] = s[Len(s)]
    <3>1. /\ t \in Seq(OutboxEvent) /\ Records(t) = Records(s) \ {s[i]} /\ Distinct(t)
          /\ i # Len(s) => Len(t) > 0 /\ t[Len(t)] = s[Len(s)]
      <4>1. i \in 1 .. Len(s) /\ Distinct(s)
        BY <2>1, LenProperties
      <4> QED BY <2>3, <4>1, RecordsRemove
    <3> QED BY <2>2, <3>1
  <2>5. PICK c : c = [b EXCEPT !.outbox = t, !.sent = b.sent \ {e}]
    OBVIOUS
  <2>6. /\ c \in Boxes /\ c.row = b.row /\ c.outbox = t /\ c.last = b.last
        /\ c.sent = b.sent \ {e} /\ c.bus = b.bus /\ c.lost = b.lost /\ c.rewound = b.rewound
    BY <2>4, <2>5 DEF Boxes
  <2>7. e \in b.bus
    BY <1>1, <1>6 DEF MSG!Ack, MSG!Sent, BoxInv
  <2>8. Somewhere(c, c.row) /\ Distinct(c.outbox) /\ c.sent \subseteq c.bus
    BY <1>1, <2>1, <2>4, <2>6, <2>7 DEF BoxInv, Somewhere
  <2>9. c.last.kind = "transactional" /\ c.last.event \notin c.bus =>
           Len(c.outbox) > 0 /\ c.outbox[Len(c.outbox)] = c.last.event
    <3> SUFFICES ASSUME b.last.kind = "transactional", b.last.event \notin b.bus
                 PROVE  Len(t) > 0 /\ t[Len(t)] = b.last.event
      BY <2>6
    <3>1. s[Len(s)] = b.last.event
      BY <1>1, <2>1 DEF BoxInv
    <3>2. i # Len(s)
      BY <2>2, <2>7, <3>1
    <3> QED BY <2>4, <3>1, <3>2
  <2>10. c.last.kind # "none" => /\ c.last.event \in OutboxEvent
                                 /\ Somewhere(c, c.last.prev)
                                 /\ c.last.prev # MSG!NoEvent => c.last.prev # c.last.event
    BY <1>1, <2>1, <2>4, <2>6, <2>7 DEF BoxInv, Somewhere
  <2>11. BoxInv(c, f)
    BY <1>1, <2>1, <2>4, <2>6, <2>8, <2>9, <2>10 DEF BoxInv
  <2> QED BY <1>3, <2>2, <2>3, <2>5, <2>6, <2>11
<1> QED BY <1>4, <1>5, <1>6

(* A write of either kind keeps the invariant. *)
LEMMA MSGWriteStep ==
    ASSUME MSGInv, NEW e \in OutboxEvent, MSG!Write(e) \/ MSG!NaiveWrite(e)
    PROVE  MSGInv'
<1>1. PICK b \in Boxes, f \in [OutboxEvent -> Nat] :
         b = box /\ f = effects /\ BoxInv(b, f)
  BY DEF MSGInv
<1>2. consumer' = consumer /\ effects' = f
  BY <1>1 DEF MSG!Write, MSG!NaiveWrite
<1>3. ASSUME NEW c \in Boxes, box' = c, BoxInv(c, f) PROVE MSGInv'
  BY <1>1, <1>2, <1>3 DEF MSGInv
<1>4. e \notin Records(b.outbox) /\ e \notin b.bus /\ e \notin b.lost /\ e \notin b.rewound
  BY <1>1 DEF MSG!Write, MSG!NaiveWrite, MSG!Fresh, MSG!InOutbox, Records
<1>5. CASE MSG!Write(e)
  <2>1. PICK c : c = [b EXCEPT !.row = e, !.outbox = Append(@, e),
                        !.last = [kind |-> "transactional", event |-> e, prev |-> b.row]]
    OBVIOUS
  <2>2. box' = c
    BY <1>1, <1>5, <2>1 DEF MSG!Write
  <2> QED BY <1>1, <1>3, <1>4, <2>1, <2>2, BoxWrites
<1>6. CASE MSG!NaiveWrite(e)
  <2>1. PICK c : c = [b EXCEPT !.row = e, !.bus = @ \cup {e},
                        !.last = [kind |-> "naive", event |-> e, prev |-> b.row]]
    OBVIOUS
  <2>2. box' = c
    BY <1>1, <1>6, <2>1 DEF MSG!NaiveWrite
  <2> QED BY <1>1, <1>3, <1>4, <2>1, <2>2, BoxNaive
<1> QED BY <1>5, <1>6

(* A delivery to the consumer keeps the invariant. *)
LEMMA MSGConsumeStep ==
    ASSUME MSGInv, NEW e \in OutboxEvent, MSG!Deliver(e) \/ MSG!Forget(e)
    PROVE  MSGInv'
<1>1. CASE MSG!Forget(e)
  <2>1. box' = box /\ effects' = effects /\ consumer'.forgotten = TRUE
    BY <1>1 DEF MSG!Forget
  <2> QED BY <2>1 DEF MSGInv, ConsumerInv
<1>2. CASE MSG!Deliver(e)
  <2>1. PICK b \in Boxes, f \in [OutboxEvent -> Nat] :
           b = box /\ f = effects /\ BoxInv(b, f) /\ ConsumerInv(consumer, f)
    BY DEF MSGInv
  <2>2. PICK g \in [OutboxEvent -> Nat] : g = [f EXCEPT ![e] = @ + 1]
    <3>1. f[e] + 1 \in Nat
      OBVIOUS
    <3>2. [f EXCEPT ![e] = @ + 1] \in [OutboxEvent -> Nat]
      BY <3>1
    <3> QED BY <3>2
  <2>3. \A x \in OutboxEvent : g[x] = (IF x = e THEN f[e] + 1 ELSE f[x]) /\ f[x] \in Nat
    BY <2>2
  <2>4. /\ effects' = g /\ box' = b /\ e \in b.bus
        /\ ~(b.last.kind = "naive" /\ b.last.event = e)
    BY <1>2, <2>1, <2>2 DEF MSG!Deliver
  <2>5. BoxInv(b, g)
    BY <2>1, <2>3, <2>4 DEF BoxInv
  <2>6. consumer.forgotten \in BOOLEAN
    BY <2>1 DEF ConsumerInv
  <2>7. PICK ids : ids = Append(consumer.ids, e)
    OBVIOUS
  <2>8. PICK full \in BOOLEAN : full = (Window > 0 /\ Len(ids) > Window)
    OBVIOUS
  <2>9. consumer' = [ids |-> IF full THEN Tail(ids) ELSE ids,
                     forgotten |-> consumer.forgotten \/ full]
    BY <1>2, <2>7, <2>8 DEF MSG!Deliver
  <2>10. consumer'.forgotten = (consumer.forgotten \/ full)
         /\ (~full => consumer'.ids = ids)
    BY <2>9
  <2>11. ConsumerInv(consumer', g)
    <3> SUFFICES ASSUME ~consumer'.forgotten
                 PROVE  /\ consumer'.ids \in Seq(OutboxEvent)
                        /\ \A x \in OutboxEvent : ~(g[x] > 1)
                                           /\ (g[x] > 0 => x \in Records(consumer'.ids))
      BY <2>6, <2>10 DEF ConsumerInv
    <3>1. ~consumer.forgotten /\ consumer'.ids = ids
      BY <2>10
    <3>2. /\ consumer.ids \in Seq(OutboxEvent)
          /\ \A x \in OutboxEvent : ~(f[x] > 1) /\ (f[x] > 0 => x \in Records(consumer.ids))
      BY <2>1, <3>1 DEF ConsumerInv
    <3>3. ids \in Seq(OutboxEvent) /\ Records(ids) = Records(consumer.ids) \cup {e}
      BY <2>7, <3>2, RecordsAppend
    <3>4. e \notin Records(consumer.ids)
      BY <1>2 DEF MSG!Deliver, MSG!Remembered, Records
    <3>5. ~(f[e] > 0)
      BY <3>2, <3>4
    <3> QED BY <2>3, <3>1, <3>2, <3>3, <3>5
  <2> QED BY <2>1, <2>4, <2>5, <2>11 DEF MSGInv
<1> QED BY <1>1, <1>2

(* EffectivelyOnce, for any events, window and number of crashes: an       *)
(* outbox and a consumer that forgets nothing give every committed event   *)
(* one effect, through crashes, repeated publishing and rewound writes.    *)
THEOREM EffectivelyOnceCorrect == MSG!Spec => []EffectivelyOnce
<1>1. MSG!Init => MSGInv
  <2> SUFFICES ASSUME MSG!Init PROVE MSGInv
    OBVIOUS
  <2>1. MSG!NoWrite \in Writes
    BY DEF MSG!NoWrite, Writes
  <2>2. <<>> \in Seq(OutboxEvent) /\ DOMAIN <<>> = {}
    OBVIOUS
  <2>3. box \in Boxes /\ effects \in [OutboxEvent -> Nat]
    BY <2>1, <2>2 DEF MSG!Init, Boxes
  <2>4. /\ box.row = MSG!NoEvent /\ box.outbox = <<>> /\ box.sent = {} /\ box.bus = {}
        /\ box.rewound = {} /\ box.last = MSG!NoWrite
        /\ \A e \in OutboxEvent : effects[e] = 0
    BY DEF MSG!Init
  <2>5. BoxInv(box, effects)
    BY <2>2, <2>4 DEF BoxInv, Somewhere, Distinct, MSG!NoWrite
  <2>6. ConsumerInv(consumer, effects)
    BY <2>2, <2>4 DEF MSG!Init, ConsumerInv
  <2> QED BY <2>3, <2>5, <2>6 DEF MSGInv
<1>2. MSGInv /\ [MSG!Next]_(MSG!vars) => MSGInv'
  <2> SUFFICES ASSUME MSGInv, [MSG!Next]_(MSG!vars) PROVE MSGInv'
    OBVIOUS
  <2>1. CASE UNCHANGED MSG!vars
    BY <2>1 DEF MSG!vars, MSGInv
  <2> QED BY <2>1, MSGCrashStep, MSGRelayStep, MSGWriteStep, MSGConsumeStep DEF MSG!Next
<1>3. MSGInv => EffectivelyOnce
  BY DEF MSGInv, BoxInv, ConsumerInv, Somewhere, Records, EffectivelyOnce,
         MSG!EffectivelyOnce, MSG!Reaches, MSG!InOutbox
<1> QED BY <1>1, <1>2, <1>3, PTL DEF MSG!Spec
-----------------------------------------------------------------------------
(* raft-snapshot *)

SnapState == [log : Seq(Nat), snapshot_index : Nat, snapshot_term : Nat, commit_index : Nat]

(* The log g is what is left of the log w when its first n entries go.     *)
Behind(g, w, n) ==
    /\ g \in Seq(Nat) /\ n <= Len(w) /\ Len(g) = Len(w) - n
    /\ \A j \in 1 .. Len(w) - n : g[j] = w[n + j]

Leaders == LeaderLogs \cup {Committed}

(* What is known of a log w whose first c entries are committed. *)
Sound(w, c) ==
    /\ w \in Seq(Nat) /\ c <= Len(w) /\ c <= Len(Committed)
    /\ \A j \in 1 .. c : w[j] = Committed[j]
    /\ \A l \in Leaders : Matching(w, l)

RSInv ==
    /\ snap \in SnapState
    /\ Behind(snap.log, twin, snap.snapshot_index)
    /\ snap.snapshot_term = (IF snap.snapshot_index = 0 THEN 0 ELSE twin[snap.snapshot_index])
    /\ snap.snapshot_index <= snap.commit_index
    /\ Sound(twin, snap.commit_index)

(* Dropping n entries leaves those behind n ... *)
LEMMA DropIsBehind ==
    ASSUME NEW w \in Seq(Nat), NEW n \in Nat, n <= Len(w), NEW g, g = RS!Drop(w, n)
    PROVE  Behind(g, w, n)
<1>1. PICK c \in Nat : c = Len(w)
  BY LenProperties
<1>2. PICK m \in Nat : m = n + 1
  OBVIOUS
<1>3. g = SubSeq(w, m, c) /\ m > 0 /\ m <= c + 1 /\ c - m + 1 = c - n
  BY <1>1, <1>2 DEF RS!Drop
<1>4. /\ g \in Seq(Nat) /\ Len(g) = c - m + 1
      /\ \A j \in 1 .. c - m + 1 : g[j] = w[m + j - 1]
  BY <1>1, <1>3, PartOf
<1>5. \A j \in 1 .. c - n : m + j - 1 = n + j
  BY <1>2
<1> QED BY <1>1, <1>3, <1>4, <1>5 DEF Behind

(* ... and nothing else does. *)
LEMMA BehindIsDrop ==
    ASSUME NEW w \in Seq(Nat), NEW n \in Nat, NEW g, Behind(g, w, n)
    PROVE  g = RS!Drop(w, n)
<1>1. PICK h : h = RS!Drop(w, n)
  OBVIOUS
<1>2. Behind(h, w, n)
  BY <1>1, DropIsBehind DEF Behind
<1>3. g \in Seq(Nat) /\ h \in Seq(Nat) /\ Len(g) = Len(h) /\ \A j \in 1 .. Len(g) : g[j] = h[j]
  BY <1>2 DEF Behind
<1> QED BY <1>1, <1>3, SeqEqual

(* Dropping more of what is left. *)
LEMMA BehindMore ==
    ASSUME NEW w \in Seq(Nat), NEW n \in Nat, NEW g, Behind(g, w, n), NEW i \in Nat,
           n <= i, i <= Len(w), NEW h, h = RS!Drop(g, i - n)
    PROVE  Behind(h, w, i)
<1>1. PICK c \in Nat : c = Len(w)
  BY LenProperties
<1>2. PICK d \in Nat : d = i - n
  OBVIOUS
<1>3. g \in Seq(Nat) /\ Len(g) = c - n /\ \A j \in 1 .. c - n : g[j] = w[n + j]
  BY <1>1 DEF Behind
<1>4. d <= Len(g) /\ Len(g) - d = c - i
  BY <1>1, <1>2, <1>3
<1>5. Behind(h, g, d)
  BY <1>2, <1>3, <1>4, DropIsBehind
<1>6. h \in Seq(Nat) /\ Len(h) = c - i /\ \A j \in 1 .. c - i : h[j] = g[d + j]
  BY <1>4, <1>5 DEF Behind
<1>7. ASSUME NEW j \in 1 .. c - i PROVE h[j] = w[i + j]
  <2>1. d + j \in 1 .. c - n /\ n + (d + j) = i + j
    BY <1>2
  <2>2. g[d + j] = w[n + (d + j)]
    BY <1>3, <2>1
  <2> QED BY <1>6, <2>1, <2>2
<1> QED BY <1>1, <1>6, <1>7 DEF Behind

(* The log w holds the entries e behind index p. *)
Holds(w, p, e) == \A k \in 1 .. Len(e) : p + k <= Len(w) /\ w[p + k] = e[k]

(* The log m is the first p entries of w, and e behind them. *)
Replaced(m, w, p, e) ==
    /\ m \in Seq(Nat) /\ Len(m) = p + Len(e)
    /\ \A j \in 1 .. p : m[j] = w[j]
    /\ \A j \in 1 .. Len(e) : m[p + j] = e[j]

(* Merging changes nothing when all of e is there, and otherwise leaves    *)
(* what was up to p and e behind it.                                       *)
LEMMA MergedIs ==
    ASSUME NEW w \in Seq(Nat), NEW p \in Nat, p <= Len(w), NEW e \in Seq(Nat),
           NEW m, m = RS!Merged(w, p, e)
    PROVE  (m = w /\ Holds(w, p, e)) \/ (Replaced(m, w, p, e) /\ ~Holds(w, p, e))
<1>1. PICK c \in Nat : c = Len(w)
  BY LenProperties
<1>2. PICK d \in Nat : d = Len(e) /\ DOMAIN e = 1 .. d
  BY LenProperties
<1>3. PICK N : N = {k \in DOMAIN e : p + k > Len(w) \/ w[p + k] # e[k]}
  OBVIOUS
<1>4. N \in SUBSET Nat /\ N \subseteq 1 .. d
  BY <1>2, <1>3
<1>5. CASE N = {}
  <2>1. m = w
    BY <1>3, <1>5 DEF RS!Merged
  <2>2. ASSUME NEW k \in 1 .. d PROVE p + k <= Len(w) /\ w[p + k] = e[k]
    <3>1. ~(p + k > Len(w)) /\ w[p + k] = e[k]
      BY <1>2, <1>3, <1>5
    <3> QED BY <1>1, <3>1
  <2> QED BY <1>2, <2>1, <2>2 DEF Holds
<1>6. CASE N # {}
  <2>1. PICK k : k = CHOOSE i \in N : \A j \in N : i <= j
    OBVIOUS
  <2>2. \E i \in N : \A j \in N : i <= j
    BY <1>4, <1>6, NatMin
  <2>3. k \in N /\ \A j \in N : k <= j
    BY <2>1, <2>2
  <2>4. k \in Nat /\ k >= 1 /\ k <= d /\ k \in 1 .. d
    BY <1>4, <2>3
  <2>5. \A j \in 1 .. k - 1 : p + j <= Len(w) /\ w[p + j] = e[j]
    <3> SUFFICES ASSUME NEW j \in 1 .. k - 1 PROVE p + j <= Len(w) /\ w[p + j] = e[j]
      OBVIOUS
    <3>1. j \in 1 .. d /\ ~(k <= j)
      BY <2>4
    <3>2. ~(p + j > Len(w)) /\ w[p + j] = e[j]
      BY <1>2, <1>3, <2>3, <3>1
    <3> QED BY <1>1, <3>2
  <2>6. ~Holds(w, p, e)
    <3>1. k \in 1 .. Len(e) /\ (p + k > Len(w) \/ w[p + k] # e[k])
      BY <1>2, <1>3, <2>3, <2>4
    <3>2. p + k > Len(w) => ~(p + k <= Len(w))
      BY <1>1, <2>4
    <3> QED BY <3>1, <3>2 DEF Holds
  <2>7. PICK q \in Nat : q = p + k - 1
    BY <2>4
  <2>8. q <= c
    <3>1. CASE k = 1
      BY <1>1, <2>7, <3>1
    <3>2. CASE k # 1
      <4>1. k - 1 \in 1 .. k - 1
        BY <2>4, <3>2
      <4>2. p + (k - 1) <= c
        BY <1>1, <2>5, <4>1
      <4> QED BY <2>4, <2>7, <4>2
    <3> QED BY <3>1, <3>2
  <2>9. PICK u : u = SubSeq(w, 1, q)
    OBVIOUS
  <2>10. u \in Seq(Nat) /\ Len(u) = q /\ \A j \in 1 .. q : u[j] = w[j]
    <3>1. /\ u \in Seq(Nat) /\ Len(u) = q - 1 + 1
          /\ \A j \in 1 .. q - 1 + 1 : u[j] = w[1 + j - 1]
      BY <1>1, <2>8, <2>9, PartOf
    <3> QED BY <3>1
  <2>11. PICK v : v = RS!Drop(e, k - 1)
    OBVIOUS
  <2>12. PICK f \in Nat : f = k - 1 /\ f <= Len(e)
    BY <1>2, <2>4
  <2>13. Behind(v, e, f)
    BY <2>11, <2>12, DropIsBehind
  <2>14. v \in Seq(Nat) /\ Len(v) = d - f /\ \A j \in 1 .. d - f : v[j] = e[f + j]
    BY <1>2, <2>13 DEF Behind
  <2>15. m = u \o v
    <3>1. m = SubSeq(w, 1, p + k - 1) \o RS!Drop(e, k - 1)
      BY <1>3, <1>6, <2>1 DEF RS!Merged
    <3> QED BY <2>7, <2>9, <2>11, <3>1
  <2>16. m \in Seq(Nat) /\ Len(m) = Len(u) + Len(v)
         /\ \A j \in 1 .. Len(u) + Len(v) : m[j] = IF j <= Len(u) THEN u[j] ELSE v[j - Len(u)]
    <3>1. u \in Seq(Nat) /\ v \in Seq(Nat)
      BY <2>10, <2>14
    <3> QED BY <2>15, <3>1, JoinOf
  <2>17. Len(u) + Len(v) = p + d
    <3>1. q + (d - f) = p + d
      BY <2>4, <2>7, <2>12
    <3> QED BY <2>10, <2>14, <3>1
  <2>18. \A j \in 1 .. p + d : m[j] = IF j <= q THEN w[j] ELSE v[j - q]
    <3> SUFFICES ASSUME NEW j \in 1 .. p + d
                 PROVE  m[j] = IF j <= q THEN w[j] ELSE v[j - q]
      OBVIOUS
    <3>1. m[j] = IF j <= q THEN u[j] ELSE v[j - q]
      BY <2>10, <2>16, <2>17
    <3>2. j <= q => j \in 1 .. q
      OBVIOUS
    <3> QED BY <2>10, <3>1, <3>2
  <2>19. ASSUME NEW j \in 1 .. p PROVE m[j] = w[j]
    <3>1. j \in 1 .. p + d /\ j <= q
      BY <2>4, <2>7
    <3> QED BY <2>18, <3>1
  <2>20. ASSUME NEW j \in 1 .. d PROVE m[p + j] = e[j]
    <3>1. p + j \in 1 .. p + d
      OBVIOUS
    <3>2. CASE j <= f
      <4>1. p + j <= q /\ j \in 1 .. k - 1
        BY <2>4, <2>7, <2>12, <3>2
      <4> QED BY <2>5, <2>18, <3>1, <4>1
    <3>3. CASE ~(j <= f)
      <4>1. ~(p + j <= q) /\ (p + j) - q = j - f
        BY <2>4, <2>7, <2>12, <3>3
      <4>2. j - f \in 1 .. d - f /\ f + (j - f) = j
        BY <2>12, <3>3
      <4>3. m[p + j] = v[j - f]
        BY <2>18, <3>1, <4>1
      <4>4. v[j - f] = e[f + (j - f)]
        BY <2>14, <4>2
      <4> QED BY <4>2, <4>3, <4>4
    <3> QED BY <3>2, <3>3
  <2> QED BY <1>2, <2>6, <2>16, <2>17, <2>19, <2>20 DEF Replaced
<1> QED BY <1>5, <1>6

(* Merging behind a snapshot and merging into the whole log agree. *)
LEMMA MergedBehind ==
    ASSUME NEW w \in Seq(Nat), NEW n \in Nat, NEW g, Behind(g, w, n), NEW p \in Nat,
           n <= p, p <= Len(w), NEW e \in Seq(Nat),
           NEW y, y = RS!Merged(w, p, e), NEW x, x = RS!Merged(g, p - n, e)
    PROVE  Behind(x, y, n)
<1>1. PICK c \in Nat : c = Len(w) /\ n <= c
  BY LenProperties DEF Behind
<1>2. PICK d \in Nat : d = Len(e)
  BY LenProperties
<1>3. PICK q \in Nat : q = p - n
  OBVIOUS
<1>4. g \in Seq(Nat) /\ Len(g) = c - n /\ \A j \in 1 .. c - n : g[j] = w[n + j]
  BY <1>1 DEF Behind
<1>5. q <= Len(g)
  BY <1>1, <1>3, <1>4
<1>6. ASSUME NEW k \in 1 .. d
      PROVE  (p + k <= c /\ w[p + k] = e[k]) <=> (q + k <= c - n /\ g[q + k] = e[k])
  <2>1. p + k <= c <=> q + k <= c - n
    BY <1>1, <1>3
  <2>2. ASSUME q + k <= c - n PROVE g[q + k] = w[p + k]
    <3>1. q + k \in 1 .. c - n /\ n + (q + k) = p + k
      BY <1>1, <1>3, <2>2
    <3> QED BY <1>4, <3>1
  <2> QED BY <2>1, <2>2
<1>7. Holds(w, p, e) <=> Holds(g, q, e)
  BY <1>1, <1>2, <1>4, <1>6 DEF Holds
<1>8. CASE Holds(w, p, e)
  <2>1. y = w
    BY <1>8, MergedIs
  <2>2. x = g
    <3>1. x = RS!Merged(g, q, e) /\ g \in Seq(Nat)
      BY <1>3, <1>4
    <3>2. (x = g /\ Holds(g, q, e)) \/ (Replaced(x, g, q, e) /\ ~Holds(g, q, e))
      BY <1>5, <3>1, MergedIs
    <3> QED BY <1>7, <1>8, <3>2
  <2> QED BY <2>1, <2>2
<1>9. CASE ~Holds(w, p, e)
  <2>1. /\ y \in Seq(Nat) /\ Len(y) = p + d
        /\ \A j \in 1 .. p : y[j] = w[j]
        /\ \A j \in 1 .. d : y[p + j] = e[j]
    <3>1. Replaced(y, w, p, e)
      BY <1>9, MergedIs
    <3> QED BY <1>2, <3>1 DEF Replaced
  <2>3. /\ x \in Seq(Nat) /\ Len(x) = q + d
        /\ \A j \in 1 .. q : x[j] = g[j]
        /\ \A j \in 1 .. d : x[q + j] = e[j]
    <3>1. Replaced(x, g, q, e)
      BY <1>3, <1>4, <1>5, <1>7, <1>9, MergedIs
    <3> QED BY <1>2, <3>1 DEF Replaced
  <2>4. n <= p + d /\ (p + d) - n = q + d
    BY <1>3
  <2>5. ASSUME NEW j \in 1 .. q + d PROVE x[j] = y[n + j]
    <3>1. CASE j <= q
      <4>1. j \in 1 .. q /\ n + j \in 1 .. p /\ j \in 1 .. c - n
        BY <1>1, <1>3, <3>1
      <4> QED BY <1>4, <2>1, <2>3, <4>1
    <3>2. CASE ~(j <= q)
      <4>1. PICK k \in 1 .. d : k = j - q
        BY <1>3, <3>2
      <4>2. q + k = j /\ p + k = n + j
        BY <1>3, <4>1
      <4>3. x[q + k] = e[k] /\ y[p + k] = e[k]
        BY <2>1, <2>3
      <4> QED BY <4>2, <4>3
    <3> QED BY <3>1, <3>2
  <2> QED BY <2>1, <2>3, <2>4, <2>5 DEF Behind
<1> QED BY <1>8, <1>9

(* What a leader sends leaves a sound log sound: nothing committed goes.   *)
LEMMA MergedSound ==
    ASSUME NEW c \in Nat, NEW w, Sound(w, c), NEW l \in LeaderLogs, NEW p \in Nat, p <= Len(w),
           NEW last \in Nat, p <= last, last <= Len(l), p = 0 \/ w[p] = l[p],
           NEW e, e = SubSeq(l, p + 1, last), NEW y, y = RS!Merged(w, p, e)
    PROVE  e \in Seq(Nat) /\ Sound(y, c)
<1>1. l \in Seq(Nat) /\ Committed \in Seq(Nat) /\ l \in Leaders
  BY LogsAssumption DEF Leaders
<1>2. w \in Seq(Nat) /\ c <= Len(w) /\ c <= Len(Committed)
  BY DEF Sound
<1>3. PICK d \in Nat : d = last - p
  OBVIOUS
<1>4. e \in Seq(Nat) /\ Len(e) = d /\ \A j \in 1 .. d : e[j] = l[p + j]
  <2>1. PICK m \in Nat : m = p + 1
    OBVIOUS
  <2>2. m > 0 /\ m <= last + 1 /\ last - m + 1 = d
    BY <1>3, <2>1
  <2>3. e = SubSeq(l, m, last)
    BY <2>1
  <2>4. /\ e \in Seq(Nat) /\ Len(e) = last - m + 1
        /\ \A j \in 1 .. last - m + 1 : e[j] = l[m + j - 1]
    BY <1>1, <2>2, <2>3, PartOf
  <2>5. \A j \in 1 .. d : m + j - 1 = p + j
    BY <2>1
  <2> QED BY <2>2, <2>4, <2>5
<1>5. CASE y = w
  BY <1>4, <1>5
<1>6. CASE y # w
  <2>1. /\ y \in Seq(Nat) /\ Len(y) = p + d
        /\ \A j \in 1 .. p : y[j] = w[j]
        /\ \A j \in 1 .. d : y[p + j] = e[j]
    <3>1. Replaced(y, w, p, e)
      BY <1>2, <1>4, <1>6, MergedIs
    <3> QED BY <1>4, <3>1 DEF Replaced
  <2>2. PICK k \in 1 .. d : ~(p + k <= Len(w) /\ w[p + k] = e[k])
    <3>1. ~Holds(w, p, e)
      BY <1>2, <1>4, <1>6, MergedIs
    <3> QED BY <1>4, <3>1 DEF Holds
  <2>3. Len(w) \in Nat /\ DOMAIN w = 1 .. Len(w) /\ DOMAIN l = 1 .. Len(l) /\ Len(l) \in Nat
        /\ DOMAIN y = 1 .. Len(y) /\ Len(Committed) \in Nat
        /\ DOMAIN Committed = 1 .. Len(Committed)
    BY <1>1, <1>2, <2>1, LenProperties
  <2>4. ASSUME NEW j \in 1 .. p PROVE w[j] = l[j]
    <3>1. p \in DOMAIN w \cap DOMAIN l /\ w[p] = l[p]
      BY <2>3
    <3>2. Matching(w, l)
      BY <1>1 DEF Sound
    <3> QED BY <3>1, <3>2 DEF Matching
  <2>5. ASSUME NEW j \in 1 .. p + d PROVE y[j] = l[j]
    <3>1. CASE j <= p
      <4>1. j \in 1 .. p
        BY <3>1
      <4> QED BY <2>1, <2>4, <4>1
    <3>2. CASE ~(j <= p)
      <4>1. PICK a \in 1 .. d : a = j - p /\ p + a = j
        BY <3>2
      <4>2. y[p + a] = e[a] /\ e[a] = l[p + a]
        BY <1>4, <2>1
      <4> QED BY <4>1, <4>2
    <3> QED BY <3>1, <3>2
  <2>6. p + d = last
    BY <1>3
  <2>7. \A j \in 1 .. c : l[j] = Committed[j]
    <3>1. \A j \in 1 .. c : j \in DOMAIN Committed
      BY <1>2, <2>3
    <3> QED BY <3>1, LogsAssumption
  <2>8. c <= p + d
    <3> SUFFICES ASSUME p + d < c PROVE FALSE
      BY <2>6
    <3>1. p + k \in 1 .. c /\ p + k <= Len(w)
      BY <1>2, <2>3
    <3>2. w[p + k] = l[p + k]
      BY <2>7, <3>1 DEF Sound
    <3>3. e[k] = l[p + k]
      BY <1>4
    <3> QED BY <2>2, <2>3, <3>1, <3>2, <3>3
  <2>9. \A j \in 1 .. c : y[j] = Committed[j]
    <3>1. \A j \in 1 .. c : j \in 1 .. p + d
      BY <2>8
    <3> QED BY <2>5, <2>7, <3>1
  <2>10. ASSUME NEW k2 \in Leaders PROVE Matching(y, k2)
    <3> SUFFICES ASSUME NEW i \in DOMAIN y \cap DOMAIN k2, y[i] = k2[i], NEW j \in 1 .. i
                 PROVE  y[j] = k2[j]
      BY DEF Matching
    <3>0. i \in 1 .. p + d
      BY <2>1, <2>3
    <3>1. i \in 1 .. p + d /\ i \in DOMAIN l /\ j \in 1 .. p + d
      BY <2>3, <2>6, <3>0
    <3>2. Matching(l, k2)
      BY LogsAssumption DEF Leaders
    <3>3. l[i] = k2[i]
      BY <2>5, <3>1
    <3>4. l[j] = k2[j]
      BY <3>1, <3>2, <3>3 DEF Matching
    <3> QED BY <2>5, <3>1, <3>4
  <2> QED BY <1>2, <1>4, <2>1, <2>8, <2>9, <2>10 DEF Sound
<1> QED BY <1>5, <1>6

(* Snapshots::term_at is the term of the whole log from the snapshot on.   *)
LEMMA TermAtIs ==
    ASSUME RSInv, NEW i \in Nat, snap.snapshot_index <= i
    PROVE  /\ i = 0 => RS!TermAt(i) = 0
           /\ i > 0 /\ i <= Len(twin) => RS!TermAt(i) = twin[i]
           /\ i > Len(twin) => RS!TermAt(i) = -1
<1>1. PICK n \in Nat : n = snap.snapshot_index
  BY DEF RSInv, SnapState
<1>2. PICK c \in Nat : c = Len(twin)
  BY LenProperties DEF RSInv, Sound
<1>3. /\ n <= c /\ Len(snap.log) = c - n /\ \A j \in 1 .. c - n : snap.log[j] = twin[n + j]
      /\ snap.snapshot_term = (IF n = 0 THEN 0 ELSE twin[n])
  BY <1>1, <1>2 DEF RSInv, Behind
<1>4. RS!FirstIndex = n + 1 /\ RS!LastIndex = c
  BY <1>1, <1>3 DEF RS!FirstIndex, RS!LastIndex
<1>5. CASE i = n
  <2>1. RS!TermAt(i) = snap.snapshot_term
    BY <1>1, <1>5 DEF RS!TermAt
  <2> QED BY <1>2, <1>3, <1>5, <2>1
<1>6. CASE i # n /\ i <= c
  <2>1. i \in (n + 1) .. c /\ i - n \in 1 .. c - n /\ n + (i - n) = i /\ i > 0
    BY <1>1, <1>6
  <2>2. RS!TermAt(i) = snap.log[i - n]
    BY <1>1, <1>4, <1>6, <2>1 DEF RS!TermAt
  <2>3. snap.log[i - n] = twin[n + (i - n)]
    BY <1>3, <2>1
  <2> QED BY <1>2, <1>6, <2>1, <2>2, <2>3
<1>7. CASE i > c
  <2>1. i # n /\ i \notin (n + 1) .. c /\ i # 0 /\ ~(i <= c)
    BY <1>3, <1>7
  <2>2. RS!TermAt(i) = -1
    BY <1>1, <1>4, <2>1 DEF RS!TermAt
  <2> QED BY <1>2, <2>1, <2>2
<1> QED BY <1>5, <1>6, <1>7

(* How far the log reaches. *)
LEMMA RSFacts ==
    ASSUME RSInv
    PROVE  /\ twin \in Seq(Nat) /\ snap.snapshot_index \in Nat /\ snap.commit_index \in Nat
           /\ Len(twin) \in Nat /\ RS!LastIndex = Len(twin)
           /\ snap.snapshot_index <= snap.commit_index /\ snap.commit_index <= Len(twin)
           /\ snap.commit_index <= Len(Committed) /\ Len(Committed) \in Nat
           /\ Committed \in Seq(Nat)
<1>1. twin \in Seq(Nat) /\ snap.snapshot_index \in Nat /\ snap.commit_index \in Nat
      /\ Committed \in Seq(Nat)
  BY LogsAssumption DEF RSInv, SnapState, Sound
<1>2. Len(twin) \in Nat /\ Len(Committed) \in Nat
  BY <1>1, LenProperties
<1>3. RS!LastIndex = Len(twin)
  BY <1>1, <1>2 DEF RSInv, Behind, RS!LastIndex
<1> QED BY <1>1, <1>2, <1>3 DEF RSInv, Sound

(* Committing keeps the invariant. *)
LEMMA RSCommitStep ==
    ASSUME RSInv, NEW i \in 1 .. Len(Committed), RS!Commit(i)
    PROVE  RSInv'
<1>1. PICK c \in Nat : c = snap.commit_index
  BY RSFacts
<1>2. PICK m \in Nat : m = (IF i <= RS!LastIndex THEN i ELSE RS!LastIndex)
  BY RSFacts
<1>3. m <= Len(twin) /\ m <= Len(Committed)
  BY <1>2, RSFacts
<1>4. /\ SubSeq(twin, 1, m) = SubSeq(Committed, 1, m) /\ m > c
      /\ snap' = [snap EXCEPT !.commit_index = m] /\ twin' = twin
  BY <1>1, <1>2 DEF RS!Commit
<1>5. /\ snap' \in SnapState /\ snap'.log = snap.log /\ snap'.commit_index = m
      /\ snap'.snapshot_index = snap.snapshot_index /\ snap'.snapshot_term = snap.snapshot_term
  BY <1>4 DEF RSInv, SnapState
<1>6. ASSUME NEW j \in 1 .. m PROVE twin[j] = Committed[j]
  <2>1. j \in 1 .. m - 1 + 1 /\ 1 + j - 1 = j
    OBVIOUS
  <2>2. PICK s : s = SubSeq(twin, 1, m)
    OBVIOUS
  <2>3. s[j] = twin[j]
    BY <1>3, <2>1, <2>2, RSFacts, PartOf
  <2>4. s = SubSeq(Committed, 1, m)
    BY <1>4, <2>2
  <2>5. s[j] = Committed[j]
    BY <1>3, <2>1, <2>4, RSFacts, PartOf
  <2> QED BY <2>3, <2>5
<1>7. Sound(twin, m)
  BY <1>3, <1>6 DEF RSInv, Sound
<1>8. snap.snapshot_index <= m
  BY <1>1, <1>4, RSFacts
<1> QED BY <1>4, <1>5, <1>7, <1>8 DEF RSInv

(* Compacting keeps the invariant. *)
LEMMA RSSnapshotStep ==
    ASSUME RSInv, NEW i \in 1 .. Len(Committed), RS!Snapshot(i)
    PROVE  RSInv'
<1>1. PICK n \in Nat : n = snap.snapshot_index
  BY RSFacts
<1>2. i \in Nat /\ i > 0 /\ n <= i /\ i <= Len(twin) /\ i <= snap.commit_index
  BY <1>1, RSFacts DEF RS!Snapshot
<1>3. PICK g : g = RS!Drop(snap.log, i - n)
  OBVIOUS
<1>4. Behind(g, twin, i)
  BY <1>1, <1>2, <1>3, RSFacts, BehindMore DEF RSInv
<1>5. PICK t : t = RS!TermAt(i)
  OBVIOUS
<1>6. t = twin[i] /\ t \in Nat
  BY <1>1, <1>2, <1>5, TermAtIs, RSFacts, ElementOfSeq
<1>7. snap' = [snap EXCEPT !.log = g, !.snapshot_index = i, !.snapshot_term = t]
      /\ twin' = twin
  BY <1>1, <1>3, <1>5 DEF RS!Snapshot
<1>8. /\ snap' \in SnapState /\ snap'.log = g /\ snap'.commit_index = snap.commit_index
      /\ snap'.snapshot_index = i /\ snap'.snapshot_term = t
  BY <1>2, <1>4, <1>6, <1>7 DEF RSInv, SnapState, Behind
<1> QED BY <1>2, <1>4, <1>6, <1>7, <1>8 DEF RSInv

(* Installing a leader's snapshot keeps the invariant. *)
LEMMA RSInstallStep ==
    ASSUME RSInv, NEW i \in 1 .. Len(Committed), RS!Install(i)
    PROVE  RSInv'
<1>1. PICK n \in Nat : n = snap.snapshot_index
  BY RSFacts
<1>2. i \in Nat /\ i > 0 /\ n <= i /\ i > snap.commit_index /\ i >= n + 1
  BY <1>1, RSFacts DEF RS!Install
<1>3. PICK t \in Nat : t = Committed[i]
  BY RSFacts, ElementOfSeq
<1>4. PICK g : g = RS!Retained(i)
  OBVIOUS
<1>5. /\ snap' = [log |-> g, snapshot_index |-> i, snapshot_term |-> t, commit_index |-> i]
      /\ twin' = IF i <= Len(twin) /\ twin[i] = t THEN twin ELSE SubSeq(Committed, 1, i)
  BY <1>3, <1>4 DEF RS!Install
<1>6. DOMAIN twin = 1 .. Len(twin) /\ DOMAIN Committed = 1 .. Len(Committed)
      /\ i <= Len(Committed)
  BY RSFacts, LenProperties
<1>7. ASSUME NEW w, twin' = w, Behind(g, w, i), w[i] = t, Sound(w, i) PROVE RSInv'
  <2>1. /\ snap' \in SnapState /\ snap'.log = g /\ snap'.commit_index = i
        /\ snap'.snapshot_index = i /\ snap'.snapshot_term = t
    BY <1>2, <1>5, <1>7 DEF SnapState, Behind
  <2> QED BY <1>2, <1>7, <2>1 DEF RSInv
<1>8. CASE i <= Len(twin) /\ twin[i] = t
  <2>1. RS!TermAt(i) = t /\ i >= RS!FirstIndex
    BY <1>1, <1>2, <1>8, TermAtIs DEF RS!FirstIndex
  <2>2. g = RS!Drop(snap.log, i - n)
    BY <1>1, <1>3, <1>4, <2>1 DEF RS!Retained
  <2>3. Behind(g, twin, i)
    BY <1>1, <1>2, <1>8, <2>2, RSFacts, BehindMore DEF RSInv
  <2>4. \A j \in 1 .. i : twin[j] = Committed[j]
    <3>1. Matching(twin, Committed)
      BY DEF RSInv, Sound, Leaders
    <3>2. i \in DOMAIN twin \cap DOMAIN Committed
      BY <1>2, <1>6, <1>8
    <3> QED BY <1>3, <1>8, <3>1, <3>2 DEF Matching
  <2>5. Sound(twin, i)
    BY <1>6, <1>8, <2>4 DEF RSInv, Sound
  <2> QED BY <1>5, <1>7, <1>8, <2>3, <2>5
<1>9. CASE ~(i <= Len(twin) /\ twin[i] = t)
  <2>1. RS!TermAt(i) # t
    <3>1. CASE i <= Len(twin)
      BY <1>1, <1>2, <1>9, <3>1, TermAtIs
    <3>2. CASE ~(i <= Len(twin))
      <4>1. i > Len(twin)
        BY <3>2, RSFacts
      <4> QED BY <1>1, <1>2, <4>1, TermAtIs
    <3> QED BY <3>1, <3>2
  <2>2. g = <<>>
    BY <1>3, <1>4, <2>1 DEF RS!Retained
  <2>3. PICK w : w = SubSeq(Committed, 1, i)
    OBVIOUS
  <2>4. w \in Seq(Nat) /\ Len(w) = i /\ DOMAIN w = 1 .. i /\ \A j \in 1 .. i : w[j] = Committed[j]
    <3>1. /\ w \in Seq(Nat) /\ Len(w) = i - 1 + 1 /\ DOMAIN w = 1 .. i - 1 + 1
          /\ \A j \in 1 .. i - 1 + 1 : w[j] = Committed[1 + j - 1]
      BY <1>2, <1>6, <2>3, RSFacts, PartOf
    <3>2. i - 1 + 1 = i /\ \A j \in 1 .. i : 1 + j - 1 = j
      BY <1>2
    <3> QED BY <3>1, <3>2
  <2>5. Behind(g, w, i)
    <3>1. g \in Seq(Nat) /\ Len(g) = 0 /\ i - i = 0 /\ 1 .. 0 = {}
      BY <1>2, <2>2
    <3> QED BY <1>2, <2>4, <3>1 DEF Behind
  <2>6. ASSUME NEW l \in Leaders PROVE Matching(w, l)
    <3> SUFFICES ASSUME NEW a \in DOMAIN w \cap DOMAIN l, w[a] = l[a], NEW j \in 1 .. a
                 PROVE  w[j] = l[j]
      BY DEF Matching
    <3>1. Matching(Committed, l)
      BY LogsAssumption DEF Leaders
    <3>2. a \in DOMAIN Committed /\ a \in 1 .. i /\ j \in 1 .. i
      BY <1>2, <1>6, <2>4
    <3>3. Committed[j] = l[j]
      BY <2>4, <3>1, <3>2 DEF Matching
    <3> QED BY <2>4, <3>2, <3>3
  <2>7. Sound(w, i) /\ w[i] = t
    BY <1>2, <1>3, <1>6, <2>4, <2>6 DEF Sound
  <2> QED BY <1>5, <1>7, <1>9, <2>3, <2>5, <2>7
<1> QED BY <1>8, <1>9

(* Taking entries of a leader keeps the invariant. *)
LEMMA RSAppendStep ==
    ASSUME RSInv, NEW l \in LeaderLogs, NEW prev \in 0 .. Len(l), NEW last \in prev .. Len(l),
           RS!AppendEntries(l, prev, last)
    PROVE  RSInv'
<1>1. PICK n \in Nat : n = snap.snapshot_index
  BY RSFacts
<1>2. PICK c \in Nat : c = snap.commit_index
  BY RSFacts
<1>3. l \in Seq(Nat) /\ Len(l) \in Nat
  BY LogsAssumption, LenProperties
<1>4. prev \in Nat /\ last \in Nat /\ prev <= last /\ last <= Len(l)
  BY <1>3
<1>5. n <= prev /\ prev <= Len(twin)
  BY <1>1, RSFacts DEF RS!AppendEntries
<1>6. prev = 0 \/ twin[prev] = l[prev]
  BY <1>1, <1>4, <1>5, TermAtIs DEF RS!AppendEntries
<1>7. PICK e : e = SubSeq(l, prev + 1, last)
  OBVIOUS
<1>8. PICK x, y : x = RS!Merged(snap.log, prev - n, e) /\ y = RS!Merged(twin, prev, e)
  OBVIOUS
<1>9. snap' = [snap EXCEPT !.log = x] /\ twin' = y
  BY <1>1, <1>7, <1>8 DEF RS!AppendEntries
<1>10. e \in Seq(Nat) /\ Sound(y, c)
  BY <1>2, <1>4, <1>5, <1>6, <1>7, <1>8, MergedSound DEF RSInv
<1>11. Behind(x, y, n)
  BY <1>1, <1>4, <1>5, <1>8, <1>10, RSFacts, MergedBehind DEF RSInv
<1>12. /\ snap' \in SnapState /\ snap'.log = x /\ snap'.commit_index = c
       /\ snap'.snapshot_index = n /\ snap'.snapshot_term = snap.snapshot_term
  BY <1>1, <1>2, <1>9, <1>11 DEF RSInv, SnapState, Behind
<1>13. n > 0 => y[n] = twin[n]
  <2> SUFFICES ASSUME n > 0 PROVE y[n] = twin[n]
    OBVIOUS
  <2>1. n \in 1 .. c /\ n <= c
    BY <1>1, <1>2, RSFacts
  <2>2. y[n] = Committed[n]
    BY <1>10, <2>1 DEF Sound
  <2>3. twin[n] = Committed[n]
    BY <1>2, <2>1 DEF RSInv, Sound
  <2> QED BY <2>2, <2>3
<1>14. snap'.snapshot_term = IF n = 0 THEN 0 ELSE y[n]
  BY <1>1, <1>12, <1>13 DEF RSInv
<1>15. n <= c
  BY <1>1, <1>2, RSFacts
<1> QED BY <1>9, <1>10, <1>11, <1>12, <1>14, <1>15 DEF RSInv

(* CompactionIsInvisible, for any committed log and any logs of leaders    *)
(* and followers that match as Raft's do: a node that compacts and         *)
(* installs snapshots has the log of one that never does.                  *)
THEOREM CompactionIsInvisibleCorrect == RS!Spec => []CompactionIsInvisible
<1>1. RS!Init => RSInv
  <2> SUFFICES ASSUME NEW l \in FirstLogs, twin = l,
                      snap = [log |-> l, snapshot_index |-> 0, snapshot_term |-> 0,
                              commit_index |-> 0]
               PROVE  RSInv
    BY DEF RS!Init
  <2>1. l \in Seq(Nat) /\ Committed \in Seq(Nat)
    BY LogsAssumption
  <2>2. Len(l) \in Nat /\ Len(Committed) \in Nat
    BY <2>1, LenProperties
  <2>3. Behind(l, l, 0)
    BY <2>1, <2>2 DEF Behind
  <2>4. Sound(l, 0)
    BY <2>1, <2>2, LogsAssumption DEF Sound, Leaders
  <2> QED BY <2>1, <2>3, <2>4 DEF RSInv, SnapState
<1>2. RSInv /\ [RS!Next]_(RS!vars) => RSInv'
  <2> SUFFICES ASSUME RSInv, [RS!Next]_(RS!vars) PROVE RSInv'
    OBVIOUS
  <2>1. CASE UNCHANGED RS!vars
    BY <2>1 DEF RS!vars, RSInv
  <2> QED BY <2>1, RSCommitStep, RSSnapshotStep, RSInstallStep, RSAppendStep DEF RS!Next
<1>3. RSInv => CompactionIsInvisible
  <2> SUFFICES ASSUME RSInv PROVE RS!CompactionIsInvisible
    BY DEF CompactionIsInvisible
  <2>1. snap.log = RS!Drop(twin, snap.snapshot_index)
    BY RSFacts, BehindIsDrop DEF RSInv
  <2>2. snap.snapshot_index > 0 => snap.snapshot_term = twin[snap.snapshot_index]
    BY RSFacts DEF RSInv
  <2>3. PICK c \in Nat : c = snap.commit_index
    BY RSFacts
  <2>4. PICK s : s = SubSeq(twin, 1, c)
    OBVIOUS
  <2>5. PICK t : t = SubSeq(Committed, 1, c)
    OBVIOUS
  <2>6. s = t
    <3>1. c <= Len(twin) /\ c <= Len(Committed) /\ c - 1 + 1 = c
          /\ \A j \in 1 .. c : 1 + j - 1 = j
      BY <2>3, RSFacts
    <3>2. /\ s \in Seq(Nat) /\ Len(s) = c - 1 + 1
          /\ \A j \in 1 .. c - 1 + 1 : s[j] = twin[1 + j - 1]
      BY <2>4, <3>1, RSFacts, PartOf
    <3>3. /\ t \in Seq(Nat) /\ Len(t) = c - 1 + 1
          /\ \A j \in 1 .. c - 1 + 1 : t[j] = Committed[1 + j - 1]
      BY <2>5, <3>1, RSFacts, PartOf
    <3>4. \A j \in 1 .. c : twin[j] = Committed[j]
      BY <2>3 DEF RSInv, Sound
    <3>5. Len(s) = c /\ Len(t) = c
      BY <3>1, <3>2, <3>3
    <3>6. ASSUME NEW j \in 1 .. c PROVE s[j] = t[j]
      <4>1. s[j] = twin[j] /\ t[j] = Committed[j]
        BY <3>1, <3>2, <3>3
      <4> QED BY <4>1, <3>4
    <3>7. Len(s) = Len(t) /\ \A j \in 1 .. Len(s) : s[j] = t[j]
      BY <3>5, <3>6
    <3> QED BY <3>2, <3>3, <3>7, SeqEqual
  <2> QED BY <2>1, <2>2, <2>3, <2>4, <2>5, <2>6, RSFacts DEF RS!CompactionIsInvisible
<1> QED BY <1>1, <1>2, <1>3, PTL DEF RS!Spec
-----------------------------------------------------------------------------
(* ordering *)

OrdMessage == [from : Process, seq : Nat, clock : [Process -> Nat]]

OrdState == [order : {"fifo", "causal", "total"}, queue : Seq(OrdMessage),
             log : [Process -> Seq(Nat)], sent : [Process -> Nat],
             delivered_from : [Process -> [Process -> Nat]]]

Pasts == SUBSET Nat

(* The log g holds message e before its place i. *)
Before(g, i, e) == \E j \in 1 .. i - 1 : g[j] = e

(* A sender numbers its messages in the order of their ids. *)
Numbered(q, s) ==
    \A i \in 1 .. Len(q) :
        /\ 1 <= q[i].seq /\ q[i].seq <= s[q[i].from]
        /\ \A j \in 1 .. Len(q) : i < j /\ q[i].from = q[j].from => q[i].seq < q[j].seq

(* No process has delivered more of a sender than was sent. *)
Bounded(s, d) == \A p, k \in Process : d[p][k] <= s[k]

(* delivered_from says exactly which messages a log holds, unless the      *)
(* order is total.                                                         *)
Known(o, q, l, d) ==
    \A p \in Process :
        /\ \A j \in 1 .. Len(l[p]) : l[p][j] \in 1 .. Len(q)
        /\ o # "total" =>
             \A id \in 1 .. Len(q) :
                q[id].seq <= d[p][q[id].from] <=> Before(l[p], Len(l[p]) + 1, id)

InFifo(q, l) ==
    \A p \in Process : \A i \in 1 .. Len(l[p]), e \in 1 .. Len(q) :
        q[e].from = q[l[p][i]].from /\ e < l[p][i] => Before(l[p], i, e)

(* The clock of a message is never ahead of its sender. *)
Clocked(o, q, d) ==
    o = "causal" => \A i \in 1 .. Len(q), k \in Process : q[i].clock[k] <= d[q[i].from][k]

(* What a message depends on is behind its clock, or its sender's own. *)
Tagged(o, q, h) ==
    o = "causal" => \A i \in 1 .. Len(q) : \A e \in h[i] :
        /\ e \in 1 .. Len(q) /\ e < i
        /\ q[e].from = q[i].from \/ q[e].seq <= q[i].clock[q[e].from]

InCausal(o, l, h) ==
    o = "causal" => \A p \in Process : \A i \in 1 .. Len(l[p]) :
        \A e \in h[l[p][i]] : Before(l[p], i, e)

InTotal(o, l) ==
    o = "total" => \A p \in Process : \A i \in 1 .. Len(l[p]) : l[p][i] = i

OrdGood(o, q, l, s, d, h) ==
    /\ Numbered(q, s) /\ Bounded(s, d) /\ Known(o, q, l, d) /\ InFifo(q, l)
    /\ Clocked(o, q, d) /\ Tagged(o, q, h) /\ InCausal(o, l, h) /\ InTotal(o, l)

OrdInv ==
    /\ ord \in OrdState /\ past \in Seq(Pasts) /\ Len(past) = Len(ord.queue)
    /\ OrdGood(ord.order, ord.queue, ord.log, ord.sent, ord.delivered_from, past)

(* The fields of a queued message. *)
LEMMA OrdFields ==
    ASSUME NEW q \in Seq(OrdMessage), NEW i \in 1 .. Len(q)
    PROVE  q[i].from \in Process /\ q[i].seq \in Nat /\ q[i].clock \in [Process -> Nat]
<1>1. q[i] \in OrdMessage
  BY ElementOfSeq
<1> QED BY <1>1 DEF OrdMessage

OrdTyped(q, l, s, d, h) ==
    /\ q \in Seq(OrdMessage) /\ l \in [Process -> Seq(Nat)] /\ s \in [Process -> Nat]
    /\ d \in [Process -> [Process -> Nat]] /\ h \in Seq(Pasts) /\ Len(h) = Len(q)

(* What `send` of process p makes of the n messages in q. *)
SentMore(q, l, s, d, h, p, n, q2, s2, h2) ==
    /\ n \in Nat /\ n = Len(q) /\ Len(q2) = n + 1 /\ \A i \in 1 .. n : q2[i] = q[i]
    /\ q2[n + 1].from = p /\ q2[n + 1].seq = s[p] + 1 /\ q2[n + 1].clock = d[p]
    /\ \A k \in Process : s2[k] = (IF k = p THEN s[p] + 1 ELSE s[k])
    /\ Len(h2) = n + 1 /\ \A i \in 1 .. n : h2[i] = h[i]
    /\ \A e \in h2[n + 1] : \E i \in 1 .. n :
          /\ Before(l[p], Len(l[p]) + 1, i) \/ q[i].from = p
          /\ e = i \/ e \in h[i]

(* A message is sent. *)
LEMMA OrdSent ==
    ASSUME NEW o, NEW q, NEW l, NEW s, NEW d, NEW h, OrdTyped(q, l, s, d, h),
           OrdGood(o, q, l, s, d, h),
           NEW q2, NEW s2, NEW h2, OrdTyped(q2, l, s2, d, h2),
           NEW p \in Process, NEW n, SentMore(q, l, s, d, h, p, n, q2, s2, h2)
    PROVE  OrdGood(o, q2, l, s2, d, h2)
<1>0. /\ n \in Nat /\ n = Len(q) /\ Len(q2) = n + 1 /\ \A i \in 1 .. n : q2[i] = q[i]
      /\ q2[n + 1].from = p /\ q2[n + 1].seq = s[p] + 1 /\ q2[n + 1].clock = d[p]
  BY DEF SentMore
<1>1. \A i \in 1 .. n + 1 : i \in 1 .. n \/ i = n + 1
  BY <1>0
<1>2. \A i \in 1 .. n : /\ q[i].from \in Process /\ q[i].seq \in Nat
                        /\ q[i].clock \in [Process -> Nat]
  BY <1>0, OrdFields DEF OrdTyped
<1>3. ASSUME NEW k \in Process
      PROVE  /\ s[k] \in Nat /\ s2[k] \in Nat /\ s[k] <= s2[k]
             /\ k = p => s2[k] = s[k] + 1
  <2>1. s2[k] = (IF k = p THEN s[p] + 1 ELSE s[k])
    BY DEF SentMore
  <2>2. s[k] \in Nat
    BY DEF OrdTyped
  <2> QED BY <2>1, <2>2
<1>4. \A i \in 1 .. n : /\ 1 <= q[i].seq /\ q[i].seq <= s[q[i].from]
                        /\ \A j \in 1 .. n : i < j /\ q[i].from = q[j].from => q[i].seq < q[j].seq
  BY <1>0 DEF OrdGood, Numbered
<1>5. Numbered(q2, s2)
  <2> SUFFICES ASSUME NEW i \in 1 .. n + 1
               PROVE  /\ 1 <= q2[i].seq /\ q2[i].seq <= s2[q2[i].from]
                      /\ \A j \in 1 .. n + 1 : i < j /\ q2[i].from = q2[j].from
                            => q2[i].seq < q2[j].seq
    BY <1>0 DEF Numbered
  <2>1. CASE i = n + 1
    <3>1. q2[i].seq = s[p] + 1 /\ s2[p] = s[p] + 1 /\ s[p] \in Nat /\ q2[i].from = p
      BY <2>1, <1>0, <1>3
    <3>2. \A j \in 1 .. n + 1 : ~(i < j)
      BY <2>1, <1>0
    <3> QED BY <3>1, <3>2
  <2>2. CASE i \in 1 .. n
    <3>1. q2[i] = q[i] /\ q[i].from \in Process /\ q[i].seq \in Nat
      BY <2>2, <1>0, <1>2
    <3>2. 1 <= q[i].seq /\ q[i].seq <= s[q[i].from]
      BY <2>2, <1>4
    <3>3. s[q[i].from] \in Nat /\ s2[q[i].from] \in Nat /\ s[q[i].from] <= s2[q[i].from]
      BY <3>1, <1>3
    <3>4. 1 <= q2[i].seq /\ q2[i].seq <= s2[q2[i].from]
      BY <3>1, <3>2, <3>3
    <3>5. ASSUME NEW j \in 1 .. n + 1, i < j, q2[i].from = q2[j].from
          PROVE  q2[i].seq < q2[j].seq
      <4>1. CASE j \in 1 .. n
        <5>1. q2[j] = q[j]
          BY <4>1, <1>0
        <5> QED BY <2>2, <3>1, <3>5, <4>1, <5>1, <1>4
      <4>2. CASE j = n + 1
        <5>1. q2[j].seq = s[p] + 1 /\ q[i].from = p
          BY <3>1, <3>5, <4>2, <1>0
        <5> QED BY <3>1, <3>2, <3>3, <5>1
      <4> QED BY <4>1, <4>2, <1>1
    <3> QED BY <3>4, <3>5
  <2> QED BY <2>1, <2>2, <1>1
<1>6. ASSUME NEW r \in Process, NEW k \in Process PROVE d[r][k] \in Nat /\ d[r][k] <= s[k]
  <2>1. d[r][k] <= s[k]
    BY DEF OrdGood, Bounded
  <2>2. d[r][k] \in Nat
    BY DEF OrdTyped
  <2> QED BY <2>1, <2>2
<1>7. Bounded(s2, d)
  <2> SUFFICES ASSUME NEW r \in Process, NEW k \in Process PROVE d[r][k] <= s2[k]
    BY DEF Bounded
  <2>1. d[r][k] \in Nat /\ d[r][k] <= s[k]
    BY <1>6
  <2>2. s[k] \in Nat /\ s2[k] \in Nat /\ s[k] <= s2[k]
    BY <1>3
  <2> QED BY <2>1, <2>2
<1>8. ASSUME NEW r \in Process
      PROVE  Len(l[r]) \in Nat /\ \A j \in 1 .. Len(l[r]) : l[r][j] \in 1 .. n
  <2>1. l[r] \in Seq(Nat)
    BY DEF OrdTyped
  <2>2. Len(l[r]) \in Nat
    BY <2>1, LenProperties
  <2>3. \A j \in 1 .. Len(l[r]) : l[r][j] \in 1 .. n
    BY <1>0 DEF OrdGood, Known
  <2> QED BY <2>2, <2>3
<1>9. Known(o, q2, l, d)
  <2> SUFFICES ASSUME NEW r \in Process
               PROVE  /\ \A j \in 1 .. Len(l[r]) : l[r][j] \in 1 .. n + 1
                      /\ o # "total" => \A id \in 1 .. n + 1 :
                           q2[id].seq <= d[r][q2[id].from] <=> Before(l[r], Len(l[r]) + 1, id)
    BY <1>0 DEF Known
  <2>1. ASSUME NEW j \in 1 .. Len(l[r]) PROVE l[r][j] \in 1 .. n + 1
    <3>1. l[r][j] \in 1 .. n
      BY <1>8
    <3> QED BY <3>1, <1>0
  <2>2. ASSUME o # "total", NEW id \in 1 .. n + 1
        PROVE  q2[id].seq <= d[r][q2[id].from] <=> Before(l[r], Len(l[r]) + 1, id)
    <3>1. CASE id \in 1 .. n
      <4>1. q2[id] = q[id]
        BY <3>1, <1>0
      <4> QED BY <2>2, <3>1, <4>1, <1>0 DEF OrdGood, Known
    <3>2. CASE id = n + 1
      <4>1. q2[id].seq = s[p] + 1 /\ q2[id].from = p
        BY <3>2, <1>0
      <4>2. d[r][p] \in Nat /\ d[r][p] <= s[p] /\ s[p] \in Nat
        BY <1>3, <1>6
      <4>3. ~ (q2[id].seq <= d[r][q2[id].from])
        BY <4>1, <4>2
      <4>4. ASSUME NEW j \in 1 .. Len(l[r]) + 1 - 1, l[r][j] = id PROVE FALSE
        <5>1. j \in 1 .. Len(l[r])
          BY <1>8
        <5>2. l[r][j] \in 1 .. n
          BY <5>1, <1>8
        <5> QED BY <3>2, <4>4, <5>2, <1>0
      <4>5. ~ Before(l[r], Len(l[r]) + 1, id)
        BY <4>4 DEF Before
      <4> QED BY <4>3, <4>5
    <3> QED BY <3>1, <3>2, <1>1
  <2> QED BY <2>1, <2>2
<1>10. InFifo(q2, l)
  <2> SUFFICES ASSUME NEW r \in Process, NEW i \in 1 .. Len(l[r]), NEW e \in 1 .. n + 1,
                      q2[e].from = q2[l[r][i]].from, e < l[r][i]
               PROVE  Before(l[r], i, e)
    BY <1>0 DEF InFifo
  <2>1. l[r][i] \in 1 .. n
    BY <1>8
  <2>2. e \in 1 .. n
    BY <2>1, <1>0
  <2>3. q2[e] = q[e] /\ q2[l[r][i]] = q[l[r][i]]
    BY <2>1, <2>2, <1>0
  <2> QED BY <2>2, <2>3, <1>0 DEF OrdGood, InFifo
<1>11. Clocked(o, q2, d)
  <2> SUFFICES ASSUME o = "causal", NEW i \in 1 .. n + 1, NEW k \in Process
               PROVE  q2[i].clock[k] <= d[q2[i].from][k]
    BY <1>0 DEF Clocked
  <2>1. CASE i \in 1 .. n
    <3>1. q2[i] = q[i]
      BY <2>1, <1>0
    <3> QED BY <2>1, <3>1, <1>0 DEF OrdGood, Clocked
  <2>2. CASE i = n + 1
    <3>1. q2[i].clock = d[p] /\ q2[i].from = p
      BY <2>2, <1>0
    <3>2. d[p][k] \in Nat
      BY <1>6
    <3> QED BY <3>1, <3>2
  <2> QED BY <2>1, <2>2, <1>1
<1>12. Tagged(o, q2, h2)
  <2> SUFFICES ASSUME o = "causal", NEW i \in 1 .. n + 1, NEW e \in h2[i]
               PROVE  /\ e \in 1 .. n + 1 /\ e < i
                      /\ q2[e].from = q2[i].from \/ q2[e].seq <= q2[i].clock[q2[e].from]
    BY <1>0 DEF Tagged
  <2>1. \A a \in 1 .. n : \A b \in h[a] :
           /\ b \in 1 .. n /\ b < a
           /\ q[b].from = q[a].from \/ q[b].seq <= q[a].clock[q[b].from]
    BY <1>0 DEF OrdGood, Tagged
  <2>2. CASE i \in 1 .. n
    <3>0. h2[i] = h[i] /\ q2[i] = q[i]
      BY <2>2, <1>0 DEF SentMore
    <3>1. e \in 1 .. n /\ e < i
          /\ (q[e].from = q[i].from \/ q[e].seq <= q[i].clock[q[e].from])
      BY <2>1, <2>2, <3>0
    <3>2. q2[e] = q[e] /\ e \in 1 .. n + 1
      BY <3>1, <1>0
    <3> QED BY <3>0, <3>1, <3>2
  <2>3. CASE i = n + 1
    <3>1. PICK a \in 1 .. n : /\ Before(l[p], Len(l[p]) + 1, a) \/ q[a].from = p
                              /\ e = a \/ e \in h[a]
      BY <2>3 DEF SentMore
    <3>2. e \in 1 .. n
      BY <3>1, <2>1
    <3>3. q[e].from = p \/ q[e].seq <= d[p][q[e].from]
      <4>1. CASE Before(l[p], Len(l[p]) + 1, a)
        <5>0. \A b \in 1 .. n : Before(l[p], Len(l[p]) + 1, b) => q[b].seq <= d[p][q[b].from]
          BY <1>0 DEF OrdGood, Known
        <5>1. PICK j \in 1 .. Len(l[p]) : l[p][j] = a
          BY <4>1, <1>8 DEF Before
        <5>2. CASE e = a
          BY <3>2, <4>1, <5>0, <5>2
        <5>3. CASE e \in h[a]
          <6>1. Before(l[p], j, e)
            BY <5>1, <5>3 DEF OrdGood, InCausal
          <6>2. Len(l[p]) \in Nat
            BY <1>8
          <6>3. Before(l[p], Len(l[p]) + 1, e)
            BY <6>1, <6>2 DEF Before
          <6> QED BY <3>2, <5>0, <6>3
        <5> QED BY <3>1, <5>2, <5>3
      <4>2. CASE q[a].from = p /\ e \in h[a]
        <5>1. q[e].from = p \/ q[e].seq <= q[a].clock[q[e].from]
          BY <2>1, <4>2
        <5>2. PICK f \in Process, c \in Nat : f = q[e].from /\ c = q[e].seq
          BY <3>2, <1>2
        <5>3. q[a].clock[f] <= d[p][f]
          BY <4>2, <1>0 DEF OrdGood, Clocked
        <5>4. q[a].clock[f] \in Nat /\ d[p][f] \in Nat
          <6>1. q[a].clock \in [Process -> Nat]
            BY <1>2
          <6> QED BY <6>1, <1>6
        <5>5. c <= q[a].clock[f] => c <= d[p][f]
          BY <5>3, <5>4
        <5> QED BY <5>1, <5>2, <5>5
      <4> QED BY <3>1, <4>1, <4>2
    <3>4. q2[e] = q[e] /\ e \in 1 .. n + 1 /\ e < i
      BY <2>3, <3>2, <1>0
    <3>5. q2[i].from = p /\ q2[i].clock = d[p]
      BY <2>3, <1>0
    <3> QED BY <3>3, <3>4, <3>5
  <2> QED BY <2>2, <2>3, <1>1
<1>13. InCausal(o, l, h2)
  <2> SUFFICES ASSUME o = "causal", NEW r \in Process, NEW i \in 1 .. Len(l[r]),
                      NEW e \in h2[l[r][i]]
               PROVE  Before(l[r], i, e)
    BY DEF InCausal
  <2>1. l[r][i] \in 1 .. n
    BY <1>8
  <2>2. e \in h[l[r][i]]
    BY <2>1 DEF SentMore
  <2> QED BY <2>2 DEF OrdGood, InCausal
<1>14. InTotal(o, l)
  BY DEF OrdGood
<1> QED BY <1>5, <1>7, <1>9, <1>10, <1>11, <1>12, <1>13, <1>14 DEF OrdGood

(* What `offer` of message id makes of the c messages process p has. *)
OfferedOne(o, q, l, d, p, n, id, c, l2, d2) ==
    /\ n \in Nat /\ n = Len(q) /\ id \in 1 .. n /\ c \in Nat /\ c = Len(l[p])
    /\ \A r \in Process : r # p => l2[r] = l[r] /\ d2[r] = d[r]
    /\ Len(l2[p]) = c + 1 /\ l2[p][c + 1] = id
    /\ \A j \in 1 .. c : l2[p][j] = l[p][j]
    /\ \A k \in Process : d2[p][k] = (IF k = q[id].from THEN q[id].seq ELSE d[p][k])
    /\ o # "total" => d[p][q[id].from] + 1 = q[id].seq
    /\ o = "causal" => \A k \in Process \ {q[id].from} : d[p][k] >= q[id].clock[k]
    /\ o = "total" => c + 1 = id

(* A message is delivered. *)
LEMMA OrdOffered ==
    ASSUME NEW o, NEW q, NEW l, NEW s, NEW d, NEW h, OrdTyped(q, l, s, d, h),
           OrdGood(o, q, l, s, d, h),
           NEW l2, NEW d2, OrdTyped(q, l2, s, d2, h),
           NEW p \in Process, NEW n, NEW id, NEW c,
           OfferedOne(o, q, l, d, p, n, id, c, l2, d2)
    PROVE  OrdGood(o, q, l2, s, d2, h)
<1>0. /\ n \in Nat /\ n = Len(q) /\ id \in 1 .. n /\ c \in Nat /\ c = Len(l[p])
      /\ Len(l2[p]) = c + 1 /\ l2[p][c + 1] = id
      /\ \A j \in 1 .. c : l2[p][j] = l[p][j]
      /\ \A r \in Process : r # p => l2[r] = l[r] /\ d2[r] = d[r]
      /\ \A k \in Process : d2[p][k] = (IF k = q[id].from THEN q[id].seq ELSE d[p][k])
      /\ o # "total" => d[p][q[id].from] + 1 = q[id].seq
      /\ o = "total" => c + 1 = id
  BY DEF OfferedOne
<1>1. \A j \in 1 .. c + 1 : j \in 1 .. c \/ j = c + 1
  BY <1>0
<1>2. \A i \in 1 .. n : /\ q[i].from \in Process /\ q[i].seq \in Nat
                        /\ q[i].clock \in [Process -> Nat]
  BY <1>0, OrdFields DEF OrdTyped
<1>3. \A i \in 1 .. n : /\ 1 <= q[i].seq /\ q[i].seq <= s[q[i].from]
                        /\ \A j \in 1 .. n : i < j /\ q[i].from = q[j].from => q[i].seq < q[j].seq
  BY <1>0 DEF OrdGood, Numbered
<1>4. ASSUME NEW r \in Process, NEW k \in Process
      PROVE  d[r][k] \in Nat /\ d2[r][k] \in Nat /\ d[r][k] <= s[k]
  <2>1. d[r][k] <= s[k]
    BY DEF OrdGood, Bounded
  <2>2. d[r][k] \in Nat /\ d2[r][k] \in Nat
    BY DEF OrdTyped
  <2> QED BY <2>1, <2>2
<1>5. Bounded(s, d2)
  <2> SUFFICES ASSUME NEW r \in Process, NEW k \in Process PROVE d2[r][k] <= s[k]
    BY DEF Bounded
  <2>1. CASE r = p /\ k = q[id].from
    BY <2>1, <1>0, <1>3
  <2>2. CASE ~ (r = p /\ k = q[id].from)
    <3>1. d2[r][k] = d[r][k]
      BY <2>2, <1>0
    <3> QED BY <3>1, <1>4
  <2> QED BY <2>1, <2>2
<1>6. ASSUME NEW r \in Process
      PROVE  Len(l[r]) \in Nat /\ \A j \in 1 .. Len(l[r]) : l[r][j] \in 1 .. n
  <2>1. l[r] \in Seq(Nat)
    BY DEF OrdTyped
  <2>2. Len(l[r]) \in Nat
    BY <2>1, LenProperties
  <2>3. \A j \in 1 .. Len(l[r]) : l[r][j] \in 1 .. n
    BY <1>0 DEF OrdGood, Known
  <2> QED BY <2>2, <2>3
<1>7. ASSUME NEW i \in 1 .. c + 1, NEW e PROVE Before(l2[p], i, e) <=> Before(l[p], i, e)
  <2>1. \A j \in 1 .. i - 1 : l2[p][j] = l[p][j]
    BY <1>0
  <2> QED BY <2>1 DEF Before
<1>8. ASSUME NEW e PROVE Before(l2[p], c + 1 + 1, e) <=> (Before(l[p], c + 1, e) \/ e = id)
  <2>1. \A j \in 1 .. (c + 1 + 1) - 1 : j \in 1 .. c \/ j = c + 1
    BY <1>0
  <2>2. c + 1 \in 1 .. (c + 1 + 1) - 1 /\ \A j \in 1 .. (c + 1) - 1 : j \in 1 .. c
    BY <1>0
  <2>3. \A j \in 1 .. c : j \in 1 .. (c + 1) - 1 /\ j \in 1 .. (c + 1 + 1) - 1
    BY <1>0
  <2>4. ASSUME Before(l2[p], c + 1 + 1, e) PROVE Before(l[p], c + 1, e) \/ e = id
    <3>1. PICK j \in 1 .. (c + 1 + 1) - 1 : l2[p][j] = e
      BY <2>4 DEF Before
    <3> QED BY <3>1, <2>1, <2>3, <1>0 DEF Before
  <2>5. ASSUME Before(l[p], c + 1, e) PROVE Before(l2[p], c + 1 + 1, e)
    <3>1. PICK j \in 1 .. (c + 1) - 1 : l[p][j] = e
      BY <2>5 DEF Before
    <3> QED BY <3>1, <2>2, <2>3, <1>0 DEF Before
  <2>6. Before(l2[p], c + 1 + 1, id)
    BY <2>2, <1>0 DEF Before
  <2> QED BY <2>4, <2>5, <2>6
<1>9. ASSUME o # "total", NEW e \in 1 .. n, q[e].seq <= d[p][q[e].from]
      PROVE  Before(l[p], c + 1, e)
  BY <1>9, <1>0 DEF OrdGood, Known
<1>10. Known(o, q, l2, d2)
  <2> SUFFICES ASSUME NEW r \in Process
               PROVE  /\ \A j \in 1 .. Len(l2[r]) : l2[r][j] \in 1 .. n
                      /\ o # "total" => \A e \in 1 .. n :
                           q[e].seq <= d2[r][q[e].from] <=> Before(l2[r], Len(l2[r]) + 1, e)
    BY <1>0 DEF Known
  <2>1. CASE r # p
    BY <2>1, <1>0 DEF OrdGood, Known
  <2>2. CASE r = p
    <3>1. \A j \in 1 .. c + 1 : l2[p][j] \in 1 .. n
      BY <1>0, <1>1, <1>6
    <3>2. ASSUME o # "total", NEW e \in 1 .. n
          PROVE  q[e].seq <= d2[p][q[e].from] <=> Before(l2[p], c + 1 + 1, e)
      <4>1. q[e].seq <= d[p][q[e].from] <=> Before(l[p], c + 1, e)
        BY <3>2, <1>0 DEF OrdGood, Known
      <4>2. q[e].from \in Process /\ q[e].seq \in Nat /\ q[id].seq \in Nat
        BY <1>0, <1>2
      <4>3. CASE q[e].from # q[id].from
        <5>1. e # id /\ d2[p][q[e].from] = d[p][q[e].from]
          BY <4>2, <4>3, <1>0
        <5> QED BY <4>1, <5>1, <1>8
      <4>4. CASE q[e].from = q[id].from
        <5>1. d2[p][q[e].from] = q[id].seq /\ d[p][q[e].from] + 1 = q[id].seq
              /\ d[p][q[e].from] \in Nat
          BY <3>2, <4>2, <4>4, <1>0, <1>4
        <5>2. e = id <=> q[e].seq = q[id].seq
          <6>1. CASE e < id
            BY <6>1, <4>2, <4>4, <1>0, <1>3
          <6>2. CASE id < e
            BY <6>2, <4>2, <4>4, <1>0, <1>3
          <6>3. e = id \/ e < id \/ id < e
            BY <1>0
          <6> QED BY <6>1, <6>2, <6>3
        <5>3. q[e].seq <= d2[p][q[e].from] <=> (q[e].seq <= d[p][q[e].from] \/ e = id)
          BY <5>1, <5>2, <4>2
        <5> QED BY <4>1, <5>3, <1>8
      <4> QED BY <4>3, <4>4
    <3> QED BY <2>2, <3>1, <3>2, <1>0
  <2> QED BY <2>1, <2>2
<1>11. InTotal(o, l2)
  <2> SUFFICES ASSUME o = "total", NEW r \in Process, NEW i \in 1 .. Len(l2[r])
               PROVE  l2[r][i] = i
    BY DEF InTotal
  <2>1. CASE r # p
    BY <2>1, <1>0 DEF OrdGood, InTotal
  <2>2. CASE r = p
    BY <2>2, <1>0, <1>1 DEF OrdGood, InTotal
  <2> QED BY <2>1, <2>2
<1>12. InFifo(q, l2)
  <2> SUFFICES ASSUME NEW r \in Process, NEW i \in 1 .. Len(l2[r]), NEW e \in 1 .. n,
                      q[e].from = q[l2[r][i]].from, e < l2[r][i]
               PROVE  Before(l2[r], i, e)
    BY <1>0 DEF InFifo
  <2>1. CASE r # p
    BY <2>1, <1>0 DEF OrdGood, InFifo
  <2>2. CASE r = p /\ i \in 1 .. c
    <3>1. Before(l[p], i, e)
      BY <2>2, <1>0 DEF OrdGood, InFifo
    <3>2. i \in 1 .. c + 1
      BY <2>2, <1>0
    <3> QED BY <2>2, <3>1, <3>2, <1>7
  <2>3. CASE r = p /\ i = c + 1
    <3>1. q[e].from = q[id].from /\ e < id /\ c + 1 \in 1 .. c + 1
      BY <2>3, <1>0
    <3>2. CASE o = "total"
      <4>1. e \in 1 .. c
        BY <3>1, <3>2, <1>0
      <4>2. l[p][e] = e
        BY <3>2, <4>1, <1>0 DEF OrdGood, InTotal
      <4>3. Before(l[p], c + 1, e)
        BY <4>1, <4>2, <1>0 DEF Before
      <4> QED BY <2>3, <3>1, <4>3, <1>7
    <3>3. CASE o # "total"
      <4>1. q[e].seq < q[id].seq /\ q[e].seq \in Nat /\ d[p][q[e].from] \in Nat
        BY <3>1, <1>0, <1>2, <1>3, <1>4
      <4>2. q[e].seq <= d[p][q[e].from]
        BY <3>1, <3>3, <4>1, <1>0
      <4> QED BY <2>3, <3>1, <3>3, <4>2, <1>7, <1>9
    <3> QED BY <3>2, <3>3
  <2> QED BY <2>1, <2>2, <2>3, <1>0, <1>1
<1>13. Clocked(o, q, d2)
  <2> SUFFICES ASSUME o = "causal", NEW i \in 1 .. n, NEW k \in Process
               PROVE  q[i].clock[k] <= d2[q[i].from][k]
    BY <1>0 DEF Clocked
  <2>1. q[i].clock[k] <= d[q[i].from][k]
    BY <1>0 DEF OrdGood, Clocked
  <2>2. d[q[i].from][k] <= d2[q[i].from][k]
    <3>1. CASE q[i].from = p /\ k = q[id].from
      <4>1. d[p][k] + 1 = q[id].seq /\ d2[p][k] = q[id].seq /\ d[p][k] \in Nat
        BY <3>1, <1>0, <1>4
      <4> QED BY <3>1, <4>1
    <3>2. CASE ~ (q[i].from = p /\ k = q[id].from)
      <4>1. d2[q[i].from][k] = d[q[i].from][k] /\ d[q[i].from][k] \in Nat
        BY <3>2, <1>0, <1>2, <1>4
      <4> QED BY <4>1
    <3> QED BY <3>1, <3>2
  <2>3. q[i].clock[k] \in Nat /\ d[q[i].from][k] \in Nat /\ d2[q[i].from][k] \in Nat
    BY <1>2, <1>4
  <2> QED BY <2>1, <2>2, <2>3
<1>14. InCausal(o, l2, h)
  <2> SUFFICES ASSUME o = "causal", NEW r \in Process, NEW i \in 1 .. Len(l2[r]),
                      NEW e \in h[l2[r][i]]
               PROVE  Before(l2[r], i, e)
    BY DEF InCausal
  <2>1. CASE r # p
    BY <2>1, <1>0 DEF OrdGood, InCausal
  <2>2. CASE r = p /\ i \in 1 .. c
    <3>1. Before(l[p], i, e)
      BY <2>2, <1>0 DEF OrdGood, InCausal
    <3>2. i \in 1 .. c + 1
      BY <2>2, <1>0
    <3> QED BY <2>2, <3>1, <3>2, <1>7
  <2>3. CASE r = p /\ i = c + 1
    <3>1. e \in h[id] /\ c + 1 \in 1 .. c + 1
      BY <2>3, <1>0
    <3>2. /\ e \in 1 .. n /\ e < id
          /\ q[e].from = q[id].from \/ q[e].seq <= q[id].clock[q[e].from]
      BY <3>1, <1>0 DEF OrdGood, Tagged
    <3>3. /\ q[e].from \in Process /\ q[e].seq \in Nat /\ d[p][q[e].from] \in Nat
          /\ q[id].clock[q[e].from] \in Nat /\ q[id].seq \in Nat
      BY <3>2, <1>0, <1>2, <1>4
    <3>4. q[e].seq <= d[p][q[e].from]
      <4>1. CASE q[e].from = q[id].from
        BY <3>2, <3>3, <4>1, <1>0, <1>3
      <4>2. CASE q[e].from # q[id].from
        <5>1. d[p][q[e].from] >= q[id].clock[q[e].from]
          BY <3>3, <4>2 DEF OfferedOne
        <5> QED BY <3>2, <3>3, <4>2, <5>1
      <4> QED BY <4>1, <4>2
    <3> QED BY <2>3, <3>1, <3>2, <3>4, <1>7, <1>9
  <2> QED BY <2>1, <2>2, <2>3, <1>0, <1>1
<1>15. Numbered(q, s) /\ Tagged(o, q, h)
  BY DEF OrdGood
<1> QED BY <1>5, <1>10, <1>11, <1>12, <1>13, <1>14, <1>15 DEF OrdGood

(* `send` keeps the invariant. *)
LEMMA OrdSendStep ==
    ASSUME OrdInv, NEW p \in Process, ORD!Send(p)
    PROVE  OrdInv'
<1>1. PICK o \in {"fifo", "causal", "total"}, q \in Seq(OrdMessage),
           l \in [Process -> Seq(Nat)], s \in [Process -> Nat],
           d \in [Process -> [Process -> Nat]] :
           o = ord.order /\ q = ord.queue /\ l = ord.log /\ s = ord.sent /\ d = ord.delivered_from
  BY DEF OrdInv, OrdState
<1>2. PICK n \in Nat : n = Len(q)
  BY LenProperties
<1>3. PICK m : m = [from |-> p, seq |-> s[p] + 1, clock |-> d[p]]
  OBVIOUS
<1>m. m \in OrdMessage /\ m.from = p /\ m.seq = s[p] + 1 /\ m.clock = d[p]
  <2>1. s[p] + 1 \in Nat /\ d[p] \in [Process -> Nat]
    OBVIOUS
  <2> QED BY <1>3, <2>1 DEF OrdMessage
<1>4. PICK q2 : q2 = Append(q, m)
  OBVIOUS
<1>5. PICK s2 : s2 = [s EXCEPT ![p] = @ + 1]
  OBVIOUS
<1>6. q2 \in Seq(OrdMessage) /\ Len(q2) = n + 1 /\ (\A i \in 1 .. n : q2[i] = q[i]) /\ q2[n + 1] = m
  BY <1>2, <1>4, <1>m, OneMore
<1>7. s2 \in [Process -> Nat] /\ \A k \in Process : s2[k] = (IF k = p THEN s[p] + 1 ELSE s[k])
  BY <1>5
<1>8. ord' = [ord EXCEPT !.sent = s2, !.queue = q2]
  BY <1>1, <1>3, <1>4, <1>5 DEF ORD!Send, OrdInv, OrdState
<1>9. /\ ord' \in OrdState /\ ord'.order = o /\ ord'.queue = q2 /\ ord'.log = l /\ ord'.sent = s2
      /\ ord'.delivered_from = d
  BY <1>1, <1>6, <1>7, <1>8 DEF OrdInv, OrdState
<1>10. PICK seen : seen = ORD!Delivered(p) \cup ORD!SentBy(p)
  OBVIOUS
<1>11. l[p] \in Seq(Nat) /\ Len(l[p]) \in Nat /\ DOMAIN l[p] = 1 .. Len(l[p])
       /\ DOMAIN q = 1 .. n
  BY <1>2, LenProperties
<1>12. OrdGood(o, q, l, s, d, past) /\ past \in Seq(Pasts) /\ Len(past) = n
  BY <1>1, <1>2 DEF OrdInv
<1>h. PICK h \in Seq(Pasts) : h = past
  BY <1>12
<1>13. \A i \in seen : i \in 1 .. n /\ (Before(l[p], Len(l[p]) + 1, i) \/ q[i].from = p)
  <2>1. ASSUME NEW i \in ORD!SentBy(p) PROVE i \in 1 .. n /\ q[i].from = p
    BY <1>1, <1>11 DEF ORD!SentBy
  <2>2. ASSUME NEW i \in ORD!Delivered(p)
        PROVE  i \in 1 .. n /\ Before(l[p], Len(l[p]) + 1, i)
    <3>1. PICK j \in 1 .. Len(l[p]) : i = l[p][j]
      BY <1>1, <1>11 DEF ORD!Delivered
    <3>2. j \in 1 .. Len(l[p]) + 1 - 1
      BY <1>11
    <3>3. i \in 1 .. n
      BY <3>1, <1>2, <1>12 DEF OrdGood, Known
    <3> QED BY <3>1, <3>2, <3>3 DEF Before
  <2> QED BY <1>10, <2>1, <2>2
<1>14. PICK x : x = seen \cup UNION {past[i] : i \in seen}
  OBVIOUS
<1>15. x \in Pasts
  <2>1. \A i \in 1 .. n : past[i] \in Pasts
    BY <1>12, ElementOfSeq
  <2> QED BY <1>13, <1>14, <2>1 DEF Pasts
<1>16. past' = Append(past, x)
  BY <1>10, <1>14 DEF ORD!Send
<1>17. PICK h2 : h2 = past'
  OBVIOUS
<1>18. /\ h2 \in Seq(Pasts) /\ Len(h2) = n + 1 /\ (\A i \in 1 .. n : h2[i] = past[i])
       /\ h2[n + 1] = x
  <2>1. h2 = Append(h, x) /\ Len(h) = n
    BY <1>12, <1>h, <1>16, <1>17
  <2>2. /\ h2 \in Seq(Pasts) /\ Len(h2) = n + 1 /\ (\A i \in 1 .. n : h2[i] = h[i])
        /\ h2[n + 1] = x
    BY <1>2, <1>15, <2>1, OneMore
  <2> QED BY <1>h, <2>2
<1>19. \A e \in h2[n + 1] : \E i \in 1 .. n :
          /\ Before(l[p], Len(l[p]) + 1, i) \/ q[i].from = p
          /\ e = i \/ e \in past[i]
  <2> SUFFICES ASSUME NEW e \in x
               PROVE  \E i \in 1 .. n : /\ Before(l[p], Len(l[p]) + 1, i) \/ q[i].from = p
                                        /\ e = i \/ e \in past[i]
    BY <1>18
  <2>1. PICK i \in seen : e = i \/ e \in past[i]
    BY <1>14
  <2> QED BY <2>1, <1>13
<1>20. q2[n + 1].from = p /\ q2[n + 1].seq = s[p] + 1 /\ q2[n + 1].clock = d[p]
  BY <1>m, <1>6
<1>21. OrdGood(o, q2, l, s2, d, h2)
  <2>1. OrdTyped(q, l, s, d, h) /\ OrdTyped(q2, l, s2, d, h2)
    BY <1>2, <1>6, <1>7, <1>12, <1>h, <1>18 DEF OrdTyped
  <2>2. SentMore(q, l, s, d, h, p, n, q2, s2, h2)
    <3>1. Len(h2) = n + 1 /\ \A i \in 1 .. n : h2[i] = h[i]
      BY <1>h, <1>18, Zenon
    <3>2. \A e \in h2[n + 1] : \E i \in 1 .. n :
             /\ Before(l[p], Len(l[p]) + 1, i) \/ q[i].from = p
             /\ e = i \/ e \in h[i]
      BY <1>h, <1>19, Zenon
    <3>3. n \in Nat /\ n = Len(q) /\ Len(q2) = n + 1 /\ \A i \in 1 .. n : q2[i] = q[i]
      BY <1>2, <1>6, Zenon
    <3>4. \A k \in Process : s2[k] = (IF k = p THEN s[p] + 1 ELSE s[k])
      BY <1>7, Zenon
    <3> QED BY <1>20, <3>1, <3>2, <3>3, <3>4, Zenon DEF SentMore
  <2>3. OrdGood(o, q, l, s, d, h)
    BY <1>12, <1>h
  <2> QED BY <2>1, <2>2, <2>3, OrdSent
<1> QED BY <1>6, <1>9, <1>17, <1>18, <1>21 DEF OrdInv

(* `offer` keeps the invariant. *)
LEMMA OrdOfferStep ==
    ASSUME OrdInv, NEW p \in Process, NEW id \in DOMAIN ord.queue, ORD!Offer(id, p)
    PROVE  OrdInv'
<1>1. PICK o \in {"fifo", "causal", "total"}, q \in Seq(OrdMessage),
           l \in [Process -> Seq(Nat)], s \in [Process -> Nat],
           d \in [Process -> [Process -> Nat]] :
           o = ord.order /\ q = ord.queue /\ l = ord.log /\ s = ord.sent /\ d = ord.delivered_from
  BY DEF OrdInv, OrdState
<1>2. PICK n \in Nat : n = Len(q)
  BY LenProperties
<1>3. id \in 1 .. n /\ id \in Nat
  BY <1>1, <1>2, LenProperties
<1>4. PICK f \in Process, k \in Nat : f = q[id].from /\ k = q[id].seq
  BY <1>2, <1>3, OrdFields
<1>5. PICK c \in Nat : c = Len(l[p])
  BY LenProperties
<1>6. PICK g : g = Append(l[p], id)
  OBVIOUS
<1>7. /\ g \in Seq(Nat) /\ Len(g) = c + 1 /\ (\A j \in 1 .. c : g[j] = l[p][j])
      /\ g[c + 1] = id
  <2>1. l[p] \in Seq(Nat)
    OBVIOUS
  <2> QED BY <1>3, <1>5, <1>6, <2>1, OneMore
<1>8. PICK l2 : l2 = [l EXCEPT ![p] = g]
  OBVIOUS
<1>9. PICK d2 : d2 = [d EXCEPT ![p] = [d[p] EXCEPT ![f] = k]]
  OBVIOUS
<1>10. l2 \in [Process -> Seq(Nat)] /\ l2[p] = g /\ \A r \in Process : r # p => l2[r] = l[r]
  BY <1>7, <1>8
<1>11. /\ d2 \in [Process -> [Process -> Nat]] /\ (\A r \in Process : r # p => d2[r] = d[r])
       /\ \A j \in Process : d2[p][j] = (IF j = f THEN k ELSE d[p][j])
  BY <1>9
<1>12. ord' = [ord EXCEPT !.log = l2, !.delivered_from = d2] /\ UNCHANGED past
  BY <1>1, <1>4, <1>6, <1>8, <1>9 DEF ORD!Offer, OrdInv, OrdState
<1>13. /\ ord' \in OrdState /\ ord'.order = o /\ ord'.queue = q /\ ord'.log = l2 /\ ord'.sent = s
       /\ ord'.delivered_from = d2
  BY <1>1, <1>10, <1>11, <1>12 DEF OrdInv, OrdState
<1>14. ORD!Deliverable(id, p)
  BY DEF ORD!Offer
<1>15. /\ o # "total" => d[p][q[id].from] + 1 = q[id].seq
       /\ o = "causal" => \A j \in Process \ {q[id].from} : d[p][j] >= q[id].clock[j]
       /\ o = "total" => c + 1 = id
  BY <1>1, <1>5, <1>14 DEF ORD!Deliverable, ORD!NextOf
<1>16. OrdGood(o, q, l, s, d, past) /\ past \in Seq(Pasts) /\ Len(past) = n
  BY <1>1, <1>2 DEF OrdInv
<1>17. PICK h \in Seq(Pasts) : h = past
  BY <1>16
<1>18. OrdGood(o, q, l2, s, d2, h)
  <2>1. \A r \in Process : r # p => l2[r] = l[r] /\ d2[r] = d[r]
    BY <1>10, <1>11
  <2>2. Len(l2[p]) = c + 1 /\ (\A j \in 1 .. c : l2[p][j] = l[p][j]) /\ l2[p][c + 1] = id
    BY <1>7, <1>10
  <2>3. \A j \in Process : d2[p][j] = (IF j = q[id].from THEN q[id].seq ELSE d[p][j])
    BY <1>4, <1>11
  <2>4. OrdTyped(q, l, s, d, h) /\ OrdTyped(q, l2, s, d2, h)
    BY <1>2, <1>10, <1>11, <1>16, <1>17 DEF OrdTyped
  <2>5. OfferedOne(o, q, l, d, p, n, id, c, l2, d2)
    BY <1>2, <1>3, <1>5, <1>15, <2>1, <2>2, <2>3 DEF OfferedOne
  <2>6. OrdGood(o, q, l, s, d, h)
    BY <1>16, <1>17
  <2> QED BY <2>4, <2>5, <2>6, OrdOffered
<1> QED BY <1>2, <1>12, <1>13, <1>16, <1>17, <1>18 DEF OrdInv

(* In total order every log counts up from 1. *)
LEMMA CountingPrefix ==
    ASSUME NEW g \in Seq(Nat), NEW h \in Seq(Nat), Len(g) <= Len(h),
           \A i \in 1 .. Len(g) : g[i] = i, \A i \in 1 .. Len(h) : h[i] = i
    PROVE  ORD!IsPrefix(g, h)
<1>1. PICK c \in Nat : c = Len(g)
  BY LenProperties
<1>2. PICK t : t = SubSeq(h, 1, c)
  OBVIOUS
<1>3. Len(h) \in Nat /\ c <= Len(h) /\ c - 1 + 1 = c /\ \A j \in 1 .. c : 1 + j - 1 = j
  BY <1>1, LenProperties
<1>4. /\ t \in Seq(Nat) /\ Len(t) = c - 1 + 1
      /\ \A j \in 1 .. c - 1 + 1 : t[j] = h[1 + j - 1]
  BY <1>2, <1>3, PartOf
<1>5. Len(t) = c
  BY <1>3, <1>4
<1>6. ASSUME NEW j \in 1 .. c PROVE t[j] = g[j]
  <2>1. t[j] = h[j] /\ j \in 1 .. Len(h)
    BY <1>3, <1>4
  <2> QED BY <2>1, <1>1
<1>7. Len(t) = Len(g) /\ \A j \in 1 .. Len(t) : t[j] = g[j]
  BY <1>1, <1>5, <1>6
<1>8. t = g
  BY <1>4, <1>7, SeqEqual
<1> QED BY <1>1, <1>2, <1>8 DEF ORD!IsPrefix

(* OrderKept, for any processes and any number of messages: each of the    *)
(* three orders, whatever the network offers when and how often.           *)
THEOREM OrderKeptCorrect == ORD!Spec => []OrderKept
<1>1. ORD!Init => OrdInv
  <2> SUFFICES ASSUME ORD!Init PROVE OrdInv
    OBVIOUS
  <2>1. PICK o \in {"fifo", "causal", "total"} :
           ord = [order |-> o, queue |-> <<>>,
                  log |-> [p \in Process |-> <<>>], sent |-> [p \in Process |-> 0],
                  delivered_from |-> [p \in Process |-> [q \in Process |-> 0]]]
    BY DEF ORD!Init
  <2>2. past = <<>> /\ past \in Seq(Pasts)
    BY DEF ORD!Init
  <2>3. ord \in OrdState /\ ord.queue = <<>> /\ Len(ord.queue) = 0 /\ Len(past) = 0
    BY <2>1, <2>2 DEF OrdState
  <2>4. \A p \in Process : Len(ord.log[p]) = 0
    BY <2>1
  <2>5. \A p \in Process : ord.sent[p] = 0 /\ \A k \in Process : ord.delivered_from[p][k] = 0
    BY <2>1
  <2>6. 1 .. 0 = {}
    OBVIOUS
  <2> QED BY <2>2, <2>3, <2>4, <2>5, <2>6
       DEF OrdInv, OrdGood, Numbered, Bounded, Known, InFifo, Clocked, Tagged, InCausal, InTotal
<1>2. OrdInv /\ [ORD!Next]_(ORD!vars) => OrdInv'
  <2> SUFFICES ASSUME OrdInv, [ORD!Next]_(ORD!vars) PROVE OrdInv'
    OBVIOUS
  <2>1. CASE UNCHANGED ORD!vars
    BY <2>1 DEF ORD!vars, OrdInv
  <2> QED BY <2>1, OrdSendStep, OrdOfferStep, TopicsAssumption DEF ORD!Next
<1>3. OrdInv => OrderKept
  <2> SUFFICES ASSUME OrdInv PROVE ORD!OrderKept
    BY DEF OrderKept
  <2> DEFINE o == ord.order
             q == ord.queue
             l == ord.log
  <2>1. q \in Seq(OrdMessage) /\ l \in [Process -> Seq(Nat)]
    BY DEF OrdInv, OrdState
  <2>2. PICK n \in Nat : n = Len(q)
    BY <2>1, LenProperties
  <2>3. Known(o, q, l, ord.delivered_from) /\ InFifo(q, l) /\ InCausal(o, l, past) /\ InTotal(o, l)
    BY DEF OrdInv, OrdGood
  <2>4. DOMAIN q = 1 .. n
    BY <2>1, <2>2, LenProperties
  <2>5. ASSUME NEW p \in Process, NEW i \in DOMAIN l[p]
        PROVE  /\ \A e \in ORD!SentBy(q[l[p][i]].from) : e < l[p][i] =>
                      e \in {l[p][j] : j \in 1 .. i - 1}
               /\ o = "causal" => past[l[p][i]] \subseteq {l[p][j] : j \in 1 .. i - 1}
    <3>1. i \in 1 .. Len(l[p])
      BY <2>1, <2>5, LenProperties
    <3>2. \A e : Before(l[p], i, e) => e \in {l[p][j] : j \in 1 .. i - 1}
      BY DEF Before
    <3>3. ASSUME NEW e \in ORD!SentBy(q[l[p][i]].from), e < l[p][i]
          PROVE  e \in {l[p][j] : j \in 1 .. i - 1}
      <4>1. e \in 1 .. n /\ q[e].from = q[l[p][i]].from
        BY <3>3, <2>4 DEF ORD!SentBy
      <4>2. Before(l[p], i, e)
        BY <3>1, <3>3, <4>1, <2>2, <2>3 DEF InFifo
      <4> QED BY <3>2, <4>2
    <3>4. ASSUME o = "causal", NEW e \in past[l[p][i]]
          PROVE  e \in {l[p][j] : j \in 1 .. i - 1}
      <4>1. Before(l[p], i, e)
        BY <3>1, <3>4, <2>3 DEF InCausal
      <4> QED BY <3>2, <4>1
    <3> QED BY <3>3, <3>4
  <2>6. ASSUME o = "total", NEW p \in Process, NEW r \in Process
        PROVE  ORD!IsPrefix(l[p], l[r]) \/ ORD!IsPrefix(l[r], l[p])
    <3>1. Len(l[p]) <= Len(l[r]) \/ Len(l[r]) <= Len(l[p])
      BY <2>1, LenProperties
    <3>2. /\ l[p] \in Seq(Nat) /\ \A i \in 1 .. Len(l[p]) : l[p][i] = i
          /\ l[r] \in Seq(Nat) /\ \A i \in 1 .. Len(l[r]) : l[r][i] = i
      BY <2>1, <2>3, <2>6 DEF InTotal
    <3> QED BY <3>1, <3>2, CountingPrefix
  <2>7. \A p \in Process : \A i \in DOMAIN l[p] :
           LET before == {l[p][j] : j \in 1 .. i - 1}
               id == l[p][i]
           IN  /\ \A e \in ORD!SentBy(q[id].from) : e < id => e \in before
               /\ o = "causal" => past[id] \subseteq before
    BY <2>5
  <2>8. o = "total" => \A p, r \in Process : ORD!IsPrefix(l[p], l[r]) \/ ORD!IsPrefix(l[r], l[p])
    BY <2>6
  <2> QED BY <2>7, <2>8 DEF ORD!OrderKept
<1> QED BY <1>1, <1>2, <1>3, PTL DEF ORD!Spec
=============================================================================
