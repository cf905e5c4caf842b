------------------------------ MODULE TwoPhase ------------------------------
(***************************************************************************)
(* The reference two-phase commit (disttest/examples/alg/commit.rs, topic  *)
(* two-phase-commit): one transaction, its coordinator and participants.   *)
(* Commands arrive in any order: votes may be late, the decision may reach *)
(* some participants only, the coordinator may crash anywhere.             *)
(***************************************************************************)
EXTENDS FiniteSets

CONSTANTS
    Participant,
    ByTheBook   \* do participants ask their peers only once the coordinator is
                \* down, and vote only while they have not been told to abort?

VARIABLE tx        \* struct TwoPhase; an absent vote or decision is "none"

Init ==
    tx = [state |-> "init", decision |-> "none", broadcast |-> FALSE, up |-> TRUE,
          votes |-> [p \in Participant |-> "none"],
          p_state |-> [p \in Participant |-> "working"]]

Decision(s) == IF s = "committed" THEN "commit" ELSE IF s = "aborted" THEN "abort" ELSE "none"

(* PState of a decision. *)
Settled(d) == IF d = "commit" THEN "committed" ELSE "aborted"

(* Faulty variant: nobody has said no, so everybody agrees. *)
ReconsiderUnanimous(t) ==
    IF t.decision # "none" THEN t
    ELSE IF \E p \in Participant : t.votes[p] = "no"
         THEN [t EXCEPT !.decision = "abort", !.state = "aborted"]
         ELSE [t EXCEPT !.decision = "commit", !.state = "committed"]

(* TwoPhase::reconsider: one no aborts, commit needs every vote. *)
Reconsider(t) ==
    IF t.decision # "none" THEN t
    ELSE IF \E p \in Participant : t.votes[p] = "no"
         THEN [t EXCEPT !.decision = "abort", !.state = "aborted"]
    ELSE IF Participant # {} /\ \A p \in Participant : t.votes[p] # "none"
         THEN [t EXCEPT !.decision = "commit", !.state = "committed"]
    ELSE t
-----------------------------------------------------------------------------
Prepare ==
    /\ tx.up /\ tx.state = "init"
    /\ tx' = [tx EXCEPT !.state = "preparing"]

(* `vote`: the first one stands, and a yes gives up the right to abort. *)
Vote(p, v) ==
    /\ tx.votes[p] = "none"
    /\ ByTheBook => tx.p_state[p] = "working"
    /\ tx' = Reconsider([tx EXCEPT !.votes[p] = v,
                           !.p_state[p] = IF v = "yes" THEN "prepared" ELSE "aborted"])

Decide ==
    /\ tx.up /\ tx.decision # "none"
    /\ tx' = [tx EXCEPT !.broadcast = TRUE]

(* `deliver`: settle, unless the participant has settled already. *)
Deliver(p) ==
    /\ tx.broadcast /\ tx.decision # "none"
    /\ Decision(tx.p_state[p]) = "none"
    /\ tx' = [tx EXCEPT !.p_state[p] = Settled(tx.decision)]

(* It has promised nothing: it aborts, and its vote is a no. *)
GiveUp(p) ==
    /\ tx.p_state[p] = "working"
    /\ tx' = Reconsider([tx EXCEPT !.p_state[p] = "aborted",
                           !.votes[p] = IF @ = "none" THEN "no" ELSE @])

(* `p-timeout`: a prepared participant is blocked. *)
PTimeout(p) == GiveUp(p)

(* `p-consult`: a peer's decision, or abort when a peer has not voted; with*)
(* every peer prepared asking around teaches nothing.                      *)
PConsult(p) ==
    /\ ByTheBook => ~tx.up
    /\ \/ GiveUp(p)
       \/ /\ tx.p_state[p] = "prepared"
          /\ LET peers == Participant \ {p}
                 decided == {q \in peers : Decision(tx.p_state[q]) # "none"}
             IN  IF decided # {}
                 THEN \E q \in decided : tx' = [tx EXCEPT !.p_state[p] = tx.p_state[q]]
                 ELSE /\ \E q \in peers : tx.p_state[q] = "working"
                      /\ tx' = [tx EXCEPT !.p_state[p] = "aborted"]

Crash ==
    /\ tx.up
    /\ tx' = [tx EXCEPT !.up = FALSE]

Next ==
    \/ Prepare \/ Decide \/ Crash
    \/ \E p \in Participant :
          \/ \E v \in {"yes", "no"} : Vote(p, v)
          \/ Deliver(p) \/ PTimeout(p) \/ PConsult(p)

Spec == Init /\ [][Next]_tx
-----------------------------------------------------------------------------
Tx == [state : {"init", "preparing", "committed", "aborted"},
       decision : {"none", "commit", "abort"}, broadcast : BOOLEAN, up : BOOLEAN,
       votes : [Participant -> {"none", "yes", "no"}],
       p_state : [Participant -> {"working", "prepared", "committed", "aborted"}]]

TypeOK == tx \in Tx

(* What makes the decision one: a commit has every yes and is on its way   *)
(* before anybody commits, and whoever has aborted knows that no commit    *)
(* can reach anyone.                                                       *)
DecisionInv ==
    /\ tx.broadcast => tx.decision # "none"
    /\ tx.decision = "commit" => \A p \in Participant : tx.votes[p] = "yes"
    /\ \A p \in Participant :
          /\ tx.p_state[p] = "working" => tx.votes[p] = "none"
          /\ tx.p_state[p] = "committed" => tx.decision = "commit" /\ tx.broadcast
          /\ tx.p_state[p] = "aborted" =>
                 tx.decision = "abort" \/ (~tx.up /\ ~tx.broadcast)

TC == INSTANCE TCommit WITH outcome <- tx.p_state

(* Two-phase commit implements atomic commit, whichever votes are cast,    *)
(* whoever times out or asks its peers, and wherever the coordinator dies. *)
ImplementsTCommit == TC!Spec

(* "seeded vote orders and crash points never split the participants"      *)
NeverSplit == TC!Consistent
=============================================================================
