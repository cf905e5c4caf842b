----------------------------- MODULE ThreePhase -----------------------------
(***************************************************************************)
(* The reference three-phase commit (disttest/examples/alg/commit.rs,      *)
(* topic three-phase-commit): the pre-commit round, a network that splits  *)
(* and heals, and participants that always decide when they time out.      *)
(***************************************************************************)
EXTENDS Integers, FiniteSets

CONSTANT Participant

VARIABLES
    tx,      \* struct ThreePhase; an absent vote or decision is "none"
    hasty    \* history: a prepared participant gave up although the round could go on

vars == <<tx, hasty>>

Init ==
    /\ tx = [state |-> "init", decision |-> "none", broadcast |-> FALSE, up |-> TRUE,
             votes |-> [p \in Participant |-> "none"],
             p_state |-> [p \in Participant |-> "working"],
             acks |-> {}, cut_off |-> {}, split |-> FALSE]
    /\ hasty = FALSE

Reachable(p) == ~tx.split \/ p \notin tx.cut_off

Majority == (Cardinality(Participant) \div 2) + 1

(* Faulty variant: nobody has said no. *)
NoneSaidNo == \A p \in Participant : tx.votes[p] # "no"

AllYes == Participant # {} /\ \A p \in Participant : tx.votes[p] = "yes"

Undecided(p) == tx.p_state[p] \notin {"committed", "aborted"}
-----------------------------------------------------------------------------
(* `vote`: the first no is a decision, and is broadcast at once. *)
Vote(p, v) ==
    /\ tx.votes[p] = "none"
    /\ LET voted == [tx EXCEPT !.votes[p] = v,
                       !.p_state[p] = IF v = "yes" THEN "prepared" ELSE "aborted",
                       !.state = IF @ = "init" THEN "voting" ELSE @]
       IN  tx' = IF v = "no" /\ tx.decision = "none"
                 THEN [voted EXCEPT !.decision = "abort", !.state = "aborted",
                                    !.broadcast = TRUE]
                 ELSE voted
    /\ UNCHANGED hasty

PreCommit ==
    /\ tx.up /\ AllYes
    /\ tx' = [tx EXCEPT !.state = "pre-committed"]
    /\ UNCHANGED hasty

PPrecommit(p) ==
    /\ tx.state = "pre-committed" /\ Reachable(p) /\ tx.p_state[p] = "prepared"
    /\ tx' = [tx EXCEPT !.p_state[p] = "pre-committed"]
    /\ UNCHANGED hasty

Ack(p) ==
    /\ tx.p_state[p] = "pre-committed" /\ Reachable(p)
    /\ tx' = [tx EXCEPT !.acks = @ \cup {p}]
    /\ UNCHANGED hasty

Commit ==
    /\ tx.up /\ tx.state = "pre-committed"
    /\ Cardinality(tx.acks) >= Majority
    /\ tx' = [tx EXCEPT !.decision = "commit", !.state = "committed", !.broadcast = TRUE]
    /\ UNCHANGED hasty

Deliver(p) ==
    /\ tx.broadcast /\ tx.decision # "none" /\ Reachable(p) /\ Undecided(p)
    /\ tx' = [tx EXCEPT !.p_state[p] =
                IF tx.decision = "commit" THEN "committed" ELSE "aborted"]
    /\ UNCHANGED hasty

(* `p-timeout`: pre-committed goes on to commit, prepared aborts and keeps *)
(* its yes, and one that has not voted aborts with a no.                   *)
PTimeout(p) ==
    /\ Undecided(p)
    /\ CASE tx.p_state[p] = "pre-committed" ->
              tx' = [tx EXCEPT !.p_state[p] = "committed"] /\ UNCHANGED hasty
         [] tx.p_state[p] = "prepared" ->
              /\ tx' = [tx EXCEPT !.p_state[p] = "aborted"]
              /\ hasty' = (hasty \/ (tx.decision # "abort"
                                     /\ (tx.up \/ tx.state = "pre-committed"
                                         \/ tx.state = "committed")))
         [] tx.p_state[p] = "working" ->
              /\ tx' = [tx EXCEPT !.p_state[p] = "aborted",
                                  !.votes[p] = IF @ = "none" THEN "no" ELSE @]
              /\ UNCHANGED hasty

Crash ==
    /\ tx.up
    /\ tx' = [tx EXCEPT !.up = FALSE]
    /\ UNCHANGED hasty

Partition(group) ==
    /\ tx' = [tx EXCEPT !.cut_off = group, !.split = TRUE]
    /\ UNCHANGED hasty

Heal ==
    /\ tx' = [tx EXCEPT !.cut_off = {}, !.split = FALSE]
    /\ UNCHANGED hasty

Next ==
    \/ PreCommit \/ Commit \/ Crash \/ Heal
    \/ \E group \in SUBSET Participant : Partition(group)
    \/ \E p \in Participant :
          \/ \E v \in {"yes", "no"} : Vote(p, v)
          \/ PPrecommit(p) \/ Ack(p) \/ Deliver(p) \/ PTimeout(p)

Spec == Init /\ [][Next]_vars

(* A participant whose timer runs decides in the end. *)
FairSpec == Spec /\ \A p \in Participant : WF_vars(PTimeout(p))
-----------------------------------------------------------------------------
TypeOK ==
    /\ tx.acks \subseteq Participant
    /\ tx.p_state \in [Participant ->
            {"working", "prepared", "pre-committed", "committed", "aborted"}]

(* "a *partially delivered* pre-commit diverges on its own": the only way  *)
(* to two decisions is a prepared participant that times out while the     *)
(* coordinator is up, or once the pre-commit round has begun.  Neither a   *)
(* partition nor a coordinator crash splits the participants without it.   *)
SplitNeedsHaste ==
    ~hasty => \A p, q \in Participant :
                  ~(tx.p_state[p] = "committed" /\ tx.p_state[q] = "aborted")
=============================================================================
