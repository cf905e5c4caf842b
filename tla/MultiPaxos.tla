----------------------------- MODULE MultiPaxos -----------------------------
(***************************************************************************)
(* The reference Multi-Paxos leader (disttest/examples/alg/paxos.rs, topic *)
(* multi-paxos): one prepare for every slot, preemption, and acceptances   *)
(* that may arrive after either.                                           *)
(***************************************************************************)
EXTENDS Integers, FiniteSets

CONSTANTS
    Acceptor,
    Value,
    MaxBallot,   \* bound: ballots
    MaxSlot      \* bound: slots

VARIABLES
    mp,        \* struct MultiPaxos; a slot without a proposal has no value
    applied    \* history: what a state machine that follows `applied` executed

vars == <<mp, applied>>

NoValue == "none"
Slot == 1 .. MaxSlot
Ballot == 1 .. MaxBallot

Init ==
    /\ mp = [promised |-> [a \in Acceptor |-> 0], ballot |-> 0, leader |-> FALSE,
             ever_leader |-> FALSE,
             slots |-> [i \in Slot |-> [value |-> NoValue, ballot |-> 0,
                                        accepted_by |-> {}, chosen |-> FALSE]]]
    /\ applied = <<>>

Majority == (Cardinality(Acceptor) \div 2) + 1

Raised(n) == [a \in Acceptor |-> IF n > mp.promised[a] THEN n ELSE mp.promised[a]]

(* MultiPaxos::progress: the slots up to the first that is not chosen. *)
Progress(slots) ==
    CHOOSE k \in 0 .. MaxSlot :
        /\ \A i \in 1 .. k : slots[i].chosen
        /\ k < MaxSlot => ~slots[k + 1].chosen

Executed(slots) ==
    applied' = [i \in 1 .. Progress(slots) |->
                  IF i \in DOMAIN applied THEN applied[i] ELSE slots[i].value]
-----------------------------------------------------------------------------
(* `prepare`: a majority of promises makes a leader, fewer leave the       *)
(* leadership as it is.                                                    *)
Prepare(n) ==
    /\ LET won == Cardinality({a \in Acceptor : n > mp.promised[a]}) >= Majority
       IN  mp' = [mp EXCEPT !.promised = Raised(n), !.leader = @ \/ won,
                            !.ever_leader = @ \/ won, !.ballot = IF won THEN n ELSE @]
    /\ UNCHANGED applied

(* Faulty variant: a chosen slot is proposed for like any other. *)
ProposeOver(i, v) ==
    /\ mp.leader
    /\ mp' = [mp EXCEPT !.slots[i] =
                [value |-> v, ballot |-> mp.ballot, chosen |-> @.chosen,
                 accepted_by |-> IF @.ballot # mp.ballot THEN {} ELSE @.accepted_by]]
    /\ UNCHANGED applied

(* `propose`: a new ballot starts the count again; a chosen slot is final. *)
Propose(i, v) ==
    /\ mp.leader /\ ~mp.slots[i].chosen
    /\ mp' = [mp EXCEPT !.slots[i] =
                [value |-> v, ballot |-> mp.ballot, chosen |-> FALSE,
                 accepted_by |-> IF @.ballot # mp.ballot THEN {} ELSE @.accepted_by]]
    /\ UNCHANGED applied

(* `accepted`: whatever ballot the acceptor answered. *)
Accepted(i, a) ==
    /\ mp.slots[i].value # NoValue
    /\ LET by == mp.slots[i].accepted_by \cup {a}
       IN  mp' = [mp EXCEPT !.slots[i].accepted_by = by,
                            !.slots[i].chosen = @ \/ Cardinality(by) >= Majority]
    /\ Executed(mp'.slots)

(* `preempt`: only a strictly higher ballot takes the leadership. *)
Preempt(n) ==
    /\ mp' = [mp EXCEPT !.promised = Raised(n), !.leader = @ /\ n <= mp.ballot]
    /\ UNCHANGED applied

Next ==
    \/ \E n \in Ballot : Prepare(n) \/ Preempt(n)
    \/ \E i \in Slot : \/ \E v \in Value : Propose(i, v)
                       \/ \E a \in Acceptor : Accepted(i, a)

Spec == Init /\ [][Next]_vars
-----------------------------------------------------------------------------
(* A replica never has to undo what it applied, and never runs past a gap: *)
(* new leaders, late acceptances and repeated proposals leave the applied  *)
(* prefix as it was.  A leader's ballot is one that no acceptor has passed.*)
AppliedStands ==
    /\ \A i \in DOMAIN applied : mp.slots[i].chosen /\ mp.slots[i].value = applied[i]
    /\ mp.leader => \A a \in Acceptor : mp.promised[a] <= mp.ballot
=============================================================================
