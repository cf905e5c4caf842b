--------------------------- MODULE RaftMembership ---------------------------
(***************************************************************************)
(* The reference membership changes (disttest/examples/alg/raft.rs, topic  *)
(* raft-membership): joint consensus and single-server changes.  A member  *)
(* list is the set of its names.                                           *)
(***************************************************************************)
EXTENDS Integers, FiniteSets

CONSTANTS
    Server,
    Start      \* the members `init` names

VARIABLES
    config,    \* struct Membership
    settled    \* history: the configuration that was committed last

vars == <<config, settled>>

Init ==
    /\ config = [phase |-> "stable", members |-> Start, old |-> {}, new |-> {}]
    /\ settled = config

QuorumOf(members) == (Cardinality(members) \div 2) + 1

Carries(voters, members) == Cardinality(members \cap voters) >= QuorumOf(members)

(* `agree`: in the joint phase a majority of both configurations. *)
Agree(c, voters) ==
    IF c.phase = "joint" THEN Carries(voters, c.old) /\ Carries(voters, c.new)
    ELSE Carries(voters, c.members)
-----------------------------------------------------------------------------
Joint(new) ==
    /\ new # {} /\ config.phase = "stable"
    /\ config' = [config EXCEPT !.phase = "joint", !.old = config.members, !.new = new]
    /\ UNCHANGED settled

CommitJoint ==
    /\ config.phase = "joint"
    /\ config' = [config EXCEPT !.phase = "new", !.members = config.new]
    /\ settled' = config

CommitNew ==
    /\ config.phase = "new"
    /\ config' = [config EXCEPT !.phase = "stable", !.old = {}, !.new = {}]
    /\ settled' = config'

(* Faulty variant: a change that is still in flight does not stop the next. *)
AddInFlight(s) ==
    /\ config.phase \in {"stable", "pending"} /\ s \notin config.members
    /\ config' = [config EXCEPT !.phase = "pending", !.members = @ \cup {s}]
    /\ UNCHANGED settled

Add(s) ==
    /\ config.phase = "stable" /\ s \notin config.members
    /\ config' = [config EXCEPT !.phase = "pending", !.members = @ \cup {s}]
    /\ UNCHANGED settled

(* The last member cannot be removed. *)
Remove(s) ==
    /\ config.phase = "stable" /\ s \in config.members /\ config.members # {s}
    /\ config' = [config EXCEPT !.phase = "pending", !.members = @ \ {s}]
    /\ UNCHANGED settled

CommitChange ==
    /\ config.phase = "pending"
    /\ config' = [config EXCEPT !.phase = "stable"]
    /\ settled' = config'

Next ==
    \/ CommitJoint \/ CommitNew \/ CommitChange
    \/ \E new \in SUBSET Server : Joint(new)
    \/ \E s \in Server : Add(s) \/ Remove(s)

Spec == Init /\ [][Next]_vars
-----------------------------------------------------------------------------
TypeOK ==
    /\ config \in [phase : {"stable", "joint", "new", "pending"}, members : SUBSET Server,
                   old : SUBSET Server, new : SUBSET Server]
    /\ config.members # {}

(* "it is what stops C_old and C_new electing two leaders in one term":    *)
(* while a change is under way, voters that carry a decision in it and     *)
(* voters that carry one in the configuration that was committed last,     *)
(* which some servers still follow, share a server, whichever servers come *)
(* and go.  One change has to wait for the other for that.                 *)
DecisionsOverlap ==
    config.phase # "stable" =>
        \A V, W \in SUBSET Server :
            Agree(settled, V) /\ Agree(config, W) => V \cap W # {}
=============================================================================
