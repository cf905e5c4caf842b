------------------------------- MODULE Paxos -------------------------------
(***************************************************************************)
(* The reference single-decree Paxos (disttest/examples/alg/paxos.rs,      *)
(* topic paxos): its acceptors, and several proposers that run the         *)
(* proposer half against them over a network that may lose, delay, repeat  *)
(* and reorder everything.                                                 *)
(*                                                                         *)
(* Each command that changes state is an action.  What carries a proposal  *)
(* from one command to the next is outside the repository and marked       *)
(* external: a proposer takes a number nobody used before, a promise       *)
(* reaches the proposal it answers, and a ready proposer sends its accept  *)
(* once.                                                                   *)
(***************************************************************************)
EXTENDS Integers, FiniteSets

CONSTANTS
    Acceptor,   \* a1 .. a<n>
    Proposer,   \* processes that run the proposer half
    Value,      \* single words
    None,       \* the null of last_value
    MaxNumber,  \* bound: proposal numbers
    Proposals   \* who may propose what: <<proposer, number, value>>

ASSUME PaxosAssumption == IsFiniteSet(Acceptor) /\ None \notin Value /\ MaxNumber \in Nat

VARIABLES
    acceptor,   \* struct Acceptor, per acceptor; last_n is -1 for None
    proposer,   \* struct Proposer, per process
    msgs,       \* every message ever sent; a delivery does not remove it
    accepts     \* history: every acceptance, as <<acceptor, n, value>>

paxosVars == <<acceptor, proposer, msgs, accepts>>

Number == 1 .. MaxNumber

AcceptorState ==
    [promised_n : Nat, last_n : Nat \cup {-1}, last_value : Value \cup {None}]

(* What a promise reports: the highest proposal its acceptor accepted. *)
Report == [from : Acceptor, last_n : Nat \cup {-1}, last_value : Value \cup {None}]

(* promises is keyed by acceptor, so one that answers twice counts once. *)
ProposerState == [n : Nat, own_value : Value \cup {None}, promises : SUBSET Report]

Message ==
    [type : {"prepare"}, n : Nat]
    \cup [type : {"promise"}, n : Nat, report : Report]
    \cup [type : {"accept"}, n : Nat, value : Value]

NoProposal == [n |-> 0, own_value |-> None, promises |-> {}]

Majority == (Cardinality(Acceptor) \div 2) + 1

(* The promises that reported an accepted proposal. *)
Reports(p) == {r \in p.promises : r.last_n >= 0}

(* Faulty variant: the own value is kept although a promise reported one. *)
OwnValue(p) == p.own_value

(* The value of the highest-numbered proposal among the promises, and the  *)
(* proposer's own only when no promise reported one.                       *)
ProposerValue(p) ==
    IF Reports(p) = {} THEN p.own_value
    ELSE (CHOOSE r \in Reports(p) : \A q \in Reports(p) : q.last_n <= r.last_n).last_value

Ready(p) == p.n # 0 /\ Cardinality(p.promises) >= Majority

Send(m) == msgs' = msgs \cup {m}

Init ==
    /\ acceptor = [a \in Acceptor |-> [promised_n |-> 0, last_n |-> -1, last_value |-> None]]
    /\ proposer = [p \in Proposer |-> NoProposal]
    /\ msgs = {}
    /\ accepts = {}
-----------------------------------------------------------------------------
(* `propose <n> <value>`: a new proposal replaces the process's last one,  *)
(* promises and all.  Its number was never used before.                    *)
Propose(p, n, v) ==
    /\ <<p, n, v>> \in Proposals
    /\ \A m \in msgs : m.n # n
    /\ proposer' = [proposer EXCEPT ![p] =
                      [n |-> n, own_value |-> v, promises |-> {}]]
    /\ Send([type |-> "prepare", n |-> n])
    /\ UNCHANGED <<acceptor, accepts>>

(* `prepare <acceptor> <n>`: promised only when n is strictly higher.  A   *)
(* refusal changes nothing and is no promise.                              *)
Prepare(a, m) ==
    /\ m.type = "prepare"
    /\ m.n > acceptor[a].promised_n
    /\ acceptor' = [acceptor EXCEPT ![a].promised_n = m.n]
    /\ Send([type |-> "promise", n |-> m.n,
             report |-> [from |-> a, last_n |-> acceptor[a].last_n,
                         last_value |-> acceptor[a].last_value]])
    /\ UNCHANGED <<proposer, accepts>>

(* The proposal n has gone on to its accept. *)
AcceptSent(n) == \E m \in msgs : m.type = "accept" /\ m.n = n

(* `promise <acceptor> <last_n> <last_value>`: the latest report of an     *)
(* acceptor replaces its earlier one.                                      *)
Promise(p, m) ==
    /\ m.type = "promise"
    /\ m.n = proposer[p].n /\ ~AcceptSent(m.n)
    /\ proposer' = [proposer EXCEPT ![p].promises =
                      {r \in @ : r.from # m.report.from} \cup {m.report}]
    /\ UNCHANGED <<acceptor, msgs, accepts>>

(* A proposer whose `ready` is true sends its value to the acceptors, once *)
(* for its number: later promises would change the value.                  *)
SendAccept(p) ==
    /\ Ready(proposer[p])
    /\ ~AcceptSent(proposer[p].n)
    /\ Send([type |-> "accept", n |-> proposer[p].n, value |-> ProposerValue(proposer[p])])
    /\ UNCHANGED <<acceptor, proposer, accepts>>

(* Faulty variant: accepting does not look at what was promised.           *)
AcceptAnything(a, m) ==
    /\ m.type = "accept"
    /\ acceptor' = [acceptor EXCEPT ![a] =
                      [promised_n |-> m.n, last_n |-> m.n, last_value |-> m.value]]
    /\ accepts' = accepts \cup {<<a, m.n, m.value>>}
    /\ UNCHANGED <<proposer, msgs>>

(* Faulty variant: an accept must be above what was promised.              *)
AcceptOnlyAbove(a, m) == m.n > acceptor[a].promised_n /\ AcceptAnything(a, m)

(* `accept <acceptor> <n> <value>`: taken at the promised number or above, *)
(* and a promise at once.                                                  *)
Accept(a, m) ==
    /\ m.type = "accept"
    /\ m.n >= acceptor[a].promised_n
    /\ acceptor' = [acceptor EXCEPT ![a] =
                      [promised_n |-> m.n, last_n |-> m.n, last_value |-> m.value]]
    /\ accepts' = accepts \cup {<<a, m.n, m.value>>}
    /\ UNCHANGED <<proposer, msgs>>

(* Everything that goes on once a proposal is made. *)
Deliver ==
    \/ \E p \in Proposer : SendAccept(p) \/ \E m \in msgs : Promise(p, m)
    \/ \E a \in Acceptor, m \in msgs : Prepare(a, m) \/ Accept(a, m)

Next ==
    \/ \E p \in Proposer, n \in Number, v \in Value : Propose(p, n, v)
    \/ Deliver

Spec == Init /\ [][Next]_paxosVars

(* While a message can still have an effect, or a ready proposer go on,    *)
(* something happens.  Nobody has to propose, or to stay with a proposal.  *)
Fairness == WF_paxosVars(Deliver)

FairSpec == Spec /\ Fairness
-----------------------------------------------------------------------------
TypeOK ==
    /\ acceptor \in [Acceptor -> AcceptorState]
    /\ proposer \in [Proposer -> ProposerState]
    /\ msgs \subseteq Message
    /\ accepts \subseteq Acceptor \X Nat \X Value

(* The acceptors that accepted v as proposal n, at any time. *)
Voters(n, v) == {a \in Acceptor : <<a, n, v>> \in accepts}

(* A value is chosen when a majority accepted it under one number. *)
Chosen == {v \in Value : \E n \in Number : Cardinality(Voters(n, v)) >= Majority}

(* The acceptors whose last accepted proposal is n. *)
Holders(n) == {a \in Acceptor : acceptor[a].last_n = n}

(* Faulty variant: one acceptor short of a majority is enough to learn. *)
LearnedByFewer == {n \in Number : Cardinality(Holders(n)) >= Majority - 1}

(* `learn`: the highest number a majority holds right now. *)
LearnedNumbers == {n \in Number : Cardinality(Holders(n)) >= Majority}
Learned ==
    IF LearnedNumbers = {} THEN {}
    ELSE LET n == CHOOSE k \in LearnedNumbers : \A j \in LearnedNumbers : j <= k
         IN  {acceptor[CHOOSE a \in Holders(n) : TRUE].last_value}

(* Agreement: proposals that overlap in any order, with promises and       *)
(* accepts lost, late or repeated, never choose two values.                *)
Agreement == Cardinality(Chosen) <= 1

(* "a chosen value cannot be changed by a later proposal": whatever is     *)
(* proposed above a chosen number carries the chosen value.                *)
LaterProposalsKeepValue ==
    \A n \in Number, v \in Value :
        Cardinality(Voters(n, v)) >= Majority =>
            \A m \in msgs : m.type = "accept" /\ m.n > n => m.value = v

(* What `learn` answers is what was chosen, never another value.           *)
LearnOnlyChosen == Learned \subseteq Chosen

(* A chosen value is final: no second one is chosen, no later proposal     *)
(* carries another, and no learner is told of another.                     *)
ChosenIsFinal == Agreement /\ LaterProposalsKeepValue /\ LearnOnlyChosen

(* "Has a majority accepted one and the same proposal number?": once it    *)
(* has, `learn` says so.                                                   *)
LearnFindsChosen == Chosen # {} => Learned # {}

(* Duelling proposers can starve each other, but one that nobody overtakes *)
(* and that stays with its proposal gets a value chosen.                   *)
UnrivalledProposerChooses ==
    <>[](\E p \in Proposer : proposer[p].n = MaxNumber) => <>(Chosen # {})

C == INSTANCE Consensus WITH chosen <- Chosen

(* Paxos implements Consensus: the set of chosen values goes from none to  *)
(* one and stays.                                                          *)
ImplementsConsensus == C!Spec
=============================================================================
