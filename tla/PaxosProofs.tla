----------------------------- MODULE PaxosProofs -----------------------------
(***************************************************************************)
(* Single-decree Paxos chooses one value, for every finite set of          *)
(* acceptors, any proposers, numbers and values, and every loss, delay,    *)
(* repetition and reordering of messages.                                  *)
(*                                                                         *)
(* The argument: whatever an accept message proposes is safe, that is, for *)
(* every lower number and every other value there is a majority that has   *)
(* not accepted that value under that number and has promised not to any   *)
(* more (ProposalsAreSafe).  The step that matters is SendAccept: the      *)
(* promises it counts come from a majority, each tells of the highest      *)
(* proposal below its number (PromiseTells), so below the highest of them  *)
(* an earlier proposal was safe, at it one value was proposed (OneProposal)*)
(* and above it nobody of the majority has accepted anything.              *)
(***************************************************************************)
EXTENDS Paxos, FiniteSetTheorems, WellFoundedInduction, TLAPS

IsMajority(Q) == Q \in SUBSET Acceptor /\ Cardinality(Q) >= Majority

(* a has not accepted v as proposal n and never will. *)
Blocked(a, n, v) == <<a, n, v>> \notin accepts /\ acceptor[a].promised_n > n

(* Nothing but v is or can be chosen below n. *)
Safe(n, v) ==
    \A k \in Nat, w \in Value :
        k < n /\ w # v => \E Q : IsMajority(Q) /\ \A a \in Q : Blocked(a, k, w)

IsAccept(n, v) == [type |-> "accept", n |-> n, value |-> v] \in msgs
IsPromise(n, r) == [type |-> "promise", n |-> n, report |-> r] \in msgs

(* What an acceptor last accepted is the highest it accepted, and within   *)
(* its promise.                                                            *)
LastIsHighest ==
    \A a \in Acceptor :
        /\ acceptor[a].last_n <= acceptor[a].promised_n
        /\ acceptor[a].last_n >= 0 =>
               <<a, acceptor[a].last_n, acceptor[a].last_value>> \in accepts
        /\ \A n \in Nat, v \in Value : <<a, n, v>> \in accepts => n <= acceptor[a].last_n

(* A promise holds, and tells of the highest proposal accepted below it.   *)
PromiseTells ==
    \A n \in Nat, r \in Report :
        IsPromise(n, r) =>
            /\ n <= acceptor[r.from].promised_n
            /\ r.last_n < n
            /\ r.last_n >= 0 => <<r.from, r.last_n, r.last_value>> \in accepts
            /\ \A k \in Nat, v \in Value :
                  <<r.from, k, v>> \in accepts /\ k < n => k <= r.last_n

(* A number belongs to one proposer, and was announced. *)
OwnNumber ==
    /\ \A p \in Proposer : proposer[p].n # 0 =>
          /\ proposer[p].own_value \in Value
          /\ \E m \in msgs : m.n = proposer[p].n
    /\ \A p, q \in Proposer : proposer[p].n = proposer[q].n /\ proposer[p].n # 0 => p = q

(* A proposer counts promises made to its number, one per acceptor. *)
CountedOnce ==
    \A p \in Proposer :
        /\ \A r \in proposer[p].promises : IsPromise(proposer[p].n, r)
        /\ \A r, s \in proposer[p].promises : r.from = s.from => r = s

AcceptedWasProposed ==
    \A a \in Acceptor, n \in Nat, v \in Value : <<a, n, v>> \in accepts => IsAccept(n, v)

OneProposal == \A n \in Nat, v, w \in Value : IsAccept(n, v) /\ IsAccept(n, w) => v = w

ProposalsAreSafe == \A n \in Nat, v \in Value : IsAccept(n, v) => Safe(n, v)

PaxosInv ==
    /\ LastIsHighest /\ PromiseTells /\ OwnNumber /\ CountedOnce
    /\ AcceptedWasProposed /\ OneProposal /\ ProposalsAreSafe
-----------------------------------------------------------------------------
(* Every set of naturals has a least element. *)
LEMMA NatMin ==
    ASSUME NEW S \in SUBSET Nat, S # {}
    PROVE  \E x \in S : \A y \in S : x <= y
<1>1. PICK x \in S : \A y \in S : ~ (<<y, x>> \in OpToRel(<, Nat))
  BY NatLessThanWellFounded, WFMin, Zenon
<1>2. ASSUME NEW y \in S, y < x PROVE FALSE
  <2>1. <<y, x>> \in {ss \in Nat \X Nat : ss[1] < ss[2]}
    BY <1>2
  <2>2. OpToRel(<, Nat) = {ss \in Nat \X Nat : ss[1] < ss[2]}
    BY Zenon DEF OpToRel
  <2> QED BY <1>1, <2>1, <2>2, Zenon
<1>3. \A y \in S : x <= y
  BY <1>2
<1> QED BY <1>3

(* A bounded one has a greatest. *)
LEMMA NatMax ==
    ASSUME NEW S \in SUBSET Nat, S # {}, NEW b \in Nat, \A x \in S : x <= b
    PROVE  \E x \in S : \A y \in S : y <= x
<1> DEFINE T == {d \in Nat : \E x \in S : d + x = b}
<1>1. PICK z \in S : TRUE
  OBVIOUS
<1>2. b - z \in T
  OBVIOUS
<1>3. PICK t \in T : \A u \in T : t <= u
  BY <1>2, NatMin
<1>4. PICK x \in S : t + x = b
  OBVIOUS
<1>5. ASSUME NEW y \in S PROVE y <= x
  <2>1. b - y \in T /\ t \in Nat
    OBVIOUS
  <2>2. t <= b - y
    BY <1>3, <2>1
  <2> HIDE DEF T
  <2> QED BY <1>4, <2>1, <2>2
<1> QED BY <1>5

(* Majorities have members, and two of them one in common. *)
LEMMA MajoritiesMeet ==
    ASSUME NEW P, NEW Q, IsMajority(P), IsMajority(Q)
    PROVE  \E a \in Acceptor : a \in P /\ a \in Q
<1> USE PaxosAssumption DEF IsMajority
<1>1. IsFiniteSet(P) /\ IsFiniteSet(Q)
  BY FS_Subset
<1>2. /\ Cardinality(P) \in Nat /\ Cardinality(Q) \in Nat /\ Cardinality(Acceptor) \in Nat
  BY <1>1, FS_CardinalityType
<1>3. ASSUME NEW c \in Nat PROVE 2 * ((c \div 2) + 1) > c
  OBVIOUS
<1>4. Majority \in Nat /\ 2 * Majority > Cardinality(Acceptor)
  BY <1>2, <1>3 DEF Majority
<1>5. Cardinality(P) + Cardinality(Q) > Cardinality(Acceptor)
  BY <1>2, <1>4
<1>6. P \cap Q # {}
  BY <1>1, <1>5, FS_MajoritiesIntersect
<1> QED BY <1>6

(* A set with a subset of a majority's size is one. *)
LEMMA MajorityGrows ==
    ASSUME NEW P, NEW Q \in SUBSET Acceptor, IsMajority(P), P \subseteq Q
    PROVE  IsMajority(Q)
<1>1. IsFiniteSet(Q) /\ IsFiniteSet(P)
  BY PaxosAssumption, FS_Subset DEF IsMajority
<1>2. /\ Cardinality(P) <= Cardinality(Q) /\ Cardinality(P) \in Nat
      /\ Cardinality(Q) \in Nat /\ Cardinality(Acceptor) \in Nat
  BY <1>1, PaxosAssumption, FS_Subset, FS_CardinalityType
<1>3. Majority \in Nat
  BY <1>2 DEF Majority
<1> QED BY <1>2, <1>3 DEF IsMajority

(* The shape of a message is told by its type. *)
LEMMA MessageShape ==
    ASSUME NEW m \in Message
    PROVE  /\ m.type \in {"prepare", "promise", "accept"} /\ m.n \in Nat
           /\ m.type = "promise" =>
                  m.report \in Report /\ m = [type |-> "promise", n |-> m.n, report |-> m.report]
           /\ m.type = "accept" =>
                  m.value \in Value /\ m = [type |-> "accept", n |-> m.n, value |-> m.value]
BY DEF Message

(* The promises a ready proposer counts come from a majority. *)
LEMMA CountedQuorum ==
    ASSUME TypeOK, CountedOnce, NEW p \in Proposer, Ready(proposer[p])
    PROVE  IsMajority({r.from : r \in proposer[p].promises})
<1> DEFINE S == proposer[p].promises
           T == {r.from : r \in S}
           f == [r \in S |-> r.from]
<1>0. S \subseteq Report /\ Cardinality(S) >= Majority
  BY DEF TypeOK, ProposerState, Ready
<1>1. S \in SUBSET Report /\ T \in SUBSET Acceptor /\ Cardinality(S) >= Majority
  BY <1>0 DEF Report
<1>2. f \in Injection(S, T)
  <2>1. \A r, s \in S : r.from = s.from => r = s
    BY DEF CountedOnce
  <2> HIDE DEF S
  <2>2. f \in [S -> T] /\ \A r, s \in S : f[r] = f[s] => r = s
    BY <2>1
  <2> HIDE DEF T, f
  <2> QED BY <2>2 DEF Injection, IsInjective
<1>3. IsFiniteSet(T)
  BY <1>1, PaxosAssumption, FS_Subset
<1>4. IsFiniteSet(S) /\ Cardinality(S) <= Cardinality(T)
  BY <1>2, <1>3, FS_Injection
<1>5. Cardinality(S) \in Nat /\ Cardinality(T) \in Nat /\ Cardinality(Acceptor) \in Nat
  BY <1>3, <1>4, PaxosAssumption, FS_CardinalityType
<1>6. Majority \in Nat
  BY <1>5 DEF Majority
<1>7. Cardinality(T) >= Majority
  BY <1>1, <1>4, <1>5, <1>6
<1> QED BY <1>1, <1>7 DEF IsMajority

(* Blocked acceptors stay blocked, and so what is safe stays safe. *)
LEMMA SafeStays ==
    ASSUME \A a \in Acceptor, n \in Nat, v \in Value : Blocked(a, n, v) => Blocked(a, n, v)',
           NEW n \in Nat, NEW v \in Value, Safe(n, v)
    PROVE  Safe(n, v)'
<1> SUFFICES ASSUME NEW k \in Nat, NEW w \in Value, k < n, w # v
             PROVE  \E Q : IsMajority(Q) /\ \A a \in Q : Blocked(a, k, w)'
  BY DEF Safe, IsMajority
<1>1. PICK Q : IsMajority(Q) /\ \A a \in Q : Blocked(a, k, w)
  BY DEF Safe
<1>2. \A a \in Q : Blocked(a, k, w)'
  BY <1>1 DEF IsMajority
<1> QED BY <1>1, <1>2

(* What a promise to n says of the acceptor that made it. *)
LEMMA PromiseFacts ==
    ASSUME TypeOK, PaxosInv, NEW n \in Nat, NEW r \in Report, IsPromise(n, r)
    PROVE  /\ r.from \in Acceptor /\ r.last_n \in Int /\ r.last_n < n
           /\ \A k \in Nat : k < n => acceptor[r.from].promised_n > k
           /\ r.last_n >= 0 => /\ r.last_n \in Nat /\ r.last_value \in Value
                               /\ IsAccept(r.last_n, r.last_value)
           /\ \A k \in Nat, v \in Value :
                 <<r.from, k, v>> \in accepts /\ k < n => k <= r.last_n
<1>1. r.from \in Acceptor /\ r.last_n \in Nat \cup {-1}
  BY DEF Report
<1>2. /\ n <= acceptor[r.from].promised_n /\ r.last_n < n
      /\ r.last_n >= 0 => <<r.from, r.last_n, r.last_value>> \in accepts
      /\ \A k \in Nat, v \in Value :
            <<r.from, k, v>> \in accepts /\ k < n => k <= r.last_n
  BY DEF PaxosInv, PromiseTells
<1>3. acceptor[r.from].promised_n \in Nat
  BY <1>1 DEF TypeOK, AcceptorState
<1>4. ASSUME r.last_n >= 0
      PROVE  r.last_n \in Nat /\ r.last_value \in Value /\ IsAccept(r.last_n, r.last_value)
  <2>1. r.last_n \in Nat /\ r.last_value \in Value
    BY <1>1, <1>2, <1>4 DEF TypeOK
  <2> QED BY <1>1, <1>2, <1>4, <2>1 DEF PaxosInv, AcceptedWasProposed
<1> QED BY <1>1, <1>2, <1>3, <1>4

(* A majority that has accepted nothing leaves every value free. *)
LEMMA NothingReported ==
    ASSUME TypeOK, PaxosInv, NEW n \in Nat, NEW S \in SUBSET Report,
           \A r \in S : IsPromise(n, r), IsMajority({r.from : r \in S}),
           \A r \in S : ~(r.last_n >= 0),
           NEW v \in Value
    PROVE  Safe(n, v)
<1> DEFINE Q == {r.from : r \in S}
<1>1. ASSUME NEW k \in Nat, NEW w \in Value, k < n, NEW a \in Q
      PROVE  Blocked(a, k, w)
  <2>1. PICK r \in S : a = r.from
    OBVIOUS
  <2>2. /\ r.last_n \in Int /\ ~(r.last_n >= 0) /\ acceptor[a].promised_n > k
        /\ <<a, k, w>> \in accepts => k <= r.last_n
    BY <1>1, <2>1, PromiseFacts
  <2> QED BY <2>2 DEF Blocked
<1> HIDE DEF Q
<1>2. IsMajority(Q)
  BY DEF Q
<1> QED BY <1>1, <1>2 DEF Safe

(* The value of the highest report of a majority is safe. *)
LEMMA HighestReported ==
    ASSUME TypeOK, PaxosInv, NEW n \in Nat, NEW S \in SUBSET Report,
           \A r \in S : IsPromise(n, r), IsMajority({r.from : r \in S}),
           NEW top \in S, top.last_n >= 0,
           \A r \in S : r.last_n >= 0 => r.last_n <= top.last_n
    PROVE  top.last_value \in Value /\ Safe(n, top.last_value)
<1> DEFINE Q == {r.from : r \in S}
<1>1. PICK j \in Nat, v \in Value :
        j = top.last_n /\ v = top.last_value /\ IsAccept(j, v)
  BY PromiseFacts
<1>2. ASSUME NEW k \in Nat, NEW w \in Value, k < n, w # v, k >= j, NEW a \in Q
      PROVE  Blocked(a, k, w)
  <2>1. PICK r \in S : a = r.from
    OBVIOUS
  <2>2. /\ r.last_n \in Int /\ acceptor[a].promised_n > k /\ a \in Acceptor
        /\ <<a, k, w>> \in accepts => k <= r.last_n
    BY <1>2, <2>1, PromiseFacts
  <2>3. ASSUME <<a, k, w>> \in accepts PROVE FALSE
    <3>1. k = j
      BY <1>1, <1>2, <2>1, <2>2, <2>3
    <3>2. IsAccept(j, w)
      BY <2>2, <2>3, <3>1 DEF PaxosInv, AcceptedWasProposed
    <3> QED BY <1>1, <1>2, <3>2 DEF PaxosInv, OneProposal
  <2> QED BY <2>2, <2>3 DEF Blocked
<1>3. Safe(j, v)
  BY <1>1 DEF PaxosInv, ProposalsAreSafe
<1> HIDE DEF Q
<1>4. IsMajority(Q)
  BY DEF Q
<1>5. ASSUME NEW k \in Nat, NEW w \in Value, k < n, w # v
      PROVE  \E P : IsMajority(P) /\ \A a \in P : Blocked(a, k, w)
  <2>1. CASE k < j
    BY <1>3, <1>5, <2>1 DEF Safe
  <2>2. CASE k >= j
    BY <1>2, <1>4, <1>5, <2>2
  <2> QED BY <2>1, <2>2
<1> QED BY <1>1, <1>5 DEF Safe

(* What a ready proposer proposes is safe at its number. *)
LEMMA ProposedIsSafe ==
    ASSUME TypeOK, PaxosInv, NEW p \in Proposer, Ready(proposer[p])
    PROVE  /\ ProposerValue(proposer[p]) \in Value
           /\ Safe(proposer[p].n, ProposerValue(proposer[p]))
<1>1. PICK n \in Nat, S \in SUBSET Report : n = proposer[p].n /\ S = proposer[p].promises
  BY DEF TypeOK, ProposerState
<1>2. IsMajority({r.from : r \in S}) /\ \A r \in S : IsPromise(n, r)
  BY <1>1, CountedQuorum DEF PaxosInv, CountedOnce
<1>3. n # 0
  BY <1>1 DEF Ready
<1> DEFINE R == {r \in S : r.last_n >= 0}
<1>4. Reports(proposer[p]) = R
  BY <1>1 DEF Reports
<1>5. CASE R = {}
  <2>1. ProposerValue(proposer[p]) = proposer[p].own_value
    BY <1>4, <1>5 DEF ProposerValue
  <2>2. proposer[p].own_value \in Value
    BY <1>1, <1>3 DEF PaxosInv, OwnNumber
  <2>3. \A r \in S : ~(r.last_n >= 0)
    BY <1>5
  <2> QED BY <1>1, <1>2, <2>1, <2>2, <2>3, NothingReported
<1>6. CASE R # {}
  <2> DEFINE IsTop(r) == \A q \in R : q.last_n <= r.last_n
  <2>1. \E r \in R : IsTop(r)
    <3> DEFINE N == {r.last_n : r \in R}
    <3>1. \A r \in R : r.last_n \in Nat /\ r.last_n <= n
      BY <1>2, PromiseFacts
    <3>2. N \in SUBSET Nat /\ N # {} /\ \A x \in N : x <= n
      BY <1>6, <3>1
    <3>3. PICK x \in N : \A y \in N : y <= x
      BY <3>2, NatMax
    <3> QED BY <3>3
  <2>2. PICK top \in R : IsTop(top) /\ top = CHOOSE r \in R : IsTop(r)
    BY <2>1
  <2>3. ProposerValue(proposer[p]) = top.last_value
    BY <1>4, <1>6, <2>2 DEF ProposerValue
  <2>4. top \in S /\ top.last_n >= 0 /\ \A r \in S : r.last_n >= 0 => r.last_n <= top.last_n
    BY <2>2
  <2> QED BY <1>1, <1>2, <2>3, <2>4, HighestReported
<1> QED BY <1>5, <1>6
-----------------------------------------------------------------------------
(* The types and the invariant at the start. *)
LEMMA PaxosInit == Init => TypeOK /\ PaxosInv
<1> SUFFICES ASSUME Init PROVE TypeOK /\ PaxosInv
  OBVIOUS
<1>1. TypeOK
  BY DEF Init, TypeOK, AcceptorState, ProposerState, NoProposal
<1>2. LastIsHighest /\ PromiseTells /\ OwnNumber /\ CountedOnce
  BY DEF Init, LastIsHighest, PromiseTells, OwnNumber, CountedOnce, IsPromise, NoProposal
<1>3. AcceptedWasProposed /\ OneProposal /\ ProposalsAreSafe
  BY DEF Init, AcceptedWasProposed, OneProposal, ProposalsAreSafe, IsAccept
<1> QED BY <1>1, <1>2, <1>3 DEF PaxosInv

(* A new proposal takes a number nobody has. *)
LEMMA ProposeStep ==
    ASSUME TypeOK, PaxosInv, NEW p \in Proposer, NEW n \in Number, NEW v \in Value,
           Propose(p, n, v)
    PROVE  TypeOK' /\ PaxosInv'
<1> DEFINE m == [type |-> "prepare", n |-> n]
<1>1. /\ msgs' = msgs \cup {m} /\ acceptor' = acceptor /\ accepts' = accepts
      /\ \A x \in msgs : x.n # n
      /\ proposer' = [proposer EXCEPT ![p] = [n |-> n, own_value |-> v, promises |-> {}]]
  BY DEF Propose, Send
<1>2. n \in Nat /\ n # 0
  BY PaxosAssumption DEF Number
<1>3. TypeOK'
  BY <1>1, <1>2 DEF TypeOK, ProposerState, Message
<1>4. \A k \in Nat, w \in Value : IsAccept(k, w)' <=> IsAccept(k, w)
  BY <1>1 DEF IsAccept
<1>5. \A k \in Nat, r \in Report : IsPromise(k, r)' <=> IsPromise(k, r)
  BY <1>1 DEF IsPromise
<1>6. LastIsHighest' /\ PromiseTells'
  BY <1>1, <1>5 DEF PaxosInv, LastIsHighest, PromiseTells
<1>7. OwnNumber'
  <2>1. \A q \in Proposer : q # p => proposer'[q] = proposer[q]
    BY <1>1 DEF TypeOK
  <2>2. proposer'[p] = [n |-> n, own_value |-> v, promises |-> {}]
    BY <1>1 DEF TypeOK
  <2>3. \A q \in Proposer : proposer[q].n # 0 => proposer[q].n # n
    BY <1>1 DEF PaxosInv, OwnNumber
  <2>4. m \in msgs' /\ m.n = n /\ \A x \in msgs : x \in msgs'
    BY <1>1
  <2> HIDE DEF m
  <2> QED BY <2>1, <2>2, <2>3, <2>4, <1>2 DEF PaxosInv, OwnNumber
<1>8. CountedOnce'
  <2>1. ASSUME NEW q \in Proposer, q # p
        PROVE  proposer'[q] = proposer[q] /\ proposer[q].n \in Nat
               /\ proposer[q].promises \subseteq Report
    BY <1>1, <2>1 DEF TypeOK, ProposerState
  <2>2. proposer'[p].promises = {}
    BY <1>1 DEF TypeOK
  <2> QED BY <1>5, <2>1, <2>2 DEF PaxosInv, CountedOnce
<1>9. AcceptedWasProposed' /\ OneProposal' /\ ProposalsAreSafe'
  <2>1. \A a \in Acceptor, k \in Nat, w \in Value : Blocked(a, k, w) => Blocked(a, k, w)'
    BY <1>1 DEF Blocked
  <2> QED BY <1>1, <1>4, <2>1, SafeStays
          DEF PaxosInv, AcceptedWasProposed, OneProposal, ProposalsAreSafe
<1> QED BY <1>3, <1>6, <1>7, <1>8, <1>9 DEF PaxosInv

(* A promise tells what its acceptor accepted, and binds it. *)
LEMMA PrepareStep ==
    ASSUME TypeOK, PaxosInv, NEW a \in Acceptor, NEW m \in msgs, Prepare(a, m)
    PROVE  TypeOK' /\ PaxosInv'
<1> DEFINE old == acceptor[a]
           r0 == [from |-> a, last_n |-> old.last_n, last_value |-> old.last_value]
           m0 == [type |-> "promise", n |-> m.n, report |-> r0]
<1>0. m.n \in Nat /\ old \in AcceptorState /\ r0 \in Report
  BY MessageShape DEF TypeOK, AcceptorState, Report
<1>1. /\ msgs' = msgs \cup {m0} /\ proposer' = proposer /\ accepts' = accepts
      /\ acceptor' = [acceptor EXCEPT ![a].promised_n = m.n] /\ m.n > old.promised_n
  BY DEF Prepare, Send
<1>2. /\ \A b \in Acceptor : b # a => acceptor'[b] = acceptor[b]
      /\ acceptor'[a].promised_n = m.n /\ acceptor'[a].last_n = old.last_n
      /\ acceptor'[a].last_value = old.last_value /\ old.promised_n \in Nat
  BY <1>0, <1>1 DEF TypeOK, AcceptorState
<1>3. TypeOK'
  BY <1>0, <1>1 DEF TypeOK, AcceptorState, Message
<1>4. \A k \in Nat, w \in Value : IsAccept(k, w)' <=> IsAccept(k, w)
  BY <1>1 DEF IsAccept
<1>5. \A k \in Nat, r \in Report :
          /\ IsPromise(k, r) => IsPromise(k, r)'
          /\ IsPromise(k, r)' => IsPromise(k, r) \/ (k = m.n /\ r = r0)
  BY <1>1 DEF IsPromise
<1> HIDE DEF m0
<1>6. \A b \in Acceptor :
          /\ acceptor[b].promised_n \in Nat /\ acceptor'[b].promised_n \in Nat
          /\ acceptor[b].promised_n <= acceptor'[b].promised_n
          /\ acceptor'[b].last_n = acceptor[b].last_n /\ acceptor[b].last_n \in Int
          /\ acceptor'[b].last_value = acceptor[b].last_value
  BY <1>0, <1>1, <1>2 DEF TypeOK, AcceptorState
<1>7. LastIsHighest'
  <2> SUFFICES ASSUME NEW b \in Acceptor
               PROVE  /\ acceptor'[b].last_n <= acceptor'[b].promised_n
                      /\ acceptor'[b].last_n >= 0 =>
                            <<b, acceptor'[b].last_n, acceptor'[b].last_value>> \in accepts'
                      /\ \A n \in Nat, v \in Value :
                            <<b, n, v>> \in accepts' => n <= acceptor'[b].last_n
    BY DEF LastIsHighest
  <2> QED BY <1>1, <1>6 DEF PaxosInv, LastIsHighest
<1>8. PromiseTells'
  <2> SUFFICES ASSUME NEW k \in Nat, NEW r \in Report, IsPromise(k, r)'
               PROVE  /\ k <= acceptor'[r.from].promised_n
                      /\ r.last_n < k
                      /\ r.last_n >= 0 => <<r.from, r.last_n, r.last_value>> \in accepts'
                      /\ \A j \in Nat, v \in Value :
                            <<r.from, j, v>> \in accepts' /\ j < k => j <= r.last_n
    BY DEF PromiseTells
  <2>1. CASE IsPromise(k, r)
    <3>1. r.from \in Acceptor
      BY DEF Report
    <3> QED BY <1>1, <1>6, <2>1, <3>1 DEF PaxosInv, PromiseTells
  <2>2. CASE k = m.n /\ r = r0
    BY <1>0, <1>1, <1>2, <1>6, <2>2 DEF PaxosInv, LastIsHighest
  <2> QED BY <1>5, <2>1, <2>2
<1>9. OwnNumber'
  BY <1>1 DEF PaxosInv, OwnNumber
<1>10. CountedOnce'
  <2>1. \A q \in Proposer : proposer[q].n \in Nat /\ proposer[q].promises \subseteq Report
    BY DEF TypeOK, ProposerState
  <2> QED BY <1>1, <1>5, <2>1 DEF PaxosInv, CountedOnce
<1>11. AcceptedWasProposed' /\ OneProposal' /\ ProposalsAreSafe'
  <2>1. \A b \in Acceptor, k \in Nat, w \in Value : Blocked(b, k, w) => Blocked(b, k, w)'
    BY <1>1, <1>6 DEF Blocked
  <2> QED BY <1>1, <1>4, <2>1, SafeStays
          DEF PaxosInv, AcceptedWasProposed, OneProposal, ProposalsAreSafe
<1> QED BY <1>3, <1>7, <1>8, <1>9, <1>10, <1>11 DEF PaxosInv

(* A proposer notes the latest report of an acceptor. *)
LEMMA PromiseStep ==
    ASSUME TypeOK, PaxosInv, NEW p \in Proposer, NEW m \in msgs, Promise(p, m)
    PROVE  TypeOK' /\ PaxosInv'
<1> DEFINE S == {r \in proposer[p].promises : r.from # m.report.from} \cup {m.report}
<1>1. /\ msgs' = msgs /\ acceptor' = acceptor /\ accepts' = accepts
      /\ proposer' = [proposer EXCEPT ![p].promises = S]
      /\ m.type = "promise" /\ m.n = proposer[p].n
  BY DEF Promise
<1>2. m.n \in Nat /\ m.report \in Report /\ IsPromise(m.n, m.report)
  BY <1>1, MessageShape DEF TypeOK, IsPromise
<1>3. /\ \A q \in Proposer : q # p => proposer'[q] = proposer[q]
      /\ proposer'[p].n = proposer[p].n /\ proposer'[p].promises = S
      /\ proposer'[p].own_value = proposer[p].own_value
      /\ proposer[p].promises \subseteq Report /\ proposer[p] \in ProposerState
  BY <1>1 DEF TypeOK, ProposerState
<1>4. S \subseteq Report
  BY <1>2, <1>3
<1>5. TypeOK'
  <2>1. proposer' \in [Proposer -> ProposerState]
    BY <1>1, <1>4 DEF TypeOK, ProposerState
  <2> QED BY <1>1, <2>1 DEF TypeOK
<1>6. OwnNumber'
  <2>1. \A q \in Proposer : proposer'[q].n = proposer[q].n
                            /\ proposer'[q].own_value = proposer[q].own_value
    BY <1>3
  <2> QED BY <1>1, <2>1 DEF PaxosInv, OwnNumber
<1>7. CountedOnce'
  <2>1. ASSUME NEW r \in S PROVE IsPromise(proposer[p].n, r)
    BY <1>1, <1>2 DEF PaxosInv, CountedOnce
  <2>2. ASSUME NEW r \in S, NEW s \in S, r.from = s.from PROVE r = s
    BY <2>2 DEF PaxosInv, CountedOnce
  <2> HIDE DEF S
  <2> SUFFICES ASSUME NEW q \in Proposer
               PROVE  (/\ \A r \in proposer[q].promises : IsPromise(proposer[q].n, r)
                       /\ \A r, s \in proposer[q].promises : r.from = s.from => r = s)'
    BY DEF CountedOnce
  <2>4. CASE q = p
    BY <1>1, <1>3, <2>1, <2>2, <2>4 DEF IsPromise
  <2>5. CASE q # p
    BY <1>1, <1>3, <2>5 DEF PaxosInv, CountedOnce, IsPromise
  <2> QED BY <2>4, <2>5
<1>8. LastIsHighest' /\ PromiseTells' /\ AcceptedWasProposed' /\ OneProposal'
  BY <1>1 DEF PaxosInv, LastIsHighest, PromiseTells, AcceptedWasProposed, OneProposal,
              IsAccept, IsPromise
<1>9. ProposalsAreSafe'
  BY <1>1, SafeStays DEF PaxosInv, ProposalsAreSafe, IsAccept, Blocked
<1> QED BY <1>5, <1>6, <1>7, <1>8, <1>9 DEF PaxosInv

(* The one accept of a number proposes what is safe. *)
LEMMA SendAcceptStep ==
    ASSUME TypeOK, PaxosInv, NEW p \in Proposer, SendAccept(p)
    PROVE  TypeOK' /\ PaxosInv'
<1>1. PICK n \in Nat, v \in Value :
        /\ n = proposer[p].n /\ v = ProposerValue(proposer[p]) /\ Safe(n, v)
  BY ProposedIsSafe DEF SendAccept, TypeOK, ProposerState
<1> DEFINE m == [type |-> "accept", n |-> n, value |-> v]
<1>2. /\ msgs' = msgs \cup {m} /\ acceptor' = acceptor /\ accepts' = accepts
      /\ proposer' = proposer /\ ~AcceptSent(n)
  BY <1>1 DEF SendAccept, Send
<1>3. TypeOK'
  BY <1>2 DEF TypeOK, Message
<1>4. \A k \in Nat, w \in Value : IsAccept(k, w)' <=> IsAccept(k, w) \/ (k = n /\ w = v)
  BY <1>2 DEF IsAccept
<1>5. \A k \in Nat, r \in Report : IsPromise(k, r)' <=> IsPromise(k, r)
  BY <1>2 DEF IsPromise
<1>6. \A w \in Value : ~IsAccept(n, w)
  BY <1>2 DEF IsAccept, AcceptSent
<1> HIDE DEF m
<1>7. LastIsHighest' /\ PromiseTells' /\ OwnNumber'
  BY <1>2, <1>5 DEF PaxosInv, LastIsHighest, PromiseTells, OwnNumber
<1>8. CountedOnce'
  <2>1. \A q \in Proposer : proposer[q].n \in Nat /\ proposer[q].promises \subseteq Report
    BY DEF TypeOK, ProposerState
  <2> QED BY <1>2, <1>5, <2>1 DEF PaxosInv, CountedOnce
<1>9. AcceptedWasProposed' /\ OneProposal'
  BY <1>2, <1>4, <1>6 DEF PaxosInv, AcceptedWasProposed, OneProposal
<1>10. ProposalsAreSafe'
  <2>1. \A a \in Acceptor, k \in Nat, w \in Value : Blocked(a, k, w) => Blocked(a, k, w)'
    BY <1>2 DEF Blocked
  <2>2. \A k \in Nat, w \in Value : Safe(k, w) => Safe(k, w)'
    BY <2>1, SafeStays
  <2> QED BY <1>1, <1>4, <2>2 DEF PaxosInv, ProposalsAreSafe
<1> QED BY <1>3, <1>7, <1>8, <1>9, <1>10 DEF PaxosInv

(* Accepting stays within the promise. *)
LEMMA AcceptStep ==
    ASSUME TypeOK, PaxosInv, NEW a \in Acceptor, NEW m \in msgs, Accept(a, m)
    PROVE  TypeOK' /\ PaxosInv'
<1>1. PICK n \in Nat, v \in Value : m = [type |-> "accept", n |-> n, value |-> v]
  BY MessageShape DEF TypeOK, Accept
<1>2. /\ msgs' = msgs /\ proposer' = proposer /\ accepts' = accepts \cup {<<a, n, v>>}
      /\ acceptor' = [acceptor EXCEPT ![a] =
                        [promised_n |-> n, last_n |-> n, last_value |-> v]]
      /\ n >= acceptor[a].promised_n
  BY <1>1 DEF Accept
<1>3. TypeOK'
  BY <1>2 DEF TypeOK, AcceptorState
<1>4. \A b \in Acceptor :
          /\ acceptor[b].promised_n \in Nat /\ acceptor'[b].promised_n \in Nat
          /\ acceptor[b].last_n \in Int
          /\ acceptor[b].last_n <= acceptor[b].promised_n
          /\ acceptor[b].promised_n <= acceptor'[b].promised_n
          /\ b # a => acceptor'[b] = acceptor[b]
          /\ b = a => /\ acceptor'[b].last_n = n /\ acceptor'[b].last_value = v
                      /\ acceptor'[b].promised_n = n /\ acceptor[b].promised_n <= n
  <2>1. \A b \in Acceptor :
            /\ acceptor[b].promised_n \in Nat /\ acceptor[b].last_n \in Int
            /\ acceptor[b].last_n <= acceptor[b].promised_n
    <3>1. \A b \in Acceptor :
              acceptor[b].promised_n \in Nat /\ acceptor[b].last_n \in Int
      BY DEF TypeOK, AcceptorState
    <3> QED BY <3>1 DEF PaxosInv, LastIsHighest
  <2>2. \A b \in Acceptor : b # a => acceptor'[b] = acceptor[b]
    BY <1>2 DEF TypeOK
  <2>3. acceptor'[a] = [promised_n |-> n, last_n |-> n, last_value |-> v]
    BY <1>2 DEF TypeOK
  <2> QED BY <1>2, <2>1, <2>2, <2>3
<1>5. \A b \in Acceptor, k \in Nat, w \in Value :
          <<b, k, w>> \in accepts' <=> <<b, k, w>> \in accepts \/ (b = a /\ k = n /\ w = v)
  BY <1>2
<1>6. LastIsHighest'
  <2> SUFFICES ASSUME NEW b \in Acceptor
               PROVE  /\ acceptor'[b].last_n <= acceptor'[b].promised_n
                      /\ acceptor'[b].last_n >= 0 =>
                            <<b, acceptor'[b].last_n, acceptor'[b].last_value>> \in accepts'
                      /\ \A k \in Nat, w \in Value :
                            <<b, k, w>> \in accepts' => k <= acceptor'[b].last_n
    BY DEF LastIsHighest
  <2>0. /\ acceptor[b].last_n >= 0 =>
               <<b, acceptor[b].last_n, acceptor[b].last_value>> \in accepts
        /\ \A k \in Nat, w \in Value : <<b, k, w>> \in accepts => k <= acceptor[b].last_n
    BY DEF PaxosInv, LastIsHighest
  <2>1. CASE b = a
    BY <1>4, <1>5, <2>0, <2>1
  <2>2. CASE b # a
    BY <1>2, <1>4, <1>5, <2>0, <2>2
  <2> QED BY <2>1, <2>2
<1>7. PromiseTells'
  <2> SUFFICES ASSUME NEW k \in Nat, NEW r \in Report, IsPromise(k, r)'
               PROVE  /\ k <= acceptor'[r.from].promised_n
                      /\ r.last_n < k
                      /\ r.last_n >= 0 => <<r.from, r.last_n, r.last_value>> \in accepts'
                      /\ \A j \in Nat, w \in Value :
                            <<r.from, j, w>> \in accepts' /\ j < k => j <= r.last_n
    BY DEF PromiseTells
  <2>1. r.from \in Acceptor /\ IsPromise(k, r)
    BY <1>2 DEF Report, IsPromise
  <2>2. /\ k <= acceptor[r.from].promised_n
        /\ r.last_n < k
        /\ r.last_n >= 0 => <<r.from, r.last_n, r.last_value>> \in accepts
        /\ \A j \in Nat, w \in Value :
              <<r.from, j, w>> \in accepts /\ j < k => j <= r.last_n
    BY <2>1 DEF PaxosInv, PromiseTells
  <2>3. \A j \in Nat, w \in Value :
            <<r.from, j, w>> \in accepts' /\ j < k => j <= r.last_n
    BY <1>4, <1>5, <2>1, <2>2
  <2> QED BY <1>2, <1>4, <2>1, <2>2, <2>3
<1>8. OwnNumber' /\ CountedOnce' /\ OneProposal'
  BY <1>2 DEF PaxosInv, OwnNumber, CountedOnce, OneProposal, IsPromise, IsAccept
<1>9. AcceptedWasProposed'
  BY <1>1, <1>2, <1>5 DEF PaxosInv, AcceptedWasProposed, IsAccept
<1>10. ProposalsAreSafe'
  <2>1. \A b \in Acceptor, k \in Nat, w \in Value : Blocked(b, k, w) => Blocked(b, k, w)'
    BY <1>4, <1>5 DEF Blocked
  <2>2. \A k \in Nat, w \in Value : Safe(k, w) => Safe(k, w)'
    BY <2>1, SafeStays
  <2> QED BY <1>2, <2>2 DEF PaxosInv, ProposalsAreSafe, IsAccept
<1> QED BY <1>3, <1>6, <1>7, <1>8, <1>9, <1>10 DEF PaxosInv

(* Every step keeps the types and the invariant. *)
LEMMA PaxosNext == TypeOK /\ PaxosInv /\ [Next]_paxosVars => TypeOK' /\ PaxosInv'
<1> SUFFICES ASSUME TypeOK, PaxosInv, [Next]_paxosVars PROVE TypeOK' /\ PaxosInv'
  OBVIOUS
<1>1. CASE UNCHANGED paxosVars
  <2>1. TypeOK'
    BY <1>1 DEF paxosVars, TypeOK
  <2>2. LastIsHighest' /\ PromiseTells' /\ OwnNumber' /\ CountedOnce'
    BY <1>1 DEF paxosVars, PaxosInv, LastIsHighest, PromiseTells, OwnNumber, CountedOnce,
                IsPromise
  <2>3. AcceptedWasProposed' /\ OneProposal' /\ ProposalsAreSafe'
    BY <1>1, SafeStays DEF paxosVars, PaxosInv, AcceptedWasProposed, OneProposal,
                           ProposalsAreSafe, IsAccept, Blocked
  <2> QED BY <2>1, <2>2, <2>3 DEF PaxosInv
<1> QED BY <1>1, ProposeStep, PrepareStep, PromiseStep, SendAcceptStep, AcceptStep
        DEF Next, Deliver

(* Whatever the order of messages, the acceptors, the promises counted and *)
(* the proposals sent stay as PaxosInv says.                               *)
THEOREM PaxosCorrect == Spec => [](TypeOK /\ PaxosInv)
BY PaxosInit, PaxosNext, PTL DEF Spec
-----------------------------------------------------------------------------
(* A proposal above a chosen number carries the chosen value. *)
LEMMA ChosenKept ==
    ASSUME TypeOK, PaxosInv, NEW n \in Nat, NEW v \in Value, IsMajority(Voters(n, v)),
           NEW k \in Nat, NEW w \in Value, IsAccept(k, w), k >= n
    PROVE  w = v
<1>1. PICK a \in Acceptor : <<a, n, v>> \in accepts
  BY MajoritiesMeet DEF Voters
<1>2. CASE k = n
  BY <1>1, <1>2 DEF PaxosInv, AcceptedWasProposed, OneProposal
<1>3. CASE k > n
  <2> SUFFICES ASSUME w # v PROVE FALSE
    OBVIOUS
  <2>1. PICK Q : IsMajority(Q) /\ \A b \in Q : Blocked(b, n, v)
    BY <1>3 DEF PaxosInv, ProposalsAreSafe, Safe
  <2>2. PICK b \in Acceptor : b \in Q /\ b \in Voters(n, v)
    BY <2>1, MajoritiesMeet
  <2> QED BY <2>1, <2>2 DEF Voters, Blocked
<1> QED BY <1>2, <1>3

(* A value is chosen when a majority voted for it. *)
LEMMA ChosenByMajority ==
    ASSUME NEW n \in Nat, NEW v \in Value
    PROVE  IsMajority(Voters(n, v)) <=> Cardinality(Voters(n, v)) >= Majority
BY DEF IsMajority, Voters

(* Two chosen values are the same. *)
LEMMA ChosenAgree ==
    ASSUME TypeOK, PaxosInv, NEW v \in Chosen, NEW w \in Chosen
    PROVE  v = w
<1>1. PICK n \in Number : IsMajority(Voters(n, v))
  BY DEF Chosen, IsMajority, Voters
<1>2. PICK k \in Number : IsMajority(Voters(k, w))
  BY DEF Chosen, IsMajority, Voters
<1>3. n \in Nat /\ k \in Nat /\ v \in Value /\ w \in Value
  BY PaxosAssumption DEF Number, Chosen
<1>4. IsAccept(n, v) /\ IsAccept(k, w)
  <2>1. PICK a \in Acceptor : <<a, n, v>> \in accepts
    BY <1>1, MajoritiesMeet DEF Voters
  <2>2. PICK b \in Acceptor : <<b, k, w>> \in accepts
    BY <1>2, MajoritiesMeet DEF Voters
  <2> QED BY <1>3, <2>1, <2>2 DEF PaxosInv, AcceptedWasProposed
<1>5. n <= k \/ k <= n
  BY <1>3
<1> QED BY <1>1, <1>2, <1>3, <1>4, <1>5, ChosenKept

(* What a majority holds right now was accepted by a majority. *)
LEMMA LearnedIsChosen == TypeOK /\ PaxosInv => LearnOnlyChosen
<1> SUFFICES ASSUME TypeOK, PaxosInv, LearnedNumbers # {} PROVE Learned \subseteq Chosen
  BY DEF LearnOnlyChosen, Learned
<1> DEFINE IsLast(k) == \A j \in LearnedNumbers : j <= k
           n == CHOOSE k \in LearnedNumbers : IsLast(k)
           a == CHOOSE b \in Holders(n) : TRUE
<1>1. LearnedNumbers \in SUBSET Nat /\ \A x \in LearnedNumbers : x <= MaxNumber
  BY PaxosAssumption DEF LearnedNumbers, Number
<1>2. \E k \in LearnedNumbers : IsLast(k)
  BY <1>1, PaxosAssumption, NatMax
<1>3. n \in LearnedNumbers
  BY <1>2
<1>4. Learned = {acceptor[a].last_value}
  BY DEF Learned
<1> HIDE DEF n
<1>5. n \in Number /\ n \in Nat /\ IsMajority(Holders(n))
  BY <1>3, PaxosAssumption DEF LearnedNumbers, Number, Holders, IsMajority
<1>6. a \in Holders(n)
  <2>1. \E b : b \in Holders(n)
    BY <1>5, MajoritiesMeet
  <2> QED BY <2>1
<1> HIDE DEF a
<1> DEFINE v == acceptor[a].last_value
<1>7. ASSUME NEW b \in Holders(n)
      PROVE  b \in Acceptor /\ <<b, n, acceptor[b].last_value>> \in accepts
             /\ acceptor[b].last_value \in Value /\ IsAccept(n, acceptor[b].last_value)
  <2>1. b \in Acceptor /\ acceptor[b].last_n = n
    BY DEF Holders
  <2>2. <<b, n, acceptor[b].last_value>> \in accepts
    BY <1>5, <2>1 DEF PaxosInv, LastIsHighest
  <2>3. acceptor[b].last_value \in Value
    BY <2>2 DEF TypeOK
  <2> QED BY <1>5, <2>1, <2>2, <2>3 DEF PaxosInv, AcceptedWasProposed
<1>8. v \in Value /\ IsAccept(n, v)
  BY <1>6, <1>7
<1>9. \A b \in Holders(n) : b \in Voters(n, v)
  BY <1>5, <1>7, <1>8 DEF PaxosInv, OneProposal, Voters
<1>10. IsMajority(Voters(n, v))
  BY <1>5, <1>9, MajorityGrows DEF Voters
<1>11. v \in Chosen
  BY <1>5, <1>8, <1>10 DEF Chosen, IsMajority
<1> QED BY <1>4, <1>11

(* The invariant makes a chosen value final. *)
LEMMA InvImpliesFinal == TypeOK /\ PaxosInv => ChosenIsFinal
<1> SUFFICES ASSUME TypeOK, PaxosInv PROVE ChosenIsFinal
  OBVIOUS
<1>1. Agreement
  <2>1. CASE Chosen = {}
    BY <2>1, FS_EmptySet DEF Agreement
  <2>2. CASE Chosen # {}
    <3>1. PICK v : Chosen = {v}
      BY <2>2, ChosenAgree
    <3> QED BY <3>1, FS_Singleton DEF Agreement
  <2> QED BY <2>1, <2>2
<1>2. LaterProposalsKeepValue
  <2> SUFFICES ASSUME NEW n \in Number, NEW v \in Value,
                      Cardinality(Voters(n, v)) >= Majority,
                      NEW m \in msgs, m.type = "accept", m.n > n
               PROVE  m.value = v
    BY DEF LaterProposalsKeepValue
  <2>1. n \in Nat /\ IsMajority(Voters(n, v))
    BY PaxosAssumption DEF Number, IsMajority, Voters
  <2>2. m.n \in Nat /\ m.value \in Value /\ IsAccept(m.n, m.value)
    BY MessageShape DEF TypeOK, IsAccept
  <2> QED BY <2>1, <2>2, ChosenKept
<1> QED BY <1>1, <1>2, LearnedIsChosen DEF ChosenIsFinal

(* "a chosen value cannot be changed by a later proposal": no second value *)
(* is chosen, proposed above it or learned, in any run of any size.        *)
THEOREM ChosenStaysFinal == Spec => []ChosenIsFinal
BY PaxosCorrect, InvImpliesFinal, PTL

(* No two values are chosen. *)
OneChosen == \A v, w \in Chosen : v = w

(* The invariant leaves room for one chosen value. *)
LEMMA InvImpliesOne == TypeOK /\ PaxosInv => OneChosen
BY ChosenAgree DEF OneChosen

(* A step chooses nothing, or the one value there will be. *)
LEMMA ConsensusStep == OneChosen' /\ [Next]_paxosVars => [C!Choose]_Chosen
<1> SUFFICES ASSUME OneChosen', [Next]_paxosVars
             PROVE  [C!Choose]_Chosen
  OBVIOUS
<1>1. accepts \subseteq accepts'
  BY DEF Next, Deliver, Propose, Prepare, Promise, SendAccept, Accept, paxosVars
<1>2. ASSUME NEW v \in Chosen PROVE v \in Chosen'
  <2>1. PICK n \in Number : IsMajority(Voters(n, v)) /\ v \in Value
    BY DEF Chosen, IsMajority, Voters
  <2>2. Voters(n, v) \subseteq Voters(n, v)'
    BY <1>1 DEF Voters
  <2>3. Voters(n, v)' \in SUBSET Acceptor
    BY DEF Voters
  <2>4. IsMajority(Voters(n, v)')
    BY <2>1, <2>2, <2>3, MajorityGrows
  <2> QED BY <2>1, <2>4 DEF Chosen, IsMajority
<1>3. \A v, w \in Chosen' : v = w
  BY DEF OneChosen
<1>4. Chosen' \subseteq Value
  BY DEF Chosen
<1>5. CASE Chosen = {}
  BY <1>3, <1>4, <1>5 DEF C!Choose
<1>6. CASE Chosen # {}
  BY <1>2, <1>3, <1>6
<1> QED BY <1>5, <1>6

(* Paxos implements Consensus. *)
THEOREM PaxosImplementsConsensus == Spec => ImplementsConsensus
<1>1. Init => C!Init
  <2> SUFFICES ASSUME Init PROVE Chosen = {}
    BY DEF C!Init
  <2>1. TypeOK /\ PaxosInv
    BY PaxosInit
  <2>2. ASSUME NEW n \in Number, NEW v \in Value, Cardinality(Voters(n, v)) >= Majority
        PROVE  FALSE
    <3>1. IsMajority(Voters(n, v))
      BY <2>2 DEF IsMajority, Voters
    <3>2. PICK a \in Acceptor : a \in Voters(n, v)
      BY <3>1, MajoritiesMeet
    <3> QED BY <3>2 DEF Voters, Init
  <2> QED BY <2>2 DEF Chosen
<1>2. Spec => []OneChosen
  BY PaxosCorrect, InvImpliesOne, PTL
<1> QED BY <1>1, <1>2, ConsensusStep, PTL DEF Spec, ImplementsConsensus, C!Spec
=============================================================================
