-------------------------------- MODULE Abd ---------------------------------
(***************************************************************************)
(* The reference ABD register (disttest/examples/alg/replication.rs, topic *)
(* abd): reads and writes in two phases over the first majority of the     *)
(* replicas that are up, and writers that die half way.                    *)
(*                                                                         *)
(* No two writes have the same tag, so a tag stands for its value.  Reads  *)
(* write back, as `init` leaves it.                                        *)
(***************************************************************************)
EXTENDS Integers, FiniteSets

CONSTANTS
    Replicas,    \* how many replicas; they are numbered, and asked in that order
    Writer,      \* ids of writers, numbers from 1
    MaxTs        \* bound: timestamps

VARIABLES
    reg,      \* struct Abd: the replicas' tags, and which replicas are up
    told,     \* history: the highest tag any client was told of
    gone      \* writers that died in the middle of a write

vars == <<reg, told, gone>>

Replica == 1 .. Replicas
Quorum == (Replicas \div 2) + 1

Tag(ts, w) == [ts |-> ts, writer |-> w]
Zero == Tag(0, 0)

(* The order on tags. *)
Above(s, t) == s.ts > t.ts \/ (s.ts = t.ts /\ s.writer > t.writer)
Highest(S) == CHOOSE t \in S : \A s \in S : ~Above(s, t)

Init ==
    /\ reg = [tag |-> [r \in Replica |-> Zero], up |-> [r \in Replica |-> TRUE]]
    /\ told = Zero
    /\ gone = {}

Live == {r \in Replica : reg.up[r]}
Reachable == Cardinality(Live) >= Quorum

(* The replicas a phase asks: the first majority of those that are up. *)
Asked == {r \in Live : Cardinality({q \in Live : q < r}) < Quorum}

(* Phase one: the highest tag a quorum holds. *)
ReadQuorum == Highest({reg.tag[r] : r \in Asked} \cup {Zero})

(* Phase two: on a quorum, never over a higher tag. *)
WriteQuorum(t) ==
    [r \in Replica |-> IF r \in Asked /\ Above(t, reg.tag[r]) THEN t ELSE reg.tag[r]]

(* Faulty variant: a read writes nothing back. *)
ReadOnly(t) == reg.tag

(* What a read does with the tag it found, before it answers. *)
WriteBack(t) == WriteQuorum(t)

Tell(t) == told' = Highest({told, t})
-----------------------------------------------------------------------------
Write(w) ==
    /\ Reachable /\ w \notin gone /\ ReadQuorum.ts < MaxTs
    /\ LET t == Tag(ReadQuorum.ts + 1, w)
       IN  reg' = [reg EXCEPT !.tag = WriteQuorum(t)] /\ Tell(t)
    /\ UNCHANGED gone

Read ==
    /\ Reachable
    /\ reg' = [reg EXCEPT !.tag = WriteBack(ReadQuorum)]
    /\ Tell(ReadQuorum)
    /\ UNCHANGED gone

(* `poke`: a write that reached one replica before its writer died. *)
Poke(w, r) ==
    /\ Reachable /\ w \notin gone /\ ReadQuorum.ts < MaxTs
    /\ LET t == Tag(ReadQuorum.ts + 1, w)
       IN  Above(t, reg.tag[r]) /\ reg' = [reg EXCEPT !.tag[r] = t]
    /\ gone' = gone \cup {w}
    /\ UNCHANGED told

(* `down` and `up` *)
Switch(r) == reg' = [reg EXCEPT !.up[r] = ~@] /\ UNCHANGED <<told, gone>>

Next ==
    \/ Read
    \/ \E w \in Writer : Write(w) \/ \E r \in Replica : Poke(w, r)
    \/ \E r \in Replica : Switch(r)

Spec == Init /\ [][Next]_vars
-----------------------------------------------------------------------------
(* "a linearizable register from quorums": nobody reads a value older than *)
(* one somebody was told of before, whichever majorities answer, although  *)
(* a dead writer may have left its value on a single replica.              *)
ReadsNeverGoBack == Reachable => ~Above(told, ReadQuorum)
=============================================================================
