---------------------------- MODULE AntiEntropy -----------------------------
(***************************************************************************)
(* The reference repair machinery (disttest/examples/alg/resilience.rs,    *)
(* topic anti-entropy): writes with hints for replicas that are down, read *)
(* repair, handoff and sync.  Keys do not meet, so one is modelled; a      *)
(* version stands for the value written with it.  `put`, which sets up     *)
(* stale replicas by hand, is left out.                                    *)
(***************************************************************************)
EXTENDS Integers

CONSTANTS
    Replicas,     \* how many replicas; numbered in the order of `init`
    MaxVersion    \* bound: versions

VARIABLES
    ae,       \* struct AntiEntropy: the version each replica holds, down, hints
    written   \* history: the versions that were stored anywhere by `write`

vars == <<ae, written>>

Replica == 1 .. Replicas

Init ==
    /\ ae = [store |-> [r \in Replica |-> 0], down |-> {}, hints |-> {}]
    /\ written = {}

Live == Replica \ ae.down

(* AntiEntropy::merge, on some replicas: never over the same version or a  *)
(* later one.                                                              *)
Merge(store, S, v) == [r \in Replica |-> IF r \in S /\ store[r] < v THEN v ELSE store[r]]

Deliverable(h) == h.owner \notin ae.down /\ h.standin \notin ae.down

(* Faulty variant: a hint goes once its owner is back. *)
KeptUntilBack == {h \in ae.hints : h.owner \in ae.down}

(* A stand-in that is down keeps its hints.  The text beside the code      *)
(* calls them lost; `up` brings the stand-in back and its hints with it.   *)
Kept == {h \in ae.hints : ~Deliverable(h)}
-----------------------------------------------------------------------------
(* `write`: on the live replicas, and a hint on the first of them for each *)
(* that is down.  Versions may arrive in any order.                        *)
Write(v) ==
    /\ v \notin written /\ Live # {}
    /\ LET standin == CHOOSE r \in Live : \A q \in Live : r <= q
       IN  ae' = [ae EXCEPT !.store = Merge(@, Live, v),
                    !.hints = @ \cup {[owner |-> o, standin |-> standin, version |-> v] :
                                        o \in ae.down}]
    /\ written' = written \cup {v}

DownOrUp(r) ==
    /\ ae' = [ae EXCEPT !.down = IF r \in @ THEN @ \ {r} ELSE @ \cup {r}]
    /\ UNCHANGED written

(* `read`: the newest of the live replicas repairs the others. *)
Read ==
    /\ Live # {}
    /\ LET best == CHOOSE r \in Live : \A q \in Live : ae.store[q] <= ae.store[r]
       IN  ae' = [ae EXCEPT !.store = Merge(@, Live, ae.store[best])]
    /\ UNCHANGED written

(* `handoff`: the hints whose owner and stand-in are both up. *)
Handoff ==
    /\ ae' = [ae EXCEPT !.hints = Kept,
                !.store = [r \in Replica |->
                             LET due == {h.version : h \in {g \in ae.hints :
                                                              Deliverable(g) /\ g.owner = r}}
                             IN  CHOOSE v \in due \cup {@[r]} : \A u \in due \cup {@[r]} : u <= v]]
    /\ UNCHANGED written

(* `sync`: the newer of the two goes to the other; nobody asks whether     *)
(* they are up.                                                            *)
Sync(a, b) ==
    /\ ae' = [ae EXCEPT !.store = Merge(Merge(@, {a}, @[b]), {b}, @[a])]
    /\ UNCHANGED written

Next ==
    \/ Read \/ Handoff
    \/ \E v \in 1 .. MaxVersion : Write(v)
    \/ \E r \in Replica : DownOrUp(r)
    \/ \E a, b \in Replica : Sync(a, b)

Spec == Init /\ [][Next]_vars
-----------------------------------------------------------------------------
(* A hint is no guarantee: it needs its stand-in.  But that is the only    *)
(* way a handoff can fall short, through every order of outages, repairs   *)
(* and earlier handoffs: a replica that is up and still behind a write     *)
(* when the handoff is over waits for a stand-in that is down, and that    *)
(* holds the write, so that a sync with it repairs the replica.            *)
HandoffCatchesUp ==
    [][Handoff =>
          \A v \in written, r \in Live :
             \/ ae'.store[r] >= v
             \/ \E h \in ae'.hints : /\ h.owner = r /\ h.version = v
                                     /\ h.standin \in ae.down
                                     /\ ae'.store[h.standin] >= v]_vars
=============================================================================
