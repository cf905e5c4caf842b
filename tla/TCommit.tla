------------------------------ MODULE TCommit -------------------------------
(***************************************************************************)
(* What an atomic commit protocol promises: the participants all commit or *)
(* none does, nobody commits before everybody is prepared, and a decision  *)
(* is final.                                                               *)
(***************************************************************************)
CONSTANT Participant
VARIABLE outcome    \* what each participant has come to

Init == outcome = [p \in Participant |-> "working"]

Become(p, from, to) == outcome[p] \in from /\ outcome' = [outcome EXCEPT ![p] = to]

Prepare(p) == Become(p, {"working"}, "prepared")

Commit(p) ==
    /\ \A q \in Participant : outcome[q] \in {"prepared", "committed"}
    /\ Become(p, {"prepared"}, "committed")

Abort(p) ==
    /\ \A q \in Participant : outcome[q] # "committed"
    /\ Become(p, {"working", "prepared"}, "aborted")

Next == \E p \in Participant : Prepare(p) \/ Commit(p) \/ Abort(p)

Spec == Init /\ [][Next]_outcome

(* No two participants come to different decisions. *)
Consistent ==
    \A p, q \in Participant : ~(outcome[p] = "committed" /\ outcome[q] = "aborted")
=============================================================================
