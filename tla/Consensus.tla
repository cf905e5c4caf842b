----------------------------- MODULE Consensus -----------------------------
(***************************************************************************)
(* What single-decree Paxos promises: values are chosen, at most one ever, *)
(* and a chosen value stays chosen.                                        *)
(***************************************************************************)
CONSTANT Value
VARIABLE chosen

Init == chosen = {}

Choose == chosen = {} /\ \E v \in Value : chosen' = {v}

Spec == Init /\ [][Choose]_chosen
=============================================================================
