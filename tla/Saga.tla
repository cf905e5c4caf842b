-------------------------------- MODULE Saga --------------------------------
(***************************************************************************)
(* The reference orchestrated saga (disttest/examples/alg/patterns.rs,     *)
(* topic saga).  Steps are numbered in the order `init` names them.        *)
(***************************************************************************)
EXTENDS Integers, Sequences

CONSTANT Steps    \* how many steps

VARIABLE saga     \* struct Saga: completed is 1 .. completed, pending is what is
                  \* left to undo, newest first: pending, pending - 1 .. 1

Init == saga = [completed |-> 0, pending |-> 0, phase |-> "forward",
                outcome |-> "running", ledger |-> <<>>]

Do(i) == <<"do", i>>
Undo(i) == <<"undo", i>>

(* `step <name> ok` *)
StepOk ==
    /\ saga.phase = "forward" /\ saga.completed < Steps
    /\ LET n == saga.completed + 1
           last == n = Steps
       IN  saga' = [saga EXCEPT !.completed = n, !.ledger = Append(@, Do(n)),
                                !.phase = IF last THEN "done" ELSE @,
                                !.outcome = IF last THEN "committed" ELSE @]

(* `step <name> fail`: the failed step is not among those to undo. *)
StepFail ==
    /\ saga.phase = "forward" /\ saga.completed < Steps
    /\ LET nothing == saga.completed = 0
       IN  saga' = [saga EXCEPT !.pending = saga.completed,
                                !.phase = IF nothing THEN "done" ELSE "compensating",
                                !.outcome = IF nothing THEN "compensated" ELSE @]

(* `compensate <name> ok`; one that fails is retried and changes nothing. *)
Compensate ==
    /\ saga.phase = "compensating" /\ saga.pending > 0
    /\ LET last == saga.pending = 1
       IN  saga' = [saga EXCEPT !.pending = @ - 1, !.ledger = Append(@, Undo(saga.pending)),
                                !.phase = IF last THEN "done" ELSE @,
                                !.outcome = IF last THEN "compensated" ELSE @]

Next == StepOk \/ StepFail \/ Compensate

Spec == Init /\ [][Next]_saga
=============================================================================
