------------------------------- MODULE Choreo -------------------------------
(***************************************************************************)
(* The reference choreographed saga (disttest/examples/alg/patterns.rs,    *)
(* topic saga-choreo): no coordinator, only events, and any event may      *)
(* arrive at any time, twice, late or never.                               *)
(***************************************************************************)
EXTENDS Integers, Sequences

CONSTANT Steps

VARIABLE ch    \* struct Choreo; a service is the number of its step

StepNo == 1 .. Steps
Event == {<<"start", 0>>} \cup ({"ok", "fail", "undone"} \X StepNo)

Init == ch = [handled |-> {}, emitted |-> <<>>, ledger |-> <<>>, inflight_do |-> {},
              inflight_undo |-> {}, compensating |-> FALSE, outcome |-> "running"]

(* What a reaction adds: ledger entries and one emitted event. *)
Wrote(c, kind, i) == [c EXCEPT !.ledger = Append(@, <<kind, i>>)]
Emit(c, kind, i) == [c EXCEPT !.emitted = Append(@, <<kind, i>>)]

StartDo(c, i) == [Emit(Wrote(c, "do", i), "do", i) EXCEPT !.inflight_do = @ \cup {i}]

(* Choreo::undo_before *)
UndoBefore(c, i) ==
    IF i > 1 THEN [Emit(c, "undo", i - 1) EXCEPT !.inflight_undo = @ \cup {i - 1}]
    ELSE [c EXCEPT !.outcome = "compensated"]

Once(e) == e \notin ch.handled

Handled(c, e) == [c EXCEPT !.handled = @ \cup {e}]
-----------------------------------------------------------------------------
(* Choreo::handle, one action per kind of event.  What does not apply in   *)
(* the current state is dropped without being remembered.                  *)
Start ==
    /\ ch.handled = {} /\ Steps >= 1
    /\ ch' = Handled(StartDo(ch, 1), <<"start", 0>>)

(* Faulty variant: a failure is one more event of a step under way. *)
DoUnderWay(i) == i \in ch.inflight_do \/ ch.compensating

(* The do of step i is under way, and nothing is being undone. *)
DoExpected(i) == ~ch.compensating /\ i \in ch.inflight_do

Ok(i) ==
    /\ Once(<<"ok", i>>) /\ DoExpected(i)
    /\ LET c == Handled([ch EXCEPT !.inflight_do = @ \ {i}], <<"ok", i>>)
       IN  ch' = IF i < Steps THEN StartDo(c, i + 1) ELSE [c EXCEPT !.outcome = "committed"]

Fail(i) ==
    /\ Once(<<"fail", i>>) /\ DoExpected(i)
    /\ ch' = UndoBefore(Handled([ch EXCEPT !.inflight_do = @ \ {i}, !.compensating = TRUE],
                                <<"fail", i>>), i)

Undone(i) ==
    /\ Once(<<"undone", i>>) /\ i \in ch.inflight_undo
    /\ ch' = UndoBefore(Wrote(Handled([ch EXCEPT !.inflight_undo = @ \ {i}],
                                      <<"undone", i>>), "undo", i), i)

Next == Start \/ \E i \in StepNo : Ok(i) \/ Fail(i) \/ Undone(i)

Spec == Init /\ [][Next]_ch
-----------------------------------------------------------------------------
Oks == {i \in StepNo : <<"ok", i>> \in ch.handled}
Failed == \E i \in StepNo : <<"fail", i>> \in ch.handled

(* The orchestrator these events amount to.  A choreography writes down a  *)
(* step when it begins, an orchestrator when it is done: entries of steps  *)
(* that have not succeeded are left out.                                   *)
AsSaga ==
    [completed |-> IF Oks = {} THEN 0 ELSE CHOOSE i \in Oks : i + 1 \notin Oks,
     pending |-> IF ch.inflight_undo = {} THEN 0 ELSE CHOOSE i \in ch.inflight_undo : TRUE,
     phase |-> IF ch.outcome # "running" THEN "done"
               ELSE IF Failed THEN "compensating" ELSE "forward",
     outcome |-> ch.outcome,
     ledger |-> SelectSeq(ch.ledger, LAMBDA r : r[1] = "undo" \/ r[2] \in Oks)]

S == INSTANCE Saga WITH saga <- AsSaga

(* "the same guarantee, driven by events": events that repeat, come early  *)
(* or contradict each other never skip a step, undo one twice or out of    *)
(* order, or end a saga half done.                                         *)
ImplementsSaga == S!Spec
=============================================================================
