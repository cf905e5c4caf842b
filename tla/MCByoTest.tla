----------------------------- MODULE MCByoTest ------------------------------
(* Small sets of reports for ByoTest: what the stages of a run can show.   *)
EXTENDS ByoTest

AllReports == Report

GreenReport == [validate |-> FALSE, stages |-> [s \in Stage |-> [passed |-> 1, failed |-> 0]]]
RedReport == [validate |-> FALSE, stages |-> [s \in Stage |-> [passed |-> 0, failed |-> 1]]]

GreenAndRed == {GreenReport, RedReport}
OneReport == {GreenReport}
=============================================================================
