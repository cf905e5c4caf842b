---------------------------- MODULE MCJourneyTab ----------------------------
(* One tab of the site while `byo test` records a run.                     *)
EXTENDS JourneyStore

CONSTANTS shell

OneTrack == <<shell>>
GreenReport ==
    [validate |-> FALSE, stages |-> [s \in Stage |-> [passed |-> 1, failed |-> 0]]]
OneReport == {GreenReport}
=============================================================================
