----------------------------- MODULE MCJourney ------------------------------
(* The database on its own, in every order of its transactions, and a tab  *)
(* of the site over it: beside commands that write to the database, or     *)
(* with edits that overlap.  Fairness concerns the tab: of the database on *)
(* its own only safety is checked.                                         *)
EXTENDS MCJourneyTab

VARIABLE scenario

Db == INSTANCE ProgressDb WITH MaxRuns <- 3, MaxClock <- 2
Beside == INSTANCE JourneyStore WITH MaxWrites <- 1, Note <- {}
Overlap == INSTANCE JourneyStore WITH MaxCommands <- 0

MCInit == Init /\ scenario \in {"db", "beside", "overlap"}

MCNext ==
    /\ UNCHANGED scenario
    /\ \/ scenario = "db" /\ Db!DbNext /\ UNCHANGED siteVars
       \/ scenario = "beside" /\ Beside!Next
       \/ scenario = "overlap" /\ Overlap!Next

MCSpec == MCInit /\ [][MCNext]_<<scenario, dbVars, siteVars>> /\ Fairness
=============================================================================
