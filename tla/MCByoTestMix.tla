---------------------------- MODULE MCByoTestMix ----------------------------
(* Two ways to spend small bounds on ByoTest: processes that race each     *)
(* other, and one process beside the API with reports of both kinds.       *)
EXTENDS MCByoTest

CONSTANTS dirA, dirB

VARIABLE scenario

Race == INSTANCE ByoTest WITH
    Reports <- OneReport, UserJson <- FALSE, CopyFails <- FALSE, MaxTestRuns <- 3,
    MaxPosts <- 0, MaxClock <- 1

Api == INSTANCE ByoTest WITH
    Path <- {dirA}, MaxTestRuns <- 1

MixInit == Init /\ scenario \in {"race", "api"}

MixNext ==
    /\ UNCHANGED scenario
    /\ \/ scenario = "race" /\ Race!Next
       \/ scenario = "api" /\ Api!Next

MixSpec == MixInit /\ [][MixNext]_<<scenario, vars>> /\ Fairness
=============================================================================
