------------------------- MODULE MC_SessionScenarios -------------------------
(***************************************************************************)
(* Two instances of SessionController, each in behaviours of its own:      *)
(* repairing work, with the constants of the .cfg, and completing work     *)
(* whose review changes its mind.                                          *)
(***************************************************************************)
EXTENDS SessionProperties, SessionRequests, TLC

VARIABLE scenario

Completing == INSTANCE SessionController WITH
    Commits <- {c1}, Descends <- NoDescent, Observations <- CleanAtOne,
    Requests <- ReviewRequests, Verdicts <- ReviewVerdicts, GenesisStates <- {"verifying"},
    MaxGateReceipts <- 2

ScenariosInit ==
    \/ scenario = "repair" /\ Init
    \/ scenario = "review" /\ Completing!Init

ScenariosNext ==
    /\ \/ scenario = "repair" /\ Next
       \/ scenario = "review" /\ Completing!Next
    /\ UNCHANGED scenario

Scenarios == ScenariosInit /\ [][ScenariosNext]_<<scenario, vars>>

ClientSymmetry == Permutations(Clients)
=============================================================================
