-------------------------- MODULE MC_SessionLifecycle --------------------------
(***************************************************************************)
(* Two instances of SessionController, each in behaviours of its own: one  *)
(* client with the requests, inputs and observations of the .cfg, and two  *)
(* clients who share idempotency keys.                                     *)
(***************************************************************************)
EXTENDS SessionProperties, SessionRequests

CONSTANT Soloist    \* the client who has a session for itself

VARIABLE scenario

Alone == INSTANCE SessionController WITH Keys <- {}

Sharing == INSTANCE SessionController WITH
    Commits <- {c1}, Descends <- NoDescent, Observations <- CleanAtOne,
    Requests <- RetryRequests, Verdicts <- ReviewVerdicts, GateResults <- {"failed"},
    GenesisStates <- {"verifying"}, MaxVersion <- 2, MaxCiReceipts <- 0,
    MaxReviewReceipts <- 0, MaxLost <- 0

ScenariosInit ==
    \/ scenario = "alone" /\ Alone!Init
    \/ scenario = "sharing" /\ Sharing!Init

ScenariosNext ==
    /\ \/ scenario = "alone" /\ Alone!Next
             /\ \A c \in Clients \ {Soloist} : client'[c] = client[c]
       \/ scenario = "sharing" /\ Sharing!Next
    /\ UNCHANGED scenario

scenarioVars == <<scenario, vars>>

\* Fairness is assumed of the clients that share keys only.
Scenarios ==
    /\ ScenariosInit
    /\ [][ScenariosNext]_scenarioVars
    /\ \A c \in Clients :
          WF_scenarioVars(scenario = "sharing" /\ Sharing!Answers(c) /\ UNCHANGED scenario)

\* Of clients that share keys, each request is answered once evidence stops
\* arriving: a transition that found its evidence changed persists nothing and
\* asks for a retry (sqlite-store.ts:839).
SharedRequestsAreAnswered == scenario = "sharing" => RequestsAreAnswered
=============================================================================
