---------------------------- MODULE ExecutorLayers ----------------------------
(***************************************************************************)
(* The two layers of the GAAP executor, each in a behaviour of its own:    *)
(* the state database under failing commits (GaapState), and the service   *)
(* over the answers that the database promises (GaapExecutor).             *)
(***************************************************************************)
EXTENDS GaapState

CONSTANTS Processes, MaxSubject, MaxRuns, MaxRevision   \* see GaapExecutor

ASSUME ServiceAssumption == MaxSubject \in Nat /\ MaxRuns \in Nat /\ MaxRevision \in Nat

VARIABLES
    layer,                                                      \* which of them runs
    faults, subject, leased, root, launch, observations,        \* GaapExecutor
    accepted, evaluations, overtaken, directories, made, spawned, process

Service == INSTANCE GaapExecutor

serviceOnly == <<faults, subject, leased, root, launch, observations, accepted, evaluations,
                 overtaken, directories, made, spawned, process>>
layersVars == <<layer, vars, serviceOnly>>

LayersInit ==
    /\ layer \in {"state", "service"}
    /\ Init
    /\ Service!Init
    /\ layer = "state" => faults = {}

LayersNext ==
    \/ layer = "state" /\ Next /\ UNCHANGED <<layer, serviceOnly>>
    \/ layer = "service" /\ Service!Next /\ UNCHANGED <<layer, vars>>

LayersSpec == LayersInit /\ [][LayersNext]_layersVars
-----------------------------------------------------------------------------
\* Each layer keeps its variables in shape.
LayersTypeOK == TypeOK /\ Service!TypeOK

\* See GaapExecutor.
LaunchedOnce == Service!LaunchedOnce

\* See GaapExecutor.
OutputDirectoriesMatchLaunch == Service!OutputDirectoriesMatchLaunch

\* See GaapExecutor.
EvaluationsNeverRegress == Service!EvaluationsNeverRegress

\* See GaapExecutor.
ResponsesAreRetained == Service!ResponsesAreRetained

\* See GaapExecutor.
OnlyOvertakenResponsesAreLost == Service!OnlyOvertakenResponsesAreLost
=============================================================================
