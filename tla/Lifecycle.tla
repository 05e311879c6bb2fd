------------------------------ MODULE Lifecycle ------------------------------
(***************************************************************************)
(* The fixed governed PR lifecycle (src/src/domain/lifecycle.ts): which    *)
(* transitions have a shape the lifecycle knows, and in which phase of the *)
(* session.  Pure operators; no state.  Evidence is a separate layer       *)
(* (TransitionGuards).                                                     *)
(***************************************************************************)
EXTENDS Naturals

States == {"queued", "framed", "proof_ready", "implementing", "verifying",
           "pre_pr_reviewing", "reviewing", "repairing", "ready_for_human",
           "blocked", "completed"}

\* The null of blocked_from_state: the session is not blocked.
NotBlocked == "not_blocked"

Phases == {"pre_pr", "post_pr"}

RepairEntryStates == {"verifying", "reviewing", "ready_for_human"}

PostPrStates == {"reviewing", "ready_for_human", "completed"}

\* FORWARD_TRANSITIONS as a set of pairs.
ForwardTransitions ==
    {<<"queued", "framed">>,
     <<"framed", "proof_ready">>,
     <<"proof_ready", "implementing">>,
     <<"implementing", "verifying">>,
     <<"verifying", "implementing">>,
     <<"verifying", "pre_pr_reviewing">>,
     <<"verifying", "reviewing">>,
     <<"verifying", "repairing">>,
     <<"pre_pr_reviewing", "implementing">>,
     <<"pre_pr_reviewing", "reviewing">>,
     <<"reviewing", "repairing">>,
     <<"reviewing", "ready_for_human">>,
     <<"repairing", "verifying">>,
     <<"ready_for_human", "repairing">>,
     <<"ready_for_human", "completed">>}

\* The states a blocked session may not resume to, even if they were recorded.
Unresumable == {NotBlocked, "blocked", "completed"}

\* Slip: any state that may be resumed to will do.
MayResumeAnywhere(target, blockedFrom) ==
    {target, blockedFrom} \cap Unresumable = {}

\* Leaving blocked: only to the one recorded prior state.
MayResume(target, blockedFrom) ==
    /\ blockedFrom \notin Unresumable
    /\ target = blockedFrom

\* Edges of the forward table that the phase of the session withdraws.
PhaseForbids(source, target, phase) ==
    \/ /\ phase = "post_pr"
       /\ target = "implementing"
       /\ source # "proof_ready"
    \/ /\ phase = "pre_pr"
       /\ source = "verifying"
       /\ target = "reviewing"
    \/ /\ phase = "post_pr"
       /\ "pre_pr_reviewing" \in {source, target}

\* evaluateLifecycleTransition: TRUE when the decision code is
\* TRANSITION_ALLOWED.  Completed is terminal; anything else may be blocked.
EvaluateLifecycleTransition(source, target, blockedFrom, phase) ==
    /\ source # "completed"
    /\ \/ /\ source = "blocked"
          /\ MayResume(target, blockedFrom)
       \/ /\ source # "blocked"
          /\ target = "blocked"
       \/ /\ source # "blocked"
          /\ <<source, target>> \in ForwardTransitions
          /\ ~PhaseForbids(source, target, phase)

\* deriveLifecyclePhase over the set of states the session has been in
\* (its audit genesis state and the target of every applied transition).
DeriveLifecyclePhase(visited) ==
    IF visited \cap PostPrStates # {} THEN "post_pr" ELSE "pre_pr"

IsRepairEntryTransition(source, target) ==
    target = "repairing" /\ source \in RepairEntryStates

\* getDeterministicForwardTarget, for a state with one way forward.
DeterministicForwardTarget(source) ==
    CHOOSE target \in States : <<source, target>> \in ForwardTransitions
=============================================================================
