-------------------------- MODULE GovernedLifecycle --------------------------
(***************************************************************************)
(* What a governed session promises an observer who sees only its          *)
(* lifecycle: which state it is in, whether its pull request exists yet,   *)
(* what it will resume to and how many repairs it has opened.  Clients,    *)
(* versions, evidence and the database are absent.  The edges are those    *)
(* src/src/domain/lifecycle.ts admits, sorted by the phase that can take   *)
(* them.                                                                   *)
(***************************************************************************)
EXTENDS Lifecycle

CONSTANTS
    Budget,     \* repairs a session may open
    Origins     \* states a session may be governed from

VARIABLES state, resumesTo, phase, repairs

lifecycle == <<state, resumesTo, phase, repairs>>

\* Work before the pull request.
PrePrSteps ==
    {<<"queued", "framed">>, <<"framed", "proof_ready">>, <<"proof_ready", "implementing">>,
     <<"implementing", "verifying">>, <<"verifying", "implementing">>,
     <<"verifying", "pre_pr_reviewing">>, <<"pre_pr_reviewing", "implementing">>}

\* Work on the pull request.
PostPrSteps ==
    {<<"verifying", "reviewing">>, <<"reviewing", "ready_for_human">>,
     <<"ready_for_human", "completed">>}

Origin ==
    /\ state \in Origins
    /\ resumesTo = NotBlocked
    /\ phase = IF state \in PostPrStates THEN "post_pr" ELSE "pre_pr"
    /\ repairs = 0

Work(steps) ==
    /\ \E target \in States : <<state, target>> \in steps /\ state' = target
    /\ UNCHANGED <<resumesTo, phase, repairs>>

WorkBeforePr == phase = "pre_pr" /\ Work(PrePrSteps)

WorkOnPr == phase = "post_pr" /\ Work(PostPrSteps)

\* The pull request exists from here on, for good.
OpenPullRequest ==
    /\ phase = "pre_pr"
    /\ state = "pre_pr_reviewing"
    /\ state' = "reviewing"
    /\ phase' = "post_pr"
    /\ UNCHANGED <<resumesTo, repairs>>

OpenRepair ==
    /\ phase = "post_pr"
    /\ state \in RepairEntryStates
    /\ repairs < Budget
    /\ state' = "repairing"
    /\ repairs' = repairs + 1
    /\ UNCHANGED <<resumesTo, phase>>

\* In either phase: a session may be governed from an open repair, before
\* anything recorded says that its pull request exists.
FinishRepair == Work({<<"repairing", "verifying">>})

Block ==
    /\ state \notin {"blocked", "completed"}
    /\ resumesTo' = state
    /\ state' = "blocked"
    /\ UNCHANGED <<phase, repairs>>

Resume ==
    /\ state = "blocked"
    /\ state' = resumesTo
    /\ resumesTo' = NotBlocked
    /\ UNCHANGED <<phase, repairs>>

Advance ==
    \/ WorkBeforePr \/ WorkOnPr \/ OpenPullRequest
    \/ OpenRepair \/ FinishRepair
    \/ Block \/ Resume

Governed == Origin /\ [][Advance]_lifecycle
=============================================================================
