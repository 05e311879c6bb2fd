--------------------------- MODULE TransitionGuards ---------------------------
(***************************************************************************)
(* The evidence layer over the lifecycle                                   *)
(* (src/src/domain/session-transition.ts): what a transition request must  *)
(* show, given one guard context, and what `session next` proposes from    *)
(* the same context.  Pure operators; no state.                            *)
(*                                                                         *)
(* A guard context is a record                                             *)
(*   plan       whether a proof plan and the live repository are known     *)
(*   head       the observed HEAD (NoCommit when nothing was observed)     *)
(*   clean      the worktree was clean                                     *)
(*   onBranch   the checkout was on the branch of the proof plan           *)
(*   atBaseline the observed HEAD is the baseline of the plan              *)
(*   advanced   HEAD is a committed diff after the implementation basis    *)
(*   repaired   HEAD is a committed diff after the repair basis            *)
(*   evidence   aggregated status of the local gate receipts               *)
(*   ci         aggregated status of the signed CI receipts                *)
(*   review     [status, blocking, approved, merged] of the newest signed  *)
(*              review snapshot                                            *)
(*   attempts   repair entries already used                                *)
(*   phase      lifecycle phase                                            *)
(*   boundPlan  baseline of a plan prepared by this request, or NoCommit   *)
(*   refused    preparing that plan was refused (dirty or detached)        *)
(* A request input is a record [kind, head]: which evidence the caller     *)
(* supplied, and for a pre-PR review the commit it names.                  *)
(***************************************************************************)
EXTENDS Lifecycle

CONSTANTS
    RepairBudget,   \* REPAIR_BUDGET, 3 in the code
    NoCommit        \* absence of a commit

ASSUME RepairBudgetAssumption == RepairBudget \in Nat

\* block and recovery stand for complete evidence objects, none for an input
\* that supplies neither, malformed for a pre_pr_review object the reader
\* refuses, and the two outcomes for a well-formed pre_pr_review.
ReviewOutcomes == {"changes_required", "clean"}
InputKinds == {"none", "block", "recovery", "proof_plan", "malformed"} \cup ReviewOutcomes

EvidenceStatuses == {"missing", "passed", "failed", "setup_failed", "stale", "corrupt"}
ReviewStatuses == {"missing", "current", "stale", "corrupt"}

NoReview == [status |-> "missing", blocking |-> FALSE, approved |-> FALSE, merged |-> FALSE]

\* proofGuardContext = {}: an unknown attempt count reads as an exhausted one.
EmptyContext ==
    [plan |-> FALSE, head |-> NoCommit, clean |-> FALSE, onBranch |-> FALSE,
     atBaseline |-> FALSE, advanced |-> FALSE, repaired |-> FALSE,
     evidence |-> "missing", ci |-> "missing", review |-> NoReview,
     attempts |-> RepairBudget, phase |-> "pre_pr", boundPlan |-> NoCommit,
     refused |-> FALSE]

NoInput == [kind |-> "none", head |-> NoCommit]
-----------------------------------------------------------------------------
SuppliesPrePrReview(input) == input.kind \in ReviewOutcomes

IsPrePrReviewTransition(source, target) ==
    \/ source = "verifying" /\ target = "implementing"
    \/ source = "pre_pr_reviewing" /\ target \in {"implementing", "reviewing"}

ExpectedOutcome(target) ==
    IF target = "implementing" THEN "changes_required" ELSE "clean"

\* A failed local gate is the one reason to re-enter implementing without a
\* pre-PR review.
RequiresPrePrReview(source, target, ctx) ==
    /\ IsPrePrReviewTransition(source, target)
    /\ source = "verifying" => ctx.evidence # "failed"

ValidateTransitionEvidence(source, target, input, ctx) ==
    /\ target = "blocked" => input.kind = "block"
    /\ source = "blocked" => input.kind = "recovery"
    /\ input.kind # "malformed"
    /\ RequiresPrePrReview(source, target, ctx) => SuppliesPrePrReview(input)
    /\ SuppliesPrePrReview(input) =>
          /\ IsPrePrReviewTransition(source, target)
          /\ input.head = ctx.head
          /\ input.kind = ExpectedOutcome(target)

GetTransitionGuardRequirement(source, target) ==
    IF "blocked" \in {source, target} \/ <<source, target>> = <<"queued", "framed">>
    THEN "none"
    ELSE IF <<source, target>> = <<"framed", "proof_ready">>
    THEN "proof_plan"
    ELSE IF source \in {"reviewing", "ready_for_human"} \/ target = "completed"
    THEN "review"
    ELSE "proof"

\* Slip: a repair is taken to need no evidence to be verified again.
RequiresProofGuardContextUnlessRepairing(source, target) ==
    /\ source # "repairing"
    /\ <<source, target>> \in ForwardTransitions
    /\ GetTransitionGuardRequirement(source, target) = "proof"

RequiresProofGuardContext(source, target) ==
    /\ <<source, target>> \in ForwardTransitions
    /\ GetTransitionGuardRequirement(source, target) = "proof"
-----------------------------------------------------------------------------
\* The clean checkout of the plan branch that most proof guards insist on.
AtPlanCheckout(ctx) == ctx.clean /\ ctx.onBranch

BudgetRemains(ctx) == ctx.attempts < RepairBudget

\* evaluateProofOwnedGuards, one disjunct per transition it can authorize.
ProofOwnedGuards(source, target, input, ctx) ==
    /\ ctx.plan
    /\ \/ /\ <<source, target>> = <<"proof_ready", "implementing">>
          /\ AtPlanCheckout(ctx)
          /\ ctx.atBaseline
       \/ /\ <<source, target>> = <<"implementing", "verifying">>
          /\ AtPlanCheckout(ctx)
          /\ ctx.advanced
       \/ /\ <<source, target>> = <<"verifying", "implementing">>
          /\ ctx.phase = "pre_pr"
          /\ AtPlanCheckout(ctx)
          /\ ctx.evidence = "failed" \/ input.kind = "changes_required"
       \/ /\ source = "verifying"
          /\ \/ target = "pre_pr_reviewing" /\ ctx.phase = "pre_pr"
             \/ target = "reviewing" /\ ctx.phase = "post_pr"
          /\ ctx.evidence = "passed"
          /\ AtPlanCheckout(ctx)
          /\ ctx.ci = "passed"
       \/ /\ <<source, target>> = <<"pre_pr_reviewing", "implementing">>
          /\ ctx.phase = "pre_pr"
          /\ AtPlanCheckout(ctx)
          /\ input.kind = "changes_required"
       \/ /\ <<source, target>> = <<"pre_pr_reviewing", "reviewing">>
          /\ ctx.phase = "pre_pr"
          /\ input.kind = "clean"
          /\ ctx.evidence = "passed"
          /\ ctx.ci = "passed"
          /\ AtPlanCheckout(ctx)
       \/ /\ <<source, target>> = <<"verifying", "repairing">>
          /\ ctx.phase = "post_pr"
          /\ ctx.evidence = "failed"
          /\ BudgetRemains(ctx)
       \/ /\ <<source, target>> = <<"repairing", "verifying">>
          /\ AtPlanCheckout(ctx)
          /\ ctx.repaired

\* evaluateReviewOwnedGuards: the newest signed snapshot must be current.
\* A blocking one opens a repair while budget remains, and closes every other way.
ReviewOwnedGuards(source, target, ctx) ==
    /\ ctx.review.status = "current"
    /\ \/ /\ target = "repairing"
          /\ ctx.review.blocking
          /\ BudgetRemains(ctx)
       \/ /\ target # "repairing"
          /\ ~ctx.review.blocking
          /\ ctx.evidence = "passed"
          /\ ctx.ci = "passed"
          /\ <<source, target>> = <<"ready_for_human", "completed">> =>
                ctx.review.approved /\ ctx.review.merged

\* evaluateTransitionGuards, with the rejection a failed plan preparation leaves.
EvaluateTransitionGuards(source, target, input, blockedFrom, ctx) ==
    /\ ~ctx.refused
    /\ ~(source = "blocked" /\ blockedFrom = NotBlocked)
    /\ ValidateTransitionEvidence(source, target, input, ctx)
    /\ LET requirement == GetTransitionGuardRequirement(source, target)
       IN  \/ requirement = "none"
           \/ /\ requirement = "proof_plan"
              /\ ctx.boundPlan # NoCommit
           \/ /\ requirement = "proof"
              /\ ProofOwnedGuards(source, target, input, ctx)
           \/ /\ requirement = "review"
              /\ ReviewOwnedGuards(source, target, ctx)
-----------------------------------------------------------------------------
\* planNextTransition: the target `session next` proposes, NotBlocked for none.
PlannedTarget(state, blockedFrom, ctx) ==
    CASE state \in {"completed", "pre_pr_reviewing"} -> NotBlocked
      [] state = "blocked" -> blockedFrom
      [] state = "verifying" ->
            CASE ctx.evidence = "passed" ->
                    IF ctx.phase = "pre_pr" THEN "pre_pr_reviewing" ELSE "reviewing"
              [] ctx.evidence = "failed" ->
                    IF ctx.phase = "pre_pr" THEN "implementing"
                    ELSE IF BudgetRemains(ctx) THEN "repairing" ELSE "blocked"
              [] OTHER -> NotBlocked
      [] state \in {"reviewing", "ready_for_human"} ->
            IF ctx.review.status = "current" /\ ctx.review.blocking THEN "repairing"
            ELSE IF state = "reviewing" THEN "ready_for_human" ELSE "completed"
      [] OTHER -> DeterministicForwardTarget(state)

\* Whether the proposal is marked executable: the caller need supply nothing.
PlannedExecutable(state, blockedFrom, ctx) ==
    LET target == PlannedTarget(state, blockedFrom, ctx)
    IN  /\ target \notin {NotBlocked, "blocked"}
        /\ state # "blocked"
        /\ EvaluateTransitionGuards(state, target, NoInput, blockedFrom, ctx)
=============================================================================
