--------------------------- MODULE SessionProperties ---------------------------
(***************************************************************************)
(* What SessionController guarantees about one governed session, whatever  *)
(* the interleaving of its clients, its evidence and the repository.       *)
(***************************************************************************)
EXTENDS SessionController

GateReceipt == [gate : Gates, result : GateResults, before : Commits, after : Commits]
CiReceipt == [gate : Gates, head : Commits]
ReviewReceipt == [head : Commits, blocking : BOOLEAN, approved : BOOLEAN,
                  merged : BOOLEAN, version : Nat]
TransitionRow == [from : States, to : States, review : CommitOrNone, head : CommitOrNone]
Request == [target : States, input : [kind : InputKinds, head : CommitOrNone],
            expected : Nat, key : AllKeys]
Review == [status : ReviewStatuses, blocking : BOOLEAN, approved : BOOLEAN, merged : BOOLEAN]
GuardContext ==
    [plan : BOOLEAN, head : CommitOrNone, clean : BOOLEAN, onBranch : BOOLEAN,
     atBaseline : BOOLEAN, advanced : BOOLEAN, repaired : BOOLEAN,
     evidence : EvidenceStatuses, ci : EvidenceStatuses, review : Review,
     attempts : Nat, phase : Phases, boundPlan : CommitOrNone, refused : BOOLEAN]
Mark == Seq(Nat)
AuditCounts == [genesis : Nat, allowed : Nat, denied : Nat, applied : Nat, receipts : Nat]
ClientState == [pc : ClientSteps, request : Request, seen : Nat, mark : Mark,
                ctx : GuardContext]

\* Every variable of the controller has the shape its readers assume.
TypeOK ==
    /\ genesis \in GenesisStates
    /\ task \in [status : States, version : Nat, blockedFrom : States \cup {NotBlocked},
                 ended : BOOLEAN]
    /\ plan \in CommitOrNone
    /\ history \in Seq(TransitionRow)
    /\ ledger \subseteq [request : Request, outcome : {"applied", "rejected"}]
    /\ conflicts \subseteq Request
    /\ audit \in AuditCounts
    /\ gateReceipts \in Seq(GateReceipt)
    /\ ciReceipts \in Seq(CiReceipt)
    /\ reviewReceipts \in Seq(ReviewReceipt)
    /\ lost \subseteq {"gate", "ci", "review"} \X Nat
    /\ client \in [Clients -> ClientState]
-----------------------------------------------------------------------------
\* The rows of the transition history continue one another from genesis to the
\* projected task, and the audit ledger covers exactly these rows: the check
\* assertSessionTransitionHistoryAuthority and detectTransitionStateCorruption
\* make before every write never locks out a session the program itself wrote.
HistoryIsAuthoritative ==
    /\ Len(history) = task.version
    /\ audit.applied = Len(history)
    /\ \A i \in DOMAIN history :
          history[i].from = IF i = 1 THEN genesis ELSE history[i - 1].to
    /\ task.status = IF history = <<>> THEN genesis ELSE history[Len(history)].to
    /\ task.blockedFrom = IF task.status = "blocked" THEN history[Len(history)].from
                          ELSE NotBlocked
    /\ task.ended <=> task.status = "completed"

\* No session opens more repairs than the budget, although clients count them
\* outside the transaction that spends one (applySessionTransition trusts the
\* attemptsUsed the client read).
RepairBudgetHolds == AttemptsUsed <= RepairBudget

\* A completed session rests on the newest review the controller holds: no
\* later snapshot was hidden by the one a client had evaluated.
CompletedOnLatestReview ==
    (task.status = "completed" /\ history # <<>>) =>
        LET newest == reviewReceipts[Len(reviewReceipts)]
        IN  /\ reviewReceipts # <<>>
            /\ ~newest.blocking
            /\ newest.approved
            /\ newest.merged
            /\ newest.head = history[Len(history)].head

\* A repair opened by review keeps the commit it started from as its basis
\* until the next repair, whatever is imported meanwhile (the comment at
\* session-service.ts:1597 promises that later evidence does not move it).
ReviewRepairBasisStands ==
    LET i == LatestRepairEntry(history)
    IN  (i # 0 /\ history[i].from # "verifying") => RepairBasis(history) = history[i].head

\* An open repair that a local gate opened has the HEAD whose evidence opened it
\* as its basis, so that it can be verified again, and only on a commit after that
\* HEAD (docs/lifecycle.md:141-145).
GateRepairBasisStands ==
    LET i == LatestRepairEntry(history)
    IN  (task.status = "repairing" /\ i # 0 /\ history[i].from = "verifying")
          => RepairBasis(history) = history[i].head

\* A decided key has one request and one outcome; an applied decision is the
\* very row the history holds for its version, claimed by no other key; a
\* conflict never shadows the request that was decided.
OneDecisionPerKey ==
    /\ \A e1, e2 \in ledger : e1.request.key = e2.request.key => e1 = e2
    /\ \A e \in ledger : e.outcome = "applied" =>
          /\ e.request.expected < Len(history)
          /\ history[e.request.expected + 1].to = e.request.target
    /\ \A e1, e2 \in {e \in ledger : e.outcome = "applied"} :
          e1.request.expected = e2.request.expected => e1 = e2
    /\ \A r \in conflicts : Decided(r.key) /\ \A e \in ledger : e.request # r

\* Whatever `session next` marks executable, the transaction would accept from
\* a caller who observed the same repository and nothing newer.
PlannerAgreesWithApply ==
    \A observed \in Observations :
        LET ctx == ProofGuardContext(observed, history)
            target == PlannedTarget(task.status, task.blockedFrom, ctx)
        IN  PlannedExecutable(task.status, task.blockedFrom, ctx) =>
              /\ EvaluateLifecycleTransition(task.status, target, task.blockedFrom,
                                             LifecyclePhase(history))
              /\ EvaluateTransitionGuards(task.status, target, NoInput, task.blockedFrom,
                    IF \/ GetTransitionGuardRequirement(task.status, target) = "review"
                       \/ RequiresProofGuardContext(task.status, target)
                    THEN ctx ELSE EmptyContext)
-----------------------------------------------------------------------------
\* Action properties.  A step that applies a transition is one that lengthens
\* the history; its row says what the guards saw.

Applied == history' # history
AppliedRow == history'[Len(history')]

NewestReceiptsPass(head) ==
    \A gate \in Gates :
        LET i == LatestOfGate(gateReceipts, gate)
            j == LatestOfGate(ciReceipts, gate)
        IN  /\ i # 0 /\ j # 0
            /\ gateReceipts[i].result = "passed"
            /\ {gateReceipts[i].before, gateReceipts[i].after, ciReceipts[j].head} = {head}

NewestReviewBlocks(head) ==
    LET newest == reviewReceipts[Len(reviewReceipts)]
    IN  reviewReceipts # <<>> /\ newest.head = head /\ newest.blocking

SomeNewestGateFails(head) ==
    \E gate \in Gates :
        LET i == LatestOfGate(gateReceipts, gate)
        IN  /\ i # 0
            /\ gateReceipts[i].result \notin {"passed", "setup_failed"}
            /\ {gateReceipts[i].before, gateReceipts[i].after} = {head}

CommitsOnNewestEvidence ==
    Applied /\ AppliedRow.from # "blocked" =>
        /\ AppliedRow.to \in {"pre_pr_reviewing", "reviewing", "ready_for_human", "completed"}
             => NewestReceiptsPass(AppliedRow.head)
        /\ AppliedRow.from \in {"reviewing", "ready_for_human"} /\ AppliedRow.to = "repairing"
             => NewestReviewBlocks(AppliedRow.head)
        /\ AppliedRow.from \in {"reviewing", "ready_for_human"}
             /\ AppliedRow.to \in {"ready_for_human", "completed"}
             => ~NewestReviewBlocks(AppliedRow.head)
        /\ AppliedRow.from = "verifying" /\ AppliedRow.to = "repairing"
             => SomeNewestGateFails(AppliedRow.head)

\* At the instant a transition commits, the newest receipts stored still say
\* what its guards were told, for the HEAD they observed: nothing that arrived
\* between evaluation and commit is skipped over.
CommittedOnNewestEvidence == [][CommitsOnNewestEvidence]_vars

AdvancesFromReview ==
    Applied /\ AppliedRow.from = "implementing" /\ AppliedRow.to = "verifying" =>
        LET i == LatestImplementationEntry(history)
        IN  (i # 0 /\ history[i].review # NoCommit)
              => <<history[i].head, AppliedRow.head>> \in Descends

\* Implementation that a pre-PR review sent back re-enters verification only on
\* a committed change after the reviewed commit, however HEAD moved meanwhile.
ReviewedImplementationAdvances == [][AdvancesFromReview]_vars

AdvancesFromRepair ==
    Applied /\ AppliedRow.from = "repairing" /\ AppliedRow.to = "verifying" =>
        LET i == LatestRepairEntry(history)
        IN  (i # 0 /\ history[i].from # "verifying")
              => <<history[i].head, AppliedRow.head>> \in Descends

\* A repair that a signed review opened re-enters verification only on a
\* committed change after the HEAD the review blocked.
ReviewedRepairAdvances == [][AdvancesFromRepair]_vars
-----------------------------------------------------------------------------
\* The controller implements the lifecycle it governs.
Promise == INSTANCE GovernedLifecycle WITH
    Budget <- RepairBudget,
    Origins <- GenesisStates,
    state <- task.status,
    resumesTo <- task.blockedFrom,
    phase <- LifecyclePhase(history),
    repairs <- AttemptsUsed

\* Refinement: every run of the controller is a run of GovernedLifecycle.
ImplementsGovernedLifecycle == Promise!Governed

\* A request in flight is eventually answered, even when evidence keeps it
\* busy for a while: STATE_BUSY cannot repeat without new evidence.
RequestsAreAnswered ==
    \A c \in Clients : client[c].pc # "idle" ~> client[c].pc = "idle"
=============================================================================
