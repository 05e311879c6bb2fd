--------------------------- MODULE SessionRequests ---------------------------
(***************************************************************************)
(* What clients ask for, observe and import in the TLC instances of        *)
(* SessionController.                                                      *)
(***************************************************************************)
EXTENDS TransitionGuards

CONSTANTS c1, c2    \* commits; c2 has a committed change after c1

NoDescent == {}
TwoCommits == {<<c1, c2>>}

Ask(target, kind, head) == [target |-> target, input |-> [kind |-> kind, head |-> head]]
Bare(targets) == {Ask(target, "none", NoCommit) : target \in targets}

CleanAt(commits) == [head : commits, clean : {TRUE}, onBranch : {TRUE}]
Unusable(commit) == {[head |-> commit, clean |-> FALSE, onBranch |-> TRUE],
                     [head |-> commit, clean |-> TRUE, onBranch |-> FALSE]}

Blocking == [blocking |-> TRUE, approved |-> FALSE, merged |-> FALSE]
ApprovedOpen == [blocking |-> FALSE, approved |-> TRUE, merged |-> FALSE]
ApprovedMerged == [blocking |-> FALSE, approved |-> TRUE, merged |-> TRUE]

CleanAtOne == CleanAt({c1})
CleanAtTwo == CleanAt({c1, c2})
-----------------------------------------------------------------------------
\* A review that changes its mind while the work is being completed.
ReviewRequests ==
    Bare({"pre_pr_reviewing", "repairing", "ready_for_human", "completed"})
    \cup {Ask("reviewing", "clean", c1)}
ReviewVerdicts == {Blocking, ApprovedMerged}

\* Post-PR work: review findings, failing gates, repairs.
RepairRequests == Bare({"repairing", "verifying", "reviewing"})
RepairVerdicts == {Blocking}

\* Shared and repeated idempotency keys around a block and its recovery, and a
\* gate run racing the transition it informs.
RetryRequests ==
    {Ask("blocked", "block", NoCommit), Ask("verifying", "recovery", NoCommit),
     Ask("implementing", "none", NoCommit)}

\* Every request, with every kind of input that changes its fate.
EveryRequest ==
    Bare(States \ {"queued"})
    \cup {Ask("proof_ready", "proof_plan", NoCommit), Ask("blocked", "block", NoCommit),
          Ask("implementing", "changes_required", c2), Ask("reviewing", "clean", c2),
          Ask("reviewing", "malformed", NoCommit)}
    \cup {Ask(target, "recovery", NoCommit) : target \in {"verifying", "repairing", "reviewing"}}
EveryObservation == CleanAt({c1, c2}) \cup Unusable(c2)
EveryVerdict == {Blocking, ApprovedOpen, ApprovedMerged}
=============================================================================
