--------------------------- MODULE SessionController ---------------------------
(***************************************************************************)
(* One governed session, driven by concurrent `threadloop` processes that  *)
(* share only the SQLite state database                                    *)
(* (src/src/services/session-service.ts, src/src/adapters/fs/              *)
(* sqlite-store.ts).  A client handles a transition request in separate    *)
(* steps: it reads the lifecycle, gathers evidence outside any             *)
(* transaction, and applies the transition in one write transaction.       *)
(* Receipts arrive, artifacts vanish and other clients move the session    *)
(* between any two of those steps.                                         *)
(*                                                                         *)
(* The repository is not under the controller's control and is re-read     *)
(* each time, so it has no variable: every read yields an arbitrary member *)
(* of Observations.  Versions are counted from the audit floor.            *)
(***************************************************************************)
EXTENDS TransitionGuards, SequencesExt

CONSTANTS
    Clients,        \* processes that request transitions
    Keys,           \* idempotency keys that may be shared or reused
    Fresh,          \* a key used by nobody else: its record is never read
    Commits,
    Descends,       \* <<a, b>>: a is an ancestor of b with a different tree
    Gates,          \* gates the proof plan declares
    GateResults,    \* outcomes of a local gate run
    Observations,   \* [head, clean, onBranch]: what reading the repository may give
    Requests,       \* [target, input]: what a client may ask for
    Verdicts,       \* [blocking, approved, merged]: content of a review snapshot
    GenesisStates,  \* lifecycle state bound by the session's first audit event
    Foresight,      \* how far a request's expected version may exceed the one read
    MaxVersion, MaxRejections,  \* no new request once either is reached
    MaxGateReceipts, MaxCiReceipts, MaxReviewReceipts, MaxLost

ASSUME ConstantsAssumption ==
    /\ NoCommit \notin Commits
    /\ Fresh \notin Keys
    /\ Descends \subseteq {p \in Commits \X Commits : p[1] # p[2]}
    /\ Gates # {}
    /\ GateResults \subseteq {"passed", "failed", "setup_failed", "invalidated"}
    /\ Observations \subseteq [head : Commits, clean : BOOLEAN, onBranch : BOOLEAN]
    /\ Requests \subseteq [target : States,
                           input : [kind : InputKinds, head : Commits \cup {NoCommit}]]
    /\ Verdicts \subseteq [blocking : BOOLEAN, approved : BOOLEAN, merged : BOOLEAN]
    /\ GenesisStates \subseteq States \ {"blocked"}
    /\ {Foresight, MaxVersion, MaxGateReceipts, MaxCiReceipts, MaxReviewReceipts,
        MaxRejections, MaxLost} \subseteq Nat

VARIABLES
    genesis,        \* state recorded by session_started or audit_activated
    task,           \* the projection row: status, version, blockedFrom, ended
    plan,           \* baseline commit of the immutable proof plan, or NoCommit
    history,        \* session_transitions, row i going from version i-1 to i
    ledger,         \* transition_idempotency: decided requests of reusable keys
    conflicts,      \* transition_idempotency_conflicts
    audit,          \* number of audit events of each kind
    gateReceipts, ciReceipts, reviewReceipts,   \* append-only, by sequence
    lost,           \* artifacts and packages that no longer match their digest
    client          \* the request each client has in flight

database == <<genesis, task, plan, history, ledger, conflicts, audit>>
receipts == <<gateReceipts, ciReceipts, reviewReceipts>>
vars == <<database, receipts, lost, client>>

AllKeys == Keys \cup {Fresh}
CommitOrNone == Commits \cup {NoCommit}
ClientSteps == {"idle", "plan", "watermark", "evidence", "apply", "busy"}

NoMark == <<>>
NoRequest == [target |-> "queued", input |-> NoInput, expected |-> 0, key |-> Fresh]
IdleClient == [pc |-> "idle", request |-> NoRequest, seen |-> 0, mark |-> NoMark,
               ctx |-> EmptyContext]
-----------------------------------------------------------------------------
\* Reading the transition history.  A client reasons about the history it
\* read first, which may be a prefix of the stored one.

Visited(past) == {genesis} \cup {past[i].to : i \in DOMAIN past}

LifecyclePhase(past) == DeriveLifecyclePhase(Visited(past))

RepairEntries(past) ==
    {i \in DOMAIN past : IsRepairEntryTransition(past[i].from, past[i].to)}

AttemptsUsed == Cardinality(RepairEntries(history))

\* The most recent work episode of each kind, 0 for none.
LatestImplementationEntry(past) ==
    LET Enters(row) == /\ row.to = "implementing"
                       /\ row.from \in {"proof_ready", "verifying", "pre_pr_reviewing"}
    IN  SelectLastInSeq(past, Enters)

LatestRepairEntry(past) ==
    LET Enters(row) == IsRepairEntryTransition(row.from, row.to)
    IN  SelectLastInSeq(past, Enters)
-----------------------------------------------------------------------------
\* Evidence, as a read of the stored receipts evaluates it against one HEAD.

\* aggregateGateStatus: all passed, or the worst status present.
AggregateGateStatus(statuses) ==
    IF statuses \subseteq {"passed"} THEN "passed"
    ELSE IF "corrupt" \in statuses THEN "corrupt"
    ELSE IF "setup_failed" \in statuses THEN "setup_failed"
    ELSE IF "failed" \in statuses THEN "failed"
    ELSE IF "stale" \in statuses THEN "stale"
    ELSE "missing"

LatestOfGate(stored, gate) ==
    LET Describes(receipt) == receipt.gate = gate
    IN  SelectLastInSeq(stored, Describes)

GateStatus(gate, head) ==
    LET i == LatestOfGate(gateReceipts, gate)
        receipt == gateReceipts[i]
    IN  IF i = 0 THEN "missing"
        ELSE IF <<"gate", i>> \in lost THEN "corrupt"
        ELSE IF {receipt.before, receipt.after} # {head} THEN "stale"
        ELSE IF receipt.result \in {"passed", "setup_failed"} THEN receipt.result
        ELSE "failed"

CiStatus(gate, head) ==
    LET i == LatestOfGate(ciReceipts, gate)
    IN  IF i = 0 THEN "missing"
        ELSE IF <<"ci", i>> \in lost THEN "corrupt"
        ELSE IF ciReceipts[i].head # head THEN "stale"
        ELSE "passed"

\* Without a plan there is nothing to evaluate receipts against.
LocalEvidence(head) ==
    IF plan = NoCommit THEN "missing"
    ELSE AggregateGateStatus({GateStatus(gate, head) : gate \in Gates})

CiEvidence(head) ==
    IF plan = NoCommit THEN "missing"
    ELSE AggregateGateStatus({CiStatus(gate, head) : gate \in Gates})

\* Slip: nothing stored is reported with a status no reader knows.
ReviewEvidenceUnknown(head) ==
    IF reviewReceipts = <<>> THEN [NoReview EXCEPT !.status = "policy_missing"]
    ELSE NoReview

\* Only the newest snapshot counts.
ReviewEvidence(head) ==
    LET newest == Len(reviewReceipts)
        snapshot == reviewReceipts[newest]
    IN  IF plan = NoCommit \/ newest = 0 THEN NoReview
        ELSE IF <<"review", newest>> \in lost THEN [NoReview EXCEPT !.status = "corrupt"]
        ELSE [status |-> IF snapshot.head = head THEN "current" ELSE "stale",
              blocking |-> snapshot.blocking,
              approved |-> snapshot.approved,
              merged |-> snapshot.merged]

\* The newest receipt of a gate that ran on one commit and failed there.
LatestFailure ==
    LET FailedHere(receipt) == receipt.result = "failed"
        i == SelectLastInSeq(gateReceipts, FailedHere)
    IN  IF i = 0 THEN NoCommit ELSE gateReceipts[i].after

\* Slip: implementation always restarts from the baseline of the plan.
ImplementationBasisOfPlan(past, evidence) == plan

ImplementationBasis(past, evidence) ==
    LET i == LatestImplementationEntry(past)
        entered == i # 0
    IN  IF entered /\ past[i].review # NoCommit THEN past[i].review
        ELSE IF /\ LifecyclePhase(past) = "pre_pr"
                /\ \/ evidence = "failed"
                   \/ entered /\ past[i].from = "verifying"
                /\ LatestFailure # NoCommit
             THEN LatestFailure
        ELSE plan

\* Slip: the basis follows the newest snapshot.
RepairBasisOfNewestSnapshot(past) ==
    LET i == LatestRepairEntry(past)
    IN  IF i = 0 THEN NoCommit
        ELSE IF past[i].from = "verifying" THEN LatestFailure
        ELSE IF reviewReceipts = <<>> THEN NoCommit
        ELSE reviewReceipts[Len(reviewReceipts)].head

\* Slip: every repair starts from the baseline of the plan.
RepairBasisOfPlan(past) == IF LatestRepairEntry(past) = 0 THEN NoCommit ELSE plan

\* A review repair starts from the snapshot that authorized it; a gate repair
\* from the latest failure.
RepairBasis(past) ==
    LET i == LatestRepairEntry(past)
        Authorized(receipt) == receipt.version < i
        snapshot == SelectLastInSeq(reviewReceipts, Authorized)
    IN  IF i = 0 THEN NoCommit
        ELSE IF past[i].from = "verifying" THEN LatestFailure
        ELSE IF snapshot = 0 THEN NoCommit
        ELSE reviewReceipts[snapshot].head

\* buildProofGuardContext over evaluateSessionProof.
ProofGuardContext(observed, past) ==
    LET head == observed.head
        evidence == LocalEvidence(head)
    IN  [plan |-> plan # NoCommit,
         head |-> head,
         clean |-> observed.clean,
         onBranch |-> observed.onBranch,
         atBaseline |-> head = plan,
         advanced |-> <<ImplementationBasis(past, evidence), head>> \in Descends,
         repaired |-> <<RepairBasis(past), head>> \in Descends,
         evidence |-> evidence,
         ci |-> CiEvidence(head),
         review |-> ReviewEvidence(head),
         attempts |-> AttemptsUsed,
         phase |-> LifecyclePhase(past),
         boundPlan |-> NoCommit,
         refused |-> FALSE]

\* Slip: local gate receipts are left out of the watermark.
WatermarkOfSignedReceipts == <<0, Len(ciReceipts), Len(reviewReceipts)>>

\* readEvidenceWatermark.
Watermark == <<Len(gateReceipts), Len(ciReceipts), Len(reviewReceipts)>>
-----------------------------------------------------------------------------
\* Slip: a refusal does not use its key up.
DecidedByApplying(key) ==
    \E entry \in ledger : entry.request.key = key /\ entry.outcome = "applied"

Decided(key) == \E entry \in ledger : entry.request.key = key

\* What a request needs before it may be applied.
FirstStep(request) ==
    IF Decided(request.key) THEN "apply"
    ELSE IF /\ task.status = "framed"
            /\ task.version = request.expected
            /\ request.target = "proof_ready"
         THEN "plan"
    ELSE IF \/ GetTransitionGuardRequirement(task.status, request.target) = "review"
            \/ RequiresProofGuardContext(task.status, request.target)
         THEN "watermark"
    ELSE "apply"

ReadLifecycle(request) ==
    [pc |-> FirstStep(request), request |-> request, seen |-> task.version,
     mark |-> NoMark, ctx |-> EmptyContext]

Init ==
    /\ genesis \in GenesisStates
    /\ task = [status |-> genesis, version |-> 0, blockedFrom |-> NotBlocked,
               ended |-> genesis = "completed"]
    /\ plan \in IF genesis \in {"queued", "framed"} THEN {NoCommit} ELSE Commits
    /\ history = <<>>
    /\ ledger = {}
    /\ conflicts = {}
    /\ audit = [genesis |-> 1, allowed |-> 0, denied |-> 0, applied |-> 0, receipts |-> 0]
    /\ gateReceipts = <<>>
    /\ ciReceipts = <<>>
    /\ reviewReceipts = <<>>
    /\ lost = {}
    /\ client = [c \in Clients |-> IdleClient]
-----------------------------------------------------------------------------
\* The steps of transitionSession before its write transaction.

\* With a fresh key an outdated version is only ever refused, so only a reused
\* key asks for one.
ExpectedVersions(key) ==
    (IF key \in Keys THEN 0 ELSE task.version) .. (task.version + Foresight)

Begin(c) ==
    /\ client[c].pc = "idle"
    /\ task.version < MaxVersion
    /\ audit.denied <= MaxRejections
    /\ \E ask \in Requests, key \in AllKeys :
          \E expected \in ExpectedVersions(key) :
             client' = [client EXCEPT ![c] =
                ReadLifecycle([target |-> ask.target, input |-> ask.input,
                               expected |-> expected, key |-> key])]
    /\ UNCHANGED <<database, receipts, lost>>

\* prepareBoundProofPlan: at this point onBranch says HEAD is on a named branch.
PreparePlan(c) ==
    /\ client[c].pc = "plan"
    /\ \E observed \in Observations :
          LET usable == observed.clean /\ observed.onBranch
          IN  client' = [client EXCEPT
                 ![c].pc = "apply",
                 ![c].ctx = [EmptyContext EXCEPT
                    !.boundPlan = IF usable THEN observed.head ELSE NoCommit,
                    !.refused = ~usable]]
    /\ UNCHANGED <<database, receipts, lost>>

ReadWatermark(c) ==
    /\ client[c].pc = "watermark"
    /\ client' = [client EXCEPT ![c].pc = "evidence", ![c].mark = Watermark]
    /\ UNCHANGED <<database, receipts, lost>>

\* The history is the one read with the lifecycle; receipts and attempts are
\* read now.
ReadEvidence(c) ==
    /\ client[c].pc = "evidence"
    /\ \E observed \in Observations :
          client' = [client EXCEPT
             ![c].pc = "apply",
             ![c].ctx = ProofGuardContext(observed, SubSeq(history, 1, client[c].seen))]
    /\ UNCHANGED <<database, receipts, lost>>

\* STATE_BUSY tells the caller to repeat the identical request.
Retry(c) ==
    /\ client[c].pc = "busy"
    /\ client' = [client EXCEPT ![c] = ReadLifecycle(client[c].request)]
    /\ UNCHANGED <<database, receipts, lost>>

\* The process dies, the caller gives up, or the answer is lost.
Abandon(c) ==
    /\ client[c].pc # "idle"
    /\ client' = [client EXCEPT ![c] = IdleClient]
    /\ UNCHANGED <<database, receipts, lost>>
-----------------------------------------------------------------------------
\* applySessionTransition: one write transaction, checks in the code's order.

CanApply(c) == client[c].pc = "apply"

\* Slip: a request that expects an older version is let through.
VersionNotAhead(c) == client[c].request.expected <= task.version

VersionMatches(c) == client[c].request.expected = task.version

StructurallyAllowed(c) ==
    EvaluateLifecycleTransition(task.status, client[c].request.target,
                                task.blockedFrom, LifecyclePhase(history))

\* Slip: the evidence is not compared again in the transaction.
EvidenceNotCompared(c) == TRUE

\* Slip: the two watermarks are put together in different orders.
EvidenceComparedOutOfOrder(c) ==
    client[c].mark \in {NoMark, <<Len(reviewReceipts), Len(ciReceipts), Len(gateReceipts)>>}

EvidenceUnchanged(c) == client[c].mark \in {NoMark, Watermark}

GuardsAllow(c) ==
    EvaluateTransitionGuards(task.status, client[c].request.target,
                             client[c].request.input, task.blockedFrom, client[c].ctx)

\* Slip: leaving blocked does not clear the state it was blocked from.
NextTaskStillBlocked(target) ==
    [status |-> target,
     version |-> task.version + 1,
     blockedFrom |-> IF target = "blocked" THEN task.status ELSE task.blockedFrom,
     ended |-> task.ended \/ target = "completed"]

NextTask(target) ==
    [status |-> target,
     version |-> task.version + 1,
     blockedFrom |-> IF target = "blocked" THEN task.status ELSE NotBlocked,
     ended |-> task.ended \/ target = "completed"]

Answer(c) == client' = [client EXCEPT ![c] = IdleClient]

Record(request, outcome) ==
    ledger' = ledger \cup
        (IF request.key \in Keys THEN {[request |-> request, outcome |-> outcome]} ELSE {})

\* The key was decided: repeat the stored answer, or the stored conflict.
Replay(c) ==
    /\ CanApply(c)
    /\ \/ \E entry \in ledger : entry.request = client[c].request
       \/ client[c].request \in conflicts
    /\ Answer(c)
    /\ UNCHANGED <<database, receipts, lost>>

\* The key was decided for another request.
RecordConflict(c) ==
    LET request == client[c].request
    IN  /\ CanApply(c)
        /\ Decided(request.key)
        /\ \A entry \in ledger : entry.request # request
        /\ request \notin conflicts
        /\ conflicts' = conflicts \cup {request}
        /\ audit' = [audit EXCEPT !.denied = @ + 1]
        /\ Answer(c)
        /\ UNCHANGED <<genesis, task, plan, history, ledger, receipts, lost>>

\* STATE_VERSION_CONFLICT, TRANSITION_NOT_ALLOWED or TRANSITION_GUARD_FAILED.
RejectTransition(c) ==
    LET request == client[c].request
    IN  /\ CanApply(c)
        /\ ~Decided(request.key)
        /\ \/ ~VersionMatches(c)
           \/ ~StructurallyAllowed(c)
           \/ EvidenceUnchanged(c) /\ ~GuardsAllow(c)
        /\ Record(request, "rejected")
        /\ audit' = [audit EXCEPT !.denied = @ + 1]
        /\ Answer(c)
        /\ UNCHANGED <<genesis, task, plan, history, conflicts, receipts, lost>>

\* Receipts arrived while the evidence was being evaluated: persist nothing.
ReportEvidenceChanged(c) ==
    /\ CanApply(c)
    /\ ~Decided(client[c].request.key)
    /\ VersionMatches(c)
    /\ StructurallyAllowed(c)
    /\ ~EvidenceUnchanged(c)
    /\ client' = [client EXCEPT ![c] = [IdleClient EXCEPT !.pc = "busy",
                                                          !.request = client[c].request]]
    /\ UNCHANGED <<database, receipts, lost>>

ApplyTransition(c) ==
    LET request == client[c].request
        ctx == client[c].ctx
    IN  /\ CanApply(c)
        /\ ~Decided(request.key)
        /\ VersionMatches(c)
        /\ StructurallyAllowed(c)
        /\ EvidenceUnchanged(c)
        /\ GuardsAllow(c)
        /\ plan' = IF ctx.boundPlan # NoCommit THEN ctx.boundPlan ELSE plan
        /\ task' = NextTask(request.target)
        /\ history' = Append(history,
              [from |-> task.status, to |-> request.target,
               review |-> IF SuppliesPrePrReview(request.input) THEN request.input.head
                          ELSE NoCommit,
               head |-> ctx.head])      \* not stored: the HEAD the guards saw
        /\ Record(request, "applied")
        /\ audit' = [audit EXCEPT !.allowed = @ + 1, !.applied = @ + 1]
        /\ Answer(c)
        /\ UNCHANGED <<genesis, conflicts, receipts, lost>>
-----------------------------------------------------------------------------
\* Evidence arriving.  An append re-checks, in its own transaction, that the
\* session is still in the state and version the run or import started from,
\* so the run or import collapses to that append.

HeadsOnBranch == {o.head : o \in {p \in Observations : p.onBranch}}

CountReceipt == audit' = [audit EXCEPT !.receipts = @ + 1]

\* runSessionGate with appendGateReceipt.  A run that leaves the checkout
\* dirty, off its branch or on another HEAD is invalidated, whatever it printed.
RecordGateReceipt ==
    /\ task.status = "verifying"
    /\ plan # NoCommit
    /\ Len(gateReceipts) < MaxGateReceipts
    /\ \E gate \in Gates, result \in GateResults, before, after \in HeadsOnBranch :
          /\ [head |-> before, clean |-> TRUE, onBranch |-> TRUE] \in Observations
          /\ result # "invalidated" => after = before
          /\ gateReceipts' = Append(gateReceipts,
                [gate |-> gate, result |-> result, before |-> before, after |-> after])
    /\ CountReceipt
    /\ UNCHANGED <<genesis, task, plan, history, ledger, conflicts, ciReceipts,
                   reviewReceipts, lost, client>>

\* importSessionGateReceipt with appendSignedGateReceipt: only a passing
\* receipt for the live HEAD gets this far.
ImportGateReceipt ==
    /\ task.status = "verifying"
    /\ plan # NoCommit
    /\ Len(ciReceipts) < MaxCiReceipts
    /\ \E gate \in Gates, head \in HeadsOnBranch :
          ciReceipts' = Append(ciReceipts, [gate |-> gate, head |-> head])
    /\ CountReceipt
    /\ UNCHANGED <<genesis, task, plan, history, ledger, conflicts, gateReceipts,
                   reviewReceipts, lost, client>>

\* importSessionReviewReceipt with appendSignedReviewReceipt.
ImportReviewReceipt ==
    /\ task.status \in {"reviewing", "ready_for_human"}
    /\ plan # NoCommit
    /\ Len(reviewReceipts) < MaxReviewReceipts
    /\ \E observed \in Observations, verdict \in Verdicts :
          reviewReceipts' = Append(reviewReceipts,
             [head |-> observed.head, blocking |-> verdict.blocking,
              approved |-> verdict.approved, merged |-> verdict.merged,
              version |-> task.version])
    /\ CountReceipt
    /\ UNCHANGED <<genesis, task, plan, history, ledger, conflicts, gateReceipts,
                   ciReceipts, lost, client>>

\* A receipt artifact or package is deleted or altered outside the program.
LoseArtifact ==
    /\ Cardinality(lost) < MaxLost
    /\ \E artifact \in ({"gate"} \X DOMAIN gateReceipts)
                       \cup ({"ci"} \X DOMAIN ciReceipts)
                       \cup ({"review"} \X DOMAIN reviewReceipts) :
          lost' = lost \cup {artifact}
    /\ UNCHANGED <<database, receipts, client>>
-----------------------------------------------------------------------------
Gather(c) == PreparePlan(c) \/ ReadWatermark(c) \/ ReadEvidence(c)

Decide(c) ==
    \/ Replay(c)
    \/ RecordConflict(c)
    \/ RejectTransition(c)
    \/ ReportEvidenceChanged(c)
    \/ ApplyTransition(c)

Environment ==
    RecordGateReceipt \/ ImportGateReceipt \/ ImportReviewReceipt \/ LoseArtifact

Next ==
    \/ \E c \in Clients : Begin(c) \/ Gather(c) \/ Decide(c) \/ Retry(c) \/ Abandon(c)
    \/ Environment

\* What a client that was started does until it has its answer; a caller told
\* to retry does.  Nothing obliges anybody to start a request or to produce evidence.
Answers(c) == Gather(c) \/ Decide(c) \/ Retry(c)

Spec == Init /\ [][Next]_vars
=============================================================================
