------------------------ MODULE SessionControllerProofs ------------------------
(***************************************************************************)
(* Proofs about SessionController, for every value of its constants: type  *)
(* correctness, the repair budget, the authority of the transition         *)
(* history, one decision per key, and the planner's agreement with the     *)
(* transaction.  Each theorem rests on the invariant named above it.       *)
(***************************************************************************)
EXTENDS SessionProperties, FiniteSetTheorems, TLAPS

USE DEF CommitOrNone, AllKeys
-----------------------------------------------------------------------------
\* Lemmas about the operators the controller is built from.

\* aggregateGateStatus answers with one of the statuses of a receipt, whatever
\* the receipts say.
LEMMA AggregateType ==
    ASSUME NEW statuses
    PROVE  AggregateGateStatus(statuses) \in EvidenceStatuses
BY DEF AggregateGateStatus, EvidenceStatuses

\* The repair entries of a history are finitely many, and appending a row adds
\* one of them at most, exactly when the row is a repair entry.
LEMMA RepairEntriesFinite ==
    ASSUME NEW past \in Seq(TransitionRow)
    PROVE  /\ IsFiniteSet(RepairEntries(past))
           /\ Cardinality(RepairEntries(past)) \in Nat
<1>1. RepairEntries(past) \subseteq 1 .. Len(past)
  BY DEF RepairEntries
<1>2. IsFiniteSet(1 .. Len(past))
  BY FS_Interval
<1>3. IsFiniteSet(RepairEntries(past))
  BY <1>1, <1>2, FS_Subset
<1>. QED  BY <1>3, FS_CardinalityType

LEMMA RepairEntriesAppend ==
    ASSUME NEW past \in Seq(TransitionRow), NEW row \in TransitionRow
    PROVE  Cardinality(RepairEntries(Append(past, row))) =
             Cardinality(RepairEntries(past))
               + (IF IsRepairEntryTransition(row.from, row.to) THEN 1 ELSE 0)
<1>. DEFINE n == Len(past) + 1
<1>1. /\ DOMAIN Append(past, row) = 1 .. n
      /\ DOMAIN past = 1 .. Len(past)
      /\ Append(past, row)[n] = row
      /\ \A i \in 1 .. Len(past) : Append(past, row)[i] = past[i]
  OBVIOUS
<1>2. n \notin RepairEntries(past)
  BY <1>1 DEF RepairEntries
<1>3. CASE IsRepairEntryTransition(row.from, row.to)
  <2>1. RepairEntries(Append(past, row)) = RepairEntries(past) \cup {n}
    BY <1>1, <1>3 DEF RepairEntries
  <2>. QED  BY <1>2, <1>3, <2>1, RepairEntriesFinite, FS_AddElement
<1>4. CASE ~IsRepairEntryTransition(row.from, row.to)
  <2>1. RepairEntries(Append(past, row)) = RepairEntries(past)
    BY <1>1, <1>4 DEF RepairEntries
  <2>. QED  BY <1>4, <2>1, RepairEntriesFinite
<1>. QED  BY <1>3, <1>4

\* A transition that opens a repair passes its guards only with budget left in
\* the context the client evaluated: BudgetRemains guards every entry edge.
LEMMA RepairEntryNeedsBudget ==
    ASSUME NEW source \in States, NEW target \in States, NEW input,
           NEW blockedFrom, NEW ctx,
           IsRepairEntryTransition(source, target),
           EvaluateTransitionGuards(source, target, input, blockedFrom, ctx)
    PROVE  ctx.attempts < RepairBudget
<1>1. target = "repairing" /\ source \in {"verifying", "reviewing", "ready_for_human"}
  BY DEF IsRepairEntryTransition, RepairEntryStates
<1>2. CASE source = "verifying"
  <2>1. GetTransitionGuardRequirement(source, target) = "proof"
    BY <1>1, <1>2 DEF GetTransitionGuardRequirement
  <2>2. ProofOwnedGuards(source, target, input, ctx)
    BY <2>1 DEF EvaluateTransitionGuards
  <2>. QED  BY <1>1, <1>2, <2>2 DEF ProofOwnedGuards, BudgetRemains
<1>3. CASE source # "verifying"
  <2>1. GetTransitionGuardRequirement(source, target) = "review"
    BY <1>1, <1>3 DEF GetTransitionGuardRequirement
  <2>2. ReviewOwnedGuards(source, target, ctx)
    BY <2>1 DEF EvaluateTransitionGuards
  <2>. QED  BY <1>1, <2>2 DEF ReviewOwnedGuards, BudgetRemains
<1>. QED  BY <1>2, <1>3
-----------------------------------------------------------------------------
\* Type correctness.

LEMMA EmptyContextType == EmptyContext \in GuardContext
BY RepairBudgetAssumption
   DEF EmptyContext, GuardContext, NoReview, Review, EvidenceStatuses, ReviewStatuses, Phases

LEMMA IdleClientType == IdleClient \in ClientState
BY EmptyContextType
   DEF IdleClient, ClientState, ClientSteps, NoRequest, Request, NoInput, InputKinds,
       NoMark, Mark, States

\* Whatever a client reads yields a guard context.
LEMMA ReviewEvidenceType ==
    ASSUME TypeOK, NEW head
    PROVE  ReviewEvidence(head) \in Review
<1>. DEFINE newest == Len(reviewReceipts)
<1>1. NoReview \in Review
  BY DEF NoReview, Review, ReviewStatuses
<1>2. newest # 0 => reviewReceipts[newest] \in ReviewReceipt
  BY DEF TypeOK
<1>. QED  BY <1>1, <1>2 DEF ReviewEvidence, Review, ReviewReceipt, ReviewStatuses

LEMMA ProofGuardContextType ==
    ASSUME TypeOK, NEW observed \in Observations, NEW past
    PROVE  ProofGuardContext(observed, past) \in GuardContext
<1>1. observed \in [head : Commits, clean : BOOLEAN, onBranch : BOOLEAN]
  BY ConstantsAssumption
<1>2. LocalEvidence(observed.head) \in EvidenceStatuses
  BY AggregateType DEF LocalEvidence, EvidenceStatuses
<1>3. CiEvidence(observed.head) \in EvidenceStatuses
  BY AggregateType DEF CiEvidence, EvidenceStatuses
<1>4. AttemptsUsed \in Nat
  BY RepairEntriesFinite DEF AttemptsUsed, TypeOK
<1>5. LifecyclePhase(past) \in Phases
  BY DEF LifecyclePhase, DeriveLifecyclePhase, Phases
<1>. QED
  BY <1>1, <1>2, <1>3, <1>4, <1>5, ReviewEvidenceType DEF ProofGuardContext, GuardContext

LEMMA ReadLifecycleType ==
    ASSUME TypeOK, NEW request \in Request
    PROVE  ReadLifecycle(request) \in ClientState
BY EmptyContextType
   DEF ReadLifecycle, FirstStep, ClientState, ClientSteps, NoMark, Mark, TypeOK

LEMMA TypeInit == Init => TypeOK
<1>. SUFFICES ASSUME Init PROVE TypeOK
  OBVIOUS
<1>1. genesis \in GenesisStates /\ genesis \in States
  BY ConstantsAssumption DEF Init
<1>2. task \in [status : States, version : Nat, blockedFrom : States \cup {NotBlocked},
                ended : BOOLEAN]
  BY <1>1 DEF Init
<1>3. plan \in CommitOrNone
  BY DEF Init
<1>. QED  BY <1>1, <1>2, <1>3, IdleClientType DEF Init, TypeOK, AuditCounts

\* A step that leaves the database alone moves one client.
LEMMA ClientStepType ==
    ASSUME TypeOK, NEW c \in Clients, NEW moved \in ClientState,
           client' = [client EXCEPT ![c] = moved],
           UNCHANGED <<database, receipts, lost>>
    PROVE  TypeOK'
BY DEF TypeOK, database, receipts

\* Counting an event keeps the counts natural numbers.
LEMMA AuditType ==
    ASSUME TypeOK
    PROVE  /\ [audit EXCEPT !.denied = @ + 1] \in AuditCounts
           /\ [audit EXCEPT !.receipts = @ + 1] \in AuditCounts
           /\ [audit EXCEPT !.allowed = @ + 1, !.applied = @ + 1] \in AuditCounts
<1>. audit \in [genesis : Nat, allowed : Nat, denied : Nat, applied : Nat, receipts : Nat]
  BY DEF TypeOK, AuditCounts
<1>1. [audit EXCEPT !.denied = @ + 1] \in AuditCounts
  BY DEF AuditCounts
<1>2. [audit EXCEPT !.receipts = @ + 1] \in AuditCounts
  BY DEF AuditCounts
<1>3. [audit EXCEPT !.allowed = @ + 1, !.applied = @ + 1] \in AuditCounts
  <2>. DEFINE counted == [audit EXCEPT !.allowed = @ + 1]
  <2>1. counted \in AuditCounts /\ counted.applied = audit.applied
    BY DEF AuditCounts
  <2>2. [counted EXCEPT !.applied = audit.applied + 1] \in AuditCounts
    <3>. HIDE DEF counted
    <3>. QED  BY <2>1 DEF AuditCounts
  <2>. QED  BY <2>2
<1>. QED  BY <1>1, <1>2, <1>3

LEMMA TypeNext == TypeOK /\ [Next]_vars => TypeOK'
<1>. SUFFICES ASSUME TypeOK, [Next]_vars PROVE TypeOK'
  OBVIOUS
<1>. USE DEF TypeOK
<1>1. ASSUME NEW c \in Clients, Begin(c) PROVE TypeOK'
  <2>1. PICK ask \in Requests, key \in AllKeys :
          \E expected \in ExpectedVersions(key) :
             client' = [client EXCEPT ![c] =
                ReadLifecycle([target |-> ask.target, input |-> ask.input,
                               expected |-> expected, key |-> key])]
    BY <1>1 DEF Begin
  <2>2. PICK expected \in ExpectedVersions(key) :
          client' = [client EXCEPT ![c] =
             ReadLifecycle([target |-> ask.target, input |-> ask.input,
                            expected |-> expected, key |-> key])]
    BY <2>1
  <2>3. expected \in Nat
    BY ConstantsAssumption DEF ExpectedVersions
  <2>4. [target |-> ask.target, input |-> ask.input, expected |-> expected, key |-> key]
          \in Request
    BY <2>3, ConstantsAssumption DEF Request
  <2>. QED  BY <1>1, <2>2, <2>4, ReadLifecycleType, ClientStepType DEF Begin
<1>2. ASSUME NEW c \in Clients, PreparePlan(c) PROVE TypeOK'
  <2>1. PICK observed \in Observations :
          client' = [client EXCEPT
             ![c].pc = "apply",
             ![c].ctx = [EmptyContext EXCEPT
                !.boundPlan = IF observed.clean /\ observed.onBranch THEN observed.head
                              ELSE NoCommit,
                !.refused = ~(observed.clean /\ observed.onBranch)]]
    BY <1>2 DEF PreparePlan
  <2>2. observed \in [head : Commits, clean : BOOLEAN, onBranch : BOOLEAN]
    BY ConstantsAssumption
  <2>. DEFINE prepared == [EmptyContext EXCEPT
                !.boundPlan = IF observed.clean /\ observed.onBranch THEN observed.head
                              ELSE NoCommit,
                !.refused = ~(observed.clean /\ observed.onBranch)]
  <2>3. prepared \in GuardContext
    BY <2>2, EmptyContextType DEF GuardContext
  <2>. HIDE DEF prepared
  <2>4. [client[c] EXCEPT !.pc = "apply", !.ctx = prepared] \in ClientState
    BY <2>3 DEF ClientState, ClientSteps
  <2>5. client' = [client EXCEPT ![c] = [client[c] EXCEPT !.pc = "apply", !.ctx = prepared]]
    BY <2>1 DEF prepared
  <2>. QED  BY <1>2, <2>4, <2>5, ClientStepType DEF PreparePlan
<1>3. ASSUME NEW c \in Clients, ReadWatermark(c) PROVE TypeOK'
  <2>1. Watermark \in Mark
    BY DEF Watermark, Mark
  <2>2. [client[c] EXCEPT !.pc = "evidence", !.mark = Watermark] \in ClientState
    BY <2>1 DEF ClientState, ClientSteps
  <2>3. client' = [client EXCEPT ![c] = [client[c] EXCEPT !.pc = "evidence",
                                                         !.mark = Watermark]]
    BY <1>3 DEF ReadWatermark
  <2>. QED  BY <1>3, <2>2, <2>3, ClientStepType DEF ReadWatermark
<1>4. ASSUME NEW c \in Clients, ReadEvidence(c) PROVE TypeOK'
  <2>1. PICK observed \in Observations :
          client' = [client EXCEPT
             ![c].pc = "apply",
             ![c].ctx = ProofGuardContext(observed, SubSeq(history, 1, client[c].seen))]
    BY <1>4 DEF ReadEvidence
  <2>. DEFINE read == ProofGuardContext(observed, SubSeq(history, 1, client[c].seen))
  <2>2. read \in GuardContext
    BY ProofGuardContextType
  <2>. HIDE DEF read
  <2>3. [client[c] EXCEPT !.pc = "apply", !.ctx = read] \in ClientState
    BY <2>2 DEF ClientState, ClientSteps
  <2>4. client' = [client EXCEPT ![c] = [client[c] EXCEPT !.pc = "apply", !.ctx = read]]
    BY <2>1 DEF read
  <2>. QED  BY <1>4, <2>3, <2>4, ClientStepType DEF ReadEvidence
<1>5. ASSUME NEW c \in Clients, Retry(c) PROVE TypeOK'
  <2>1. client[c].request \in Request
    BY DEF ClientState
  <2>. QED  BY <1>5, <2>1, ReadLifecycleType, ClientStepType DEF Retry
<1>6. ASSUME NEW c \in Clients, Abandon(c) PROVE TypeOK'
  BY <1>6, IdleClientType, ClientStepType DEF Abandon
<1>7. ASSUME NEW c \in Clients, Replay(c) PROVE TypeOK'
  BY <1>7, IdleClientType, ClientStepType DEF Replay, Answer
<1>8. ASSUME NEW c \in Clients PROVE client[c].request \in Request
  BY DEF ClientState
<1>9. ASSUME NEW c \in Clients, Answer(c) PROVE client' \in [Clients -> ClientState]
  BY <1>9, IdleClientType DEF Answer
<1>10. ASSUME NEW c \in Clients, NEW outcome \in {"applied", "rejected"},
              Record(client[c].request, outcome)
       PROVE  ledger' \subseteq [request : Request, outcome : {"applied", "rejected"}]
  BY <1>8, <1>10 DEF Record
<1>11. ASSUME NEW c \in Clients, RecordConflict(c) PROVE TypeOK'
  BY <1>8, <1>9, <1>11, AuditType DEF RecordConflict, receipts
<1>12. ASSUME NEW c \in Clients, RejectTransition(c) PROVE TypeOK'
  BY <1>9, <1>10, <1>12, AuditType DEF RejectTransition, receipts
<1>13. ASSUME NEW c \in Clients, ReportEvidenceChanged(c) PROVE TypeOK'
  <2>1. [IdleClient EXCEPT !.pc = "busy", !.request = client[c].request] \in ClientState
    BY <1>8, IdleClientType DEF ClientState, ClientSteps
  <2>. QED  BY <1>13, <2>1, ClientStepType DEF ReportEvidenceChanged
<1>14. ASSUME NEW c \in Clients, ApplyTransition(c) PROVE TypeOK'
  <2>. DEFINE request == client[c].request
              ctx == client[c].ctx
              row == [from |-> task.status, to |-> request.target,
                      review |-> IF SuppliesPrePrReview(request.input)
                                 THEN request.input.head ELSE NoCommit,
                      head |-> ctx.head]
  <2>1. /\ request \in Request
        /\ ctx \in GuardContext
    BY DEF ClientState
  <2>2. /\ request.target \in States
        /\ request.input.head \in CommitOrNone
    BY <2>1 DEF Request
  <2>3. ctx.head \in CommitOrNone /\ ctx.boundPlan \in CommitOrNone
    BY <2>1 DEF GuardContext
  <2>4. row \in TransitionRow
    BY <2>2, <2>3 DEF TransitionRow
  <2>5. /\ history' = Append(history, row)
        /\ plan' = IF ctx.boundPlan # NoCommit THEN ctx.boundPlan ELSE plan
        /\ task' = NextTask(request.target)
        /\ Record(request, "applied")
        /\ audit' = [audit EXCEPT !.allowed = @ + 1, !.applied = @ + 1]
        /\ Answer(c)
        /\ UNCHANGED <<genesis, conflicts, receipts, lost>>
    BY <1>14 DEF ApplyTransition
  <2>6. task' \in [status : States, version : Nat, blockedFrom : States \cup {NotBlocked},
                   ended : BOOLEAN]
    BY <2>2, <2>5 DEF NextTask
  <2>. HIDE DEF row
  <2>7. history' \in Seq(TransitionRow) /\ plan' \in CommitOrNone
    BY <2>3, <2>4, <2>5
  <2>. QED  BY <1>9, <1>10, <2>5, <2>6, <2>7, AuditType DEF receipts
<1>15. CASE RecordGateReceipt
  <2>1. HeadsOnBranch \subseteq Commits
    BY ConstantsAssumption DEF HeadsOnBranch
  <2>2. gateReceipts' \in Seq(GateReceipt)
    BY <1>15, <2>1 DEF RecordGateReceipt, GateReceipt
  <2>. QED  BY <1>15, <2>2, AuditType DEF RecordGateReceipt, CountReceipt
<1>16. CASE ImportGateReceipt
  <2>1. HeadsOnBranch \subseteq Commits
    BY ConstantsAssumption DEF HeadsOnBranch
  <2>2. ciReceipts' \in Seq(CiReceipt)
    BY <1>16, <2>1 DEF ImportGateReceipt, CiReceipt
  <2>. QED  BY <1>16, <2>2, AuditType DEF ImportGateReceipt, CountReceipt
<1>17. CASE ImportReviewReceipt
  <2>1. PICK observed \in Observations, verdict \in Verdicts :
          reviewReceipts' = Append(reviewReceipts,
             [head |-> observed.head, blocking |-> verdict.blocking,
              approved |-> verdict.approved, merged |-> verdict.merged,
              version |-> task.version])
    BY <1>17 DEF ImportReviewReceipt
  <2>2. /\ observed \in [head : Commits, clean : BOOLEAN, onBranch : BOOLEAN]
        /\ verdict \in [blocking : BOOLEAN, approved : BOOLEAN, merged : BOOLEAN]
    BY ConstantsAssumption
  <2>3. reviewReceipts' \in Seq(ReviewReceipt)
    BY <2>1, <2>2 DEF ReviewReceipt
  <2>. QED  BY <1>17, <2>3, AuditType DEF ImportReviewReceipt, CountReceipt
<1>18. CASE LoseArtifact
  <2>1. lost' \subseteq {"gate", "ci", "review"} \X Nat
    BY <1>18 DEF LoseArtifact
  <2>. QED  BY <1>18, <2>1 DEF LoseArtifact, database, receipts
<1>19. CASE UNCHANGED vars
  BY <1>19 DEF vars, database, receipts
<1>. QED
  BY <1>1, <1>2, <1>3, <1>4, <1>5, <1>6, <1>7, <1>11, <1>12, <1>13, <1>14, <1>15, <1>16,
     <1>17, <1>18, <1>19
  DEF Next, Gather, Decide, Environment

\* In every reachable state each variable of the controller has the shape its
\* readers assume.
THEOREM TypeCorrect == Spec => []TypeOK
BY TypeInit, TypeNext, PTL DEF Spec
-----------------------------------------------------------------------------
\* The repair budget.  A request can carry a count that is too small only if
\* repairs were opened after it was read; its version check then fails, unless
\* it named a version that had not been reached when it was read.

\* No request in flight expects a version the session has not reached.
NoneAhead == \A c \in Clients : client[c].request.expected <= task.version

\* The count a client read, where it would let a repair in, is the current one
\* as long as its version check would pass.
CountIsCurrent(c) ==
    /\ client[c].pc = "apply"
    /\ client[c].request.expected = task.version
    /\ client[c].ctx.attempts < RepairBudget
    => client[c].ctx.attempts = AttemptsUsed

BudgetInv ==
    /\ TypeOK
    /\ NoneAhead
    /\ \A c \in Clients : CountIsCurrent(c)
    /\ RepairBudgetHolds

LEMMA BudgetInit == Init => BudgetInv
<1>. SUFFICES ASSUME Init PROVE BudgetInv
  OBVIOUS
<1>1. TypeOK
  BY TypeInit
<1>2. NoneAhead /\ \A c \in Clients : CountIsCurrent(c)
  BY DEF Init, NoneAhead, CountIsCurrent, IdleClient, NoRequest
<1>3. RepairEntries(history) = {}
  BY DEF Init, RepairEntries
<1>4. RepairBudgetHolds
  BY <1>3, FS_EmptySet, RepairBudgetAssumption DEF RepairBudgetHolds, AttemptsUsed
<1>. QED  BY <1>1, <1>2, <1>4 DEF BudgetInv

\* A step that moves one client and leaves task and history alone keeps the
\* budget invariant, provided the client it moves is not ahead and its count is
\* current where it is set.
LEMMA BudgetClientStep ==
    ASSUME BudgetInv, TypeOK', NEW c \in Clients,
           UNCHANGED <<task, history>>,
           \A d \in Clients \ {c} : client'[d] = client[d],
           client'[c].request.expected <= task.version,
           /\ client'[c].pc = "apply"
           /\ client'[c].ctx.attempts < RepairBudget
           => client'[c].ctx.attempts = AttemptsUsed
    PROVE  BudgetInv'
<1>1. AttemptsUsed' = AttemptsUsed
  BY DEF AttemptsUsed, RepairEntries
<1>2. RepairBudgetHolds'
  BY <1>1 DEF BudgetInv, RepairBudgetHolds
<1>3. NoneAhead'
  BY DEF BudgetInv, NoneAhead
<1>4. ASSUME NEW d \in Clients PROVE CountIsCurrent(d)'
  BY <1>1 DEF BudgetInv, CountIsCurrent
<1>. QED  BY <1>2, <1>3, <1>4 DEF BudgetInv

\* A step that touches neither clients nor task nor history keeps it too.
LEMMA BudgetStutter ==
    ASSUME BudgetInv, TypeOK', UNCHANGED <<task, history, client>>
    PROVE  BudgetInv'
<1>1. AttemptsUsed' = AttemptsUsed
  BY DEF AttemptsUsed, RepairEntries
<1>2. RepairBudgetHolds' /\ NoneAhead'
  BY <1>1 DEF BudgetInv, RepairBudgetHolds, NoneAhead
<1>3. ASSUME NEW d \in Clients PROVE CountIsCurrent(d)'
  BY <1>1 DEF BudgetInv, CountIsCurrent
<1>. QED  BY <1>2, <1>3 DEF BudgetInv

LEMMA BudgetApply ==
    ASSUME BudgetInv, TypeOK', NEW c \in Clients, ApplyTransition(c)
    PROVE  BudgetInv'
<1>. DEFINE request == client[c].request
            ctx == client[c].ctx
            row == [from |-> task.status, to |-> request.target,
                    review |-> IF SuppliesPrePrReview(request.input)
                               THEN request.input.head ELSE NoCommit,
                    head |-> ctx.head]
<1>1. /\ CanApply(c) /\ VersionMatches(c) /\ GuardsAllow(c)
      /\ task' = NextTask(request.target)
      /\ history' = Append(history, row)
      /\ Answer(c)
  BY DEF ApplyTransition
<1>2. client[c] \in ClientState /\ task.version \in Nat /\ task.status \in States
  BY DEF BudgetInv, TypeOK
<1>3. row \in TransitionRow
  BY <1>2 DEF TransitionRow, ClientState, Request, GuardContext
<1>4. task'.version = task.version + 1
  BY <1>1 DEF NextTask
<1>5. \A d \in Clients : client'[d] = IF d = c THEN IdleClient ELSE client[d]
  BY <1>1 DEF Answer, BudgetInv, TypeOK
<1>6. \A d \in Clients : client'[d].request.expected < task'.version
  <2>1. ASSUME NEW d \in Clients
        PROVE  client[d].request.expected \in Nat /\ client[d].request.expected <= task.version
    BY DEF BudgetInv, NoneAhead, TypeOK, ClientState, Request
  <2>2. IdleClient.request.expected = 0
    BY DEF IdleClient, NoRequest
  <2>. QED  BY <1>2, <1>4, <1>5, <2>1, <2>2
<1>7. NoneAhead'
  BY <1>6, <1>4, <1>2 DEF NoneAhead, TypeOK, ClientState, Request
<1>8. ASSUME NEW d \in Clients PROVE CountIsCurrent(d)'
  BY <1>6, <1>4, <1>2 DEF CountIsCurrent, TypeOK, ClientState, Request
<1>9. RepairBudgetHolds'
  <2>1. AttemptsUsed' = AttemptsUsed
                          + (IF IsRepairEntryTransition(row.from, row.to) THEN 1 ELSE 0)
    <3>1. history \in Seq(TransitionRow)
      BY DEF BudgetInv, TypeOK
    <3>2. AttemptsUsed' = Cardinality(RepairEntries(Append(history, row)))
      BY <1>1 DEF AttemptsUsed, RepairEntries
    <3>. HIDE DEF row
    <3>. QED  BY <1>3, <3>1, <3>2, RepairEntriesAppend DEF AttemptsUsed
  <2>2. AttemptsUsed \in Nat
    BY RepairEntriesFinite DEF AttemptsUsed, BudgetInv, TypeOK
  <2>3. CASE IsRepairEntryTransition(row.from, row.to)
    <3>1. ctx.attempts < RepairBudget
      BY <1>1, <1>2, <2>3, RepairEntryNeedsBudget DEF GuardsAllow, ClientState, Request
    <3>2. ctx.attempts = AttemptsUsed
      BY <1>1, <3>1 DEF CanApply, VersionMatches, BudgetInv, CountIsCurrent
    <3>. QED
      BY <2>1, <2>2, <2>3, <3>1, <3>2, RepairBudgetAssumption DEF RepairBudgetHolds
  <2>4. CASE ~IsRepairEntryTransition(row.from, row.to)
    BY <2>1, <2>2, <2>4 DEF RepairBudgetHolds, BudgetInv
  <2>. QED  BY <2>3, <2>4
<1>. QED  BY <1>7, <1>8, <1>9 DEF BudgetInv

LEMMA BudgetNext ==
    ASSUME Foresight = 0
    PROVE  BudgetInv /\ [Next]_vars => BudgetInv'
<1>. SUFFICES ASSUME BudgetInv, [Next]_vars PROVE BudgetInv'
  OBVIOUS
<1>1. TypeOK'
  BY TypeNext DEF BudgetInv
<1>2. /\ client \in [Clients -> ClientState]
      /\ task.version \in Nat
  BY DEF BudgetInv, TypeOK
<1>3. ASSUME NEW c \in Clients PROVE client[c].request.expected <= task.version
  BY DEF BudgetInv, NoneAhead
<1>4. EmptyContext.attempts = RepairBudget /\ ~(RepairBudget < RepairBudget)
  BY RepairBudgetAssumption DEF EmptyContext
<1>5. IdleClient.request.expected <= task.version /\ IdleClient.pc # "apply"
  BY <1>2 DEF IdleClient, NoRequest
<1>6. ASSUME NEW c \in Clients, Begin(c) PROVE BudgetInv'
  <2>1. PICK request :
          /\ request.expected <= task.version
          /\ client' = [client EXCEPT ![c] = ReadLifecycle(request)]
    <3>1. PICK ask \in Requests, key \in AllKeys :
            \E expected \in ExpectedVersions(key) :
               client' = [client EXCEPT ![c] =
                  ReadLifecycle([target |-> ask.target, input |-> ask.input,
                                 expected |-> expected, key |-> key])]
      BY <1>6 DEF Begin
    <3>2. PICK expected \in ExpectedVersions(key) :
            client' = [client EXCEPT ![c] =
               ReadLifecycle([target |-> ask.target, input |-> ask.input,
                              expected |-> expected, key |-> key])]
      BY <3>1
    <3>3. expected <= task.version
      BY <1>2 DEF ExpectedVersions
    <3>. QED  BY <3>2, <3>3
  <2>2. /\ client'[c].request = request
        /\ client'[c].ctx = EmptyContext
        /\ \A d \in Clients \ {c} : client'[d] = client[d]
    BY <1>2, <2>1 DEF ReadLifecycle
  <2>. QED  BY <1>1, <1>4, <1>6, <2>1, <2>2, BudgetClientStep DEF Begin, database
<1>7. ASSUME NEW c \in Clients, PreparePlan(c) PROVE BudgetInv'
  <2>1. /\ client'[c].request = client[c].request
        /\ client'[c].ctx.attempts = RepairBudget
        /\ \A d \in Clients \ {c} : client'[d] = client[d]
    BY <1>2, <1>4, <1>7 DEF PreparePlan, ClientState, EmptyContext
  <2>. QED
    BY <1>1, <1>3, <1>4, <1>7, <2>1, BudgetClientStep DEF PreparePlan, database
<1>8. ASSUME NEW c \in Clients, ReadWatermark(c) PROVE BudgetInv'
  <2>1. /\ client'[c].request = client[c].request
        /\ client'[c].pc = "evidence"
        /\ \A d \in Clients \ {c} : client'[d] = client[d]
    BY <1>2, <1>8 DEF ReadWatermark, ClientState
  <2>. QED  BY <1>1, <1>3, <1>8, <2>1, BudgetClientStep DEF ReadWatermark, database
<1>9. ASSUME NEW c \in Clients, ReadEvidence(c) PROVE BudgetInv'
  <2>1. /\ client'[c].request = client[c].request
        /\ client'[c].ctx.attempts = AttemptsUsed
        /\ \A d \in Clients \ {c} : client'[d] = client[d]
    BY <1>2, <1>9 DEF ReadEvidence, ClientState, ProofGuardContext
  <2>. QED  BY <1>1, <1>3, <1>9, <2>1, BudgetClientStep DEF ReadEvidence, database
<1>10. ASSUME NEW c \in Clients, Retry(c) PROVE BudgetInv'
  <2>1. /\ client'[c].request = client[c].request
        /\ client'[c].ctx = EmptyContext
        /\ \A d \in Clients \ {c} : client'[d] = client[d]
    BY <1>2, <1>10 DEF Retry, ReadLifecycle
  <2>. QED  BY <1>1, <1>3, <1>4, <1>10, <2>1, BudgetClientStep DEF Retry, database
<1>11. ASSUME NEW c \in Clients, client' = [client EXCEPT ![c] = IdleClient],
              UNCHANGED <<task, history>>
       PROVE  BudgetInv'
  <2>1. /\ client'[c] = IdleClient
        /\ \A d \in Clients \ {c} : client'[d] = client[d]
    BY <1>2, <1>11
  <2>. QED  BY <1>1, <1>5, <1>11, <2>1, BudgetClientStep
<1>12. ASSUME NEW c \in Clients, Abandon(c) PROVE BudgetInv'
  BY <1>11, <1>12 DEF Abandon, database
<1>13. ASSUME NEW c \in Clients, Replay(c) PROVE BudgetInv'
  BY <1>11, <1>13 DEF Replay, Answer, database
<1>14. ASSUME NEW c \in Clients, RecordConflict(c) PROVE BudgetInv'
  BY <1>11, <1>14 DEF RecordConflict, Answer
<1>15. ASSUME NEW c \in Clients, RejectTransition(c) PROVE BudgetInv'
  BY <1>11, <1>15 DEF RejectTransition, Answer
<1>16. ASSUME NEW c \in Clients, ReportEvidenceChanged(c) PROVE BudgetInv'
  <2>1. /\ client'[c].request = client[c].request
        /\ client'[c].pc = "busy"
        /\ \A d \in Clients \ {c} : client'[d] = client[d]
    BY <1>2, <1>16 DEF ReportEvidenceChanged, IdleClient
  <2>. QED
    BY <1>1, <1>3, <1>16, <2>1, BudgetClientStep DEF ReportEvidenceChanged, database
<1>17. ASSUME NEW c \in Clients, ApplyTransition(c) PROVE BudgetInv'
  BY <1>1, <1>17, BudgetApply
<1>18. CASE Environment
  BY <1>1, <1>18, BudgetStutter
     DEF Environment, RecordGateReceipt, ImportGateReceipt, ImportReviewReceipt,
         LoseArtifact, database
<1>19. CASE UNCHANGED vars
  BY <1>1, <1>19, BudgetStutter DEF vars, database
<1>. QED
  BY <1>6, <1>7, <1>8, <1>9, <1>10, <1>12, <1>13, <1>14, <1>15, <1>16, <1>17, <1>18, <1>19
  DEF Next, Gather, Decide

\* When no request names a version the session has not reached, no session opens
\* more repairs than the budget, however many clients count and spend it at once.
THEOREM RepairBudgetKept ==
    ASSUME Foresight = 0
    PROVE  Spec => []RepairBudgetHolds
<1>1. BudgetInv => RepairBudgetHolds
  BY DEF BudgetInv
<1>. QED  BY <1>1, BudgetInit, BudgetNext, PTL DEF Spec
-----------------------------------------------------------------------------
\* The transition history.  Only ApplyTransition writes task, history and
\* audit.applied, and it writes all three in one step from the task it reads.

HistoryInv == TypeOK /\ HistoryIsAuthoritative

LEMMA HistoryInit == Init => HistoryInv
<1>. SUFFICES ASSUME Init PROVE HistoryInv
  OBVIOUS
<1>1. genesis # "blocked"
  BY ConstantsAssumption DEF Init
<1>2. history = <<>> /\ Len(history) = 0 /\ DOMAIN history = {}
  BY DEF Init
<1>3. audit.applied = 0 /\ task.version = 0
  BY DEF Init
<1>4. task.status = genesis /\ task.blockedFrom = NotBlocked
  BY DEF Init
<1>5. task.ended <=> task.status = "completed"
  BY DEF Init
<1>. QED
  BY <1>1, <1>2, <1>3, <1>4, <1>5, TypeInit DEF HistoryInv, HistoryIsAuthoritative

LEMMA HistoryUntouched ==
    ASSUME HistoryInv, TypeOK', UNCHANGED <<genesis, task, history, audit.applied>>
    PROVE  HistoryInv'
BY DEF HistoryInv, HistoryIsAuthoritative

LEMMA HistoryApply ==
    ASSUME HistoryInv, TypeOK', NEW c \in Clients, ApplyTransition(c)
    PROVE  HistoryInv'
<1>. DEFINE target == client[c].request.target
            n == Len(history) + 1
<1>1. PICK row :
        /\ row.from = task.status
        /\ row.to = target
        /\ history' = Append(history, row)
        /\ task' = NextTask(target)
        /\ audit' = [audit EXCEPT !.allowed = @ + 1, !.applied = @ + 1]
        /\ genesis' = genesis
  BY DEF ApplyTransition
<1>2. /\ history \in Seq(TransitionRow)
      /\ task.version \in Nat
      /\ task.ended \in BOOLEAN
      /\ audit \in AuditCounts
  BY DEF HistoryInv, TypeOK
<1>3. /\ Len(history') = n
      /\ DOMAIN history = 1 .. Len(history)
      /\ DOMAIN history' = 1 .. n
      /\ history'[n] = row
      /\ \A i \in 1 .. Len(history) : history'[i] = history[i]
      /\ history' # <<>>
  BY <1>1, <1>2
<1>4. task.status # "completed"
  BY DEF ApplyTransition, StructurallyAllowed, EvaluateLifecycleTransition
<1>5. Len(history') = task'.version
  BY <1>1, <1>2, <1>3 DEF NextTask, HistoryInv, HistoryIsAuthoritative
<1>6. audit'.applied = Len(history')
  BY <1>1, <1>2, <1>3 DEF AuditCounts, HistoryInv, HistoryIsAuthoritative
<1>7. \A i \in DOMAIN history' :
         history'[i].from = IF i = 1 THEN genesis' ELSE history'[i - 1].to
  <2>. SUFFICES ASSUME NEW i \in 1 .. n
                PROVE  history'[i].from = IF i = 1 THEN genesis' ELSE history'[i - 1].to
    BY <1>3
  <2>1. CASE i = n
    <3>1. task.status = IF history = <<>> THEN genesis ELSE history[Len(history)].to
      BY DEF HistoryInv, HistoryIsAuthoritative
    <3>2. history = <<>> <=> n = 1
      BY <1>2
    <3>3. n # 1 => history'[n - 1] = history[Len(history)]
      BY <1>2, <1>3
    <3>4. history'[n].from = task.status
      BY <1>1, <1>3
    <3>. QED  BY <1>1, <2>1, <3>1, <3>2, <3>3, <3>4
  <2>2. CASE i # n
    <3>1. i \in 1 .. Len(history) /\ (i # 1 => i - 1 \in 1 .. Len(history))
      BY <1>2, <2>2
    <3>2. history[i].from = IF i = 1 THEN genesis ELSE history[i - 1].to
      BY <1>3, <3>1 DEF HistoryInv, HistoryIsAuthoritative
    <3>. QED  BY <1>1, <1>3, <3>1, <3>2
  <2>. QED  BY <2>1, <2>2
<1>8. task'.status = IF history' = <<>> THEN genesis' ELSE history'[Len(history')].to
  BY <1>1, <1>3 DEF NextTask
<1>9. task'.blockedFrom = IF task'.status = "blocked" THEN history'[Len(history')].from
                          ELSE NotBlocked
  BY <1>1, <1>3 DEF NextTask
<1>10. task'.ended <=> task'.status = "completed"
  BY <1>1, <1>2, <1>4 DEF NextTask, HistoryInv, HistoryIsAuthoritative
<1>. QED
  BY <1>5, <1>6, <1>7, <1>8, <1>9, <1>10 DEF HistoryInv, HistoryIsAuthoritative

LEMMA HistoryNext == HistoryInv /\ [Next]_vars => HistoryInv'
<1>. SUFFICES ASSUME HistoryInv, [Next]_vars PROVE HistoryInv'
  OBVIOUS
<1>1. TypeOK'
  BY TypeNext DEF HistoryInv
<1>2. audit \in AuditCounts
  BY DEF HistoryInv, TypeOK
<1>3. ASSUME UNCHANGED <<genesis, task, history, audit>> PROVE HistoryInv'
  BY <1>1, <1>3, HistoryUntouched
<1>4. ASSUME NEW c \in Clients, RecordConflict(c) \/ RejectTransition(c) PROVE HistoryInv'
  <2>1. audit'.applied = audit.applied
    BY <1>2, <1>4 DEF RecordConflict, RejectTransition, AuditCounts
  <2>. QED
    BY <1>1, <1>4, <2>1, HistoryUntouched DEF RecordConflict, RejectTransition
<1>5. CASE RecordGateReceipt \/ ImportGateReceipt \/ ImportReviewReceipt
  <2>1. audit'.applied = audit.applied
    BY <1>2, <1>5
       DEF RecordGateReceipt, ImportGateReceipt, ImportReviewReceipt, CountReceipt, AuditCounts
  <2>. QED
    BY <1>1, <1>5, <2>1, HistoryUntouched
       DEF RecordGateReceipt, ImportGateReceipt, ImportReviewReceipt
<1>6. CASE LoseArtifact \/ UNCHANGED vars
  BY <1>3, <1>6 DEF LoseArtifact, vars, database
<1>7. ASSUME NEW c \in Clients,
             Begin(c) \/ Gather(c) \/ Retry(c) \/ Abandon(c) \/ Replay(c)
               \/ ReportEvidenceChanged(c)
      PROVE  HistoryInv'
  BY <1>3, <1>7
     DEF Begin, Gather, PreparePlan, ReadWatermark, ReadEvidence, Retry, Abandon, Replay,
         ReportEvidenceChanged, database
<1>8. ASSUME NEW c \in Clients, ApplyTransition(c) PROVE HistoryInv'
  BY <1>1, <1>8, HistoryApply
<1>. QED  BY <1>4, <1>5, <1>6, <1>7, <1>8 DEF Next, Decide, Environment

\* The history is one chain from genesis to the projected task and the audit
\* ledger covers exactly its rows, whatever clients, evidence and lost answers
\* interleave.
THEOREM HistoryStaysAuthoritative == Spec => []HistoryIsAuthoritative
<1>1. HistoryInv => HistoryIsAuthoritative
  BY DEF HistoryInv
<1>. QED  BY <1>1, HistoryInit, HistoryNext, PTL DEF Spec
-----------------------------------------------------------------------------
\* Idempotency keys.  The ledger is written in the transaction that decides, and
\* a decided key is never decided again.

DecisionInv == HistoryInv /\ OneDecisionPerKey

LEMMA DecisionInit == Init => DecisionInv
BY HistoryInit DEF Init, DecisionInv, OneDecisionPerKey

\* Deciding an undecided key, in a history that is extended by at most the row
\* the decision names, keeps one decision per key.
LEMMA DecisionRecorded ==
    ASSUME DecisionInv, HistoryInv', NEW c \in Clients, NEW outcome \in {"applied", "rejected"},
           ~Decided(client[c].request.key),
           Record(client[c].request, outcome),
           UNCHANGED conflicts,
           Len(history) <= Len(history'),
           \A i \in 1 .. Len(history) : history'[i] = history[i],
           outcome = "applied" =>
              /\ client[c].request.expected = Len(history)
              /\ Len(history') = Len(history) + 1
              /\ history'[Len(history')].to = client[c].request.target
    PROVE  DecisionInv'
<1>. DEFINE request == client[c].request
            e == [request |-> request, outcome |-> outcome]
<1>1. /\ history \in Seq(TransitionRow) /\ history' \in Seq(TransitionRow)
      /\ ledger \subseteq [request : Request, outcome : {"applied", "rejected"}]
      /\ conflicts \subseteq Request
      /\ client[c] \in ClientState
  BY DEF DecisionInv, HistoryInv, TypeOK
<1>2. Len(history) \in Nat /\ Len(history') \in Nat
  BY <1>1
<1>3. \A f \in ledger : f.request.expected \in Nat
  BY <1>1 DEF Request
<1>4. \A f \in ledger : f.request.key # request.key
  BY DEF Decided
<1>5. ledger \subseteq ledger' /\ \A f \in ledger' : f \in ledger \/ f = e
  BY DEF Record
<1>6. /\ \A e1, e2 \in ledger : e1.request.key = e2.request.key => e1 = e2
      /\ \A f \in ledger : f.outcome = "applied" =>
            /\ f.request.expected < Len(history)
            /\ history[f.request.expected + 1].to = f.request.target
      /\ \A e1, e2 \in ledger :
            e1.outcome = "applied" /\ e2.outcome = "applied"
              /\ e1.request.expected = e2.request.expected => e1 = e2
      /\ \A r \in conflicts : Decided(r.key) /\ \A f \in ledger : f.request # r
  BY DEF DecisionInv, OneDecisionPerKey
<1>7. e.request = request /\ e.outcome = outcome
  OBVIOUS
<1>. HIDE DEF e
<1>8. \A e1, e2 \in ledger' : e1.request.key = e2.request.key => e1 = e2
  BY <1>4, <1>5, <1>6, <1>7
<1>9. ASSUME NEW f \in ledger', f.outcome = "applied"
      PROVE  /\ f.request.expected < Len(history')
             /\ history'[f.request.expected + 1].to = f.request.target
  <2>1. CASE f \in ledger
    <3>1. f.request.expected + 1 \in 1 .. Len(history)
      BY <1>2, <1>3, <1>6, <1>9, <2>1
    <3>2. history'[f.request.expected + 1] = history[f.request.expected + 1]
      BY <3>1
    <3>. QED  BY <1>2, <1>3, <1>6, <1>9, <2>1, <3>2
  <2>2. CASE f = e
    BY <1>2, <1>7, <1>9, <2>2
  <2>. QED  BY <1>5, <2>1, <2>2
<1>10. ASSUME NEW e1 \in ledger', NEW e2 \in ledger', e1.outcome = "applied",
              e2.outcome = "applied", e1.request.expected = e2.request.expected
       PROVE  e1 = e2
  <2>1. ASSUME NEW f \in ledger, f.outcome = "applied", outcome = "applied"
        PROVE  f.request.expected # request.expected
    BY <1>2, <1>3, <1>6, <2>1
  <2>. QED  BY <1>5, <1>6, <1>7, <1>10, <2>1
<1>11. ASSUME NEW r \in conflicts'
       PROVE  Decided(r.key)' /\ \A f \in ledger' : f.request # r
  <2>1. r \in conflicts
    BY <1>11
  <2>2. Decided(r.key)' /\ r.key # request.key
    BY <1>4, <1>5, <1>6, <2>1 DEF Decided
  <2>. QED  BY <1>5, <1>6, <1>7, <2>1, <2>2
<1>. QED  BY <1>8, <1>9, <1>10, <1>11 DEF DecisionInv, OneDecisionPerKey

LEMMA DecisionNext == DecisionInv /\ [Next]_vars => DecisionInv'
<1>. SUFFICES ASSUME DecisionInv, [Next]_vars PROVE DecisionInv'
  OBVIOUS
<1>1. HistoryInv'
  BY HistoryNext DEF DecisionInv
<1>2. /\ history \in Seq(TransitionRow)
      /\ task.version \in Nat
      /\ Len(history) = task.version
  BY DEF DecisionInv, HistoryInv, TypeOK, HistoryIsAuthoritative
<1>3. ASSUME NEW c \in Clients, RejectTransition(c) PROVE DecisionInv'
  BY <1>1, <1>2, <1>3, DecisionRecorded DEF RejectTransition
<1>4. ASSUME NEW c \in Clients, ApplyTransition(c) PROVE DecisionInv'
  <2>1. PICK row :
          /\ row.to = client[c].request.target
          /\ history' = Append(history, row)
    BY <1>4 DEF ApplyTransition
  <2>2. /\ Len(history) <= Len(history')
        /\ \A i \in 1 .. Len(history) : history'[i] = history[i]
        /\ Len(history') = Len(history) + 1
        /\ history'[Len(history')].to = client[c].request.target
    BY <1>2, <2>1
  <2>3. /\ ~Decided(client[c].request.key)
        /\ Record(client[c].request, "applied")
        /\ UNCHANGED conflicts
        /\ client[c].request.expected = Len(history)
    BY <1>2, <1>4 DEF ApplyTransition, VersionMatches
  <2>. QED  BY <1>1, <2>2, <2>3, DecisionRecorded
<1>5. ASSUME NEW c \in Clients, RecordConflict(c) PROVE DecisionInv'
  <2>1. /\ Decided(client[c].request.key)
        /\ \A entry \in ledger : entry.request # client[c].request
        /\ conflicts' = conflicts \cup {client[c].request}
        /\ UNCHANGED <<ledger, history>>
    BY <1>5 DEF RecordConflict
  <2>2. \A key : Decided(key)' <=> Decided(key)
    BY <2>1 DEF Decided
  <2>3. \A r \in conflicts' : Decided(r.key)'
    <3>1. \A r \in conflicts : Decided(r.key)
      BY DEF DecisionInv, OneDecisionPerKey
    <3>. QED  BY <2>1, <2>2, <3>1
  <2>4. \A r \in conflicts' : \A e \in ledger' : e.request # r
    BY <2>1 DEF DecisionInv, OneDecisionPerKey
  <2>. QED
    BY <1>1, <2>1, <2>3, <2>4 DEF DecisionInv, OneDecisionPerKey
<1>6. ASSUME UNCHANGED <<ledger, conflicts, history>> PROVE DecisionInv'
  <2>1. \A key : Decided(key)' <=> Decided(key)
    BY <1>6 DEF Decided
  <2>. QED  BY <1>1, <1>6, <2>1 DEF DecisionInv, OneDecisionPerKey
<1>7. CASE \E c \in Clients : RejectTransition(c) \/ ApplyTransition(c) \/ RecordConflict(c)
  BY <1>3, <1>4, <1>5, <1>7
<1>8. CASE ~\E c \in Clients : RejectTransition(c) \/ ApplyTransition(c) \/ RecordConflict(c)
  <2>1. UNCHANGED <<ledger, conflicts, history>>
    BY <1>8
       DEF Next, Begin, Gather, PreparePlan, ReadWatermark, ReadEvidence, Decide, Replay,
           ReportEvidenceChanged, Retry, Abandon, Environment, RecordGateReceipt,
           ImportGateReceipt, ImportReviewReceipt, LoseArtifact, database, vars
  <2>. QED  BY <1>6, <2>1
<1>. QED  BY <1>7, <1>8

\* However often requests are repeated, lost or sent under a used key, a key has
\* one decision, and an applied one is the row the history holds for its version.
THEOREM OneDecision == Spec => []OneDecisionPerKey
<1>1. DecisionInv => OneDecisionPerKey
  BY DEF DecisionInv
<1>. QED  BY <1>1, DecisionInit, DecisionNext, PTL DEF Spec
-----------------------------------------------------------------------------
\* The planner.  Its advice is a pure function of the state and of one context,
\* so agreement with the transaction needs no history, only every edge.

LEMMA ForwardTargets ==
    /\ DeterministicForwardTarget("queued") = "framed"
    /\ DeterministicForwardTarget("framed") = "proof_ready"
    /\ DeterministicForwardTarget("proof_ready") = "implementing"
    /\ DeterministicForwardTarget("implementing") = "verifying"
    /\ DeterministicForwardTarget("repairing") = "verifying"
BY DEF DeterministicForwardTarget, ForwardTransitions, States

LEMMA PlannedEdgeIsAllowed ==
    ASSUME NEW state \in States, NEW blockedFrom, NEW ctx, ctx.phase \in Phases,
           ctx.boundPlan = NoCommit,
           PlannedExecutable(state, blockedFrom, ctx)
    PROVE  LET target == PlannedTarget(state, blockedFrom, ctx)
           IN  /\ EvaluateLifecycleTransition(state, target, blockedFrom, ctx.phase)
               /\ EvaluateTransitionGuards(state, target, NoInput, blockedFrom,
                    IF \/ GetTransitionGuardRequirement(state, target) = "review"
                       \/ RequiresProofGuardContext(state, target)
                    THEN ctx ELSE EmptyContext)
<1>. DEFINE target == PlannedTarget(state, blockedFrom, ctx)
            read == IF \/ GetTransitionGuardRequirement(state, target) = "review"
                       \/ RequiresProofGuardContext(state, target)
                    THEN ctx ELSE EmptyContext
<1>1. /\ target \notin {NotBlocked, "blocked"}
      /\ state # "blocked"
      /\ EvaluateTransitionGuards(state, target, NoInput, blockedFrom, ctx)
  BY DEF PlannedExecutable
<1>. SUFFICES /\ EvaluateLifecycleTransition(state, target, blockedFrom, ctx.phase)
              /\ EvaluateTransitionGuards(state, target, NoInput, blockedFrom, read)
  OBVIOUS
<1>2. CASE state \in {"completed", "pre_pr_reviewing"}
  BY <1>1, <1>2 DEF PlannedTarget
<1>3. CASE state = "queued"
  <2>1. target = "framed"
    BY <1>3, ForwardTargets DEF PlannedTarget
  <2>2. GetTransitionGuardRequirement(state, target) = "none"
    BY <1>3, <2>1 DEF GetTransitionGuardRequirement
  <2>3. read = EmptyContext
    BY <2>2 DEF RequiresProofGuardContext
  <2>. HIDE DEF target, read
  <2>4. EvaluateLifecycleTransition(state, target, blockedFrom, ctx.phase)
    BY <1>3, <2>1 DEF EvaluateLifecycleTransition, ForwardTransitions, PhaseForbids
  <2>5. EvaluateTransitionGuards(state, target, NoInput, blockedFrom, EmptyContext)
    BY <1>3, <2>1, <2>2
       DEF EvaluateTransitionGuards, ValidateTransitionEvidence, NoInput, EmptyContext,
           SuppliesPrePrReview, ReviewOutcomes, RequiresPrePrReview, IsPrePrReviewTransition
  <2>. QED  BY <2>3, <2>4, <2>5
<1>4. CASE state = "framed"
  <2>1. target = "proof_ready"
    BY <1>4, ForwardTargets DEF PlannedTarget
  <2>2. GetTransitionGuardRequirement(state, target) = "proof_plan"
    BY <1>4, <2>1 DEF GetTransitionGuardRequirement
  <2>. QED  BY <1>1, <2>2 DEF EvaluateTransitionGuards
<1>5. ASSUME <<state, target>> \in ForwardTransitions, ~PhaseForbids(state, target, ctx.phase),
             state \notin {"queued", "framed"}
      PROVE  /\ EvaluateLifecycleTransition(state, target, blockedFrom, ctx.phase)
             /\ EvaluateTransitionGuards(state, target, NoInput, blockedFrom, read)
  <2>1. GetTransitionGuardRequirement(state, target) \in {"proof", "review"}
    BY <1>1, <1>5 DEF GetTransitionGuardRequirement
  <2>2. read = ctx
    BY <1>5, <2>1 DEF RequiresProofGuardContext
  <2>3. state # "completed"
    BY <1>5 DEF ForwardTransitions
  <2>. HIDE DEF target, read
  <2>. QED  BY <1>1, <1>5, <2>2, <2>3 DEF EvaluateLifecycleTransition
<1>6. CASE state \in {"proof_ready", "implementing", "repairing"}
  <2>1. target = IF state = "proof_ready" THEN "implementing" ELSE "verifying"
    BY <1>6, ForwardTargets DEF PlannedTarget
  <2>. HIDE DEF target, read
  <2>2. <<state, target>> \in ForwardTransitions /\ ~PhaseForbids(state, target, ctx.phase)
    BY <1>6, <2>1 DEF ForwardTransitions, PhaseForbids
  <2>. QED  BY <1>5, <1>6, <2>2
<1>7. CASE state = "verifying"
  <2>1. \/ target = "pre_pr_reviewing" /\ ctx.phase = "pre_pr"
        \/ target = "reviewing" /\ ctx.phase # "pre_pr"
        \/ target = "implementing" /\ ctx.phase = "pre_pr"
        \/ target = "repairing"
    BY <1>1, <1>7 DEF PlannedTarget
  <2>. HIDE DEF target, read
  <2>2. <<state, target>> \in ForwardTransitions /\ ~PhaseForbids(state, target, ctx.phase)
    BY <1>7, <2>1 DEF ForwardTransitions, PhaseForbids, Phases
  <2>. QED  BY <1>5, <1>7, <2>2
<1>8. CASE state \in {"reviewing", "ready_for_human"}
  <2>1. \/ target = "repairing"
        \/ state = "reviewing" /\ target = "ready_for_human"
        \/ state = "ready_for_human" /\ target = "completed"
    BY <1>8 DEF PlannedTarget
  <2>. HIDE DEF target, read
  <2>2. <<state, target>> \in ForwardTransitions /\ ~PhaseForbids(state, target, ctx.phase)
    BY <1>8, <2>1 DEF ForwardTransitions, PhaseForbids
  <2>. QED  BY <1>5, <1>8, <2>2
<1>. QED  BY <1>1, <1>2, <1>3, <1>4, <1>6, <1>7, <1>8 DEF States

LEMMA PlannerAgrees == TypeOK => PlannerAgreesWithApply
<1>. SUFFICES ASSUME TypeOK, NEW observed \in Observations
              PROVE  LET ctx == ProofGuardContext(observed, history)
                         target == PlannedTarget(task.status, task.blockedFrom, ctx)
                     IN  PlannedExecutable(task.status, task.blockedFrom, ctx) =>
                           /\ EvaluateLifecycleTransition(task.status, target,
                                task.blockedFrom, LifecyclePhase(history))
                           /\ EvaluateTransitionGuards(task.status, target, NoInput,
                                task.blockedFrom,
                                IF \/ GetTransitionGuardRequirement(task.status, target)
                                        = "review"
                                   \/ RequiresProofGuardContext(task.status, target)
                                THEN ctx ELSE EmptyContext)
  BY DEF PlannerAgreesWithApply
<1>. DEFINE ctx == ProofGuardContext(observed, history)
<1>1. /\ ctx.phase = LifecyclePhase(history)
      /\ ctx.phase \in Phases
      /\ ctx.boundPlan = NoCommit
  BY DEF ProofGuardContext, LifecyclePhase, DeriveLifecyclePhase, Phases
<1>2. task.status \in States
  BY DEF TypeOK
<1>. HIDE DEF ctx
<1>. QED  BY <1>1, <1>2, PlannedEdgeIsAllowed DEF ctx

\* What the planner marks executable, the transaction accepts from a caller who
\* observed the same: in every state the controller can be in.
THEOREM PlannerIsHonest == Spec => []PlannerAgreesWithApply
BY TypeCorrect, PlannerAgrees, PTL
=============================================================================
