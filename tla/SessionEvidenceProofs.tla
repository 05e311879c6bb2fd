------------------------- MODULE SessionEvidenceProofs -------------------------
(***************************************************************************)
(* Proofs about what the transitions of SessionController rest on: the     *)
(* evidence is still the newest when a transition commits, although it was *)
(* read outside the transaction, a repair or an implementation that a      *)
(* review opened keeps its basis and advances from it, and the controller  *)
(* implements GovernedLifecycle.                                           *)
(***************************************************************************)
EXTENDS SessionControllerProofs, SequenceTheorems, WellFoundedInduction
-----------------------------------------------------------------------------
\* The evidence a client holds.  Receipts are only appended, so a watermark that
\* was once overtaken never matches again.

LocalReceiptsPass(head) ==
    \A gate \in Gates :
        LET i == LatestOfGate(gateReceipts, gate)
        IN  /\ i # 0
            /\ gateReceipts[i].result = "passed"
            /\ {gateReceipts[i].before, gateReceipts[i].after} = {head}

CiReceiptsPass(head) ==
    \A gate \in Gates :
        LET j == LatestOfGate(ciReceipts, gate)
        IN  j # 0 /\ ciReceipts[j].head = head

NewestSnapshotIs(head, review) ==
    LET newest == reviewReceipts[Len(reviewReceipts)]
    IN  /\ reviewReceipts # <<>>
        /\ newest.head = head
        /\ newest.blocking = review.blocking
        /\ newest.approved = review.approved
        /\ newest.merged = review.merged

\* What a context says of the receipts is what the newest of them say.
EvidenceHolds(ctx) ==
    /\ ctx.evidence = "passed" => LocalReceiptsPass(ctx.head)
    /\ ctx.evidence = "failed" => SomeNewestGateFails(ctx.head)
    /\ ctx.ci = "passed" => CiReceiptsPass(ctx.head)
    /\ ctx.review.status = "current" => NewestSnapshotIs(ctx.head, ctx.review)

\* A client's watermark is not ahead of the receipts; without one it has read none.
MarkIsPast(c) ==
    LET mark == client[c].mark
    IN  IF mark = NoMark
        THEN /\ client[c].pc # "evidence"
             /\ ~client[c].ctx.plan
             /\ client[c].ctx.review.status = "missing"
        ELSE /\ client[c].pc \in {"evidence", "apply"}
             /\ mark \in Nat \X Nat \X Nat
             /\ mark[1] <= Len(gateReceipts)
             /\ mark[2] <= Len(ciReceipts)
             /\ mark[3] <= Len(reviewReceipts)

\* Evidence whose watermark would pass the comparison still holds.
EvidenceIsCurrent(c) ==
    client[c].pc = "apply" /\ client[c].mark = Watermark => EvidenceHolds(client[c].ctx)

ClientEvidence(c) == MarkIsPast(c) /\ EvidenceIsCurrent(c)

EvidenceInv ==
    /\ TypeOK
    /\ \A c \in Clients : ClientEvidence(c)
    /\ CompletedOnLatestReview

\* What is read from the receipts holds of them when it is read, whatever the
\* receipts are: evaluateSessionProof and aggregateGateStatus invent no evidence.
LEMMA EvidenceRead ==
    ASSUME TypeOK, NEW observed, NEW past
    PROVE  EvidenceHolds(ProofGuardContext(observed, past))
<1>. DEFINE head == observed.head
            local == {GateStatus(gate, head) : gate \in Gates}
            ci == {CiStatus(gate, head) : gate \in Gates}
            ctx == ProofGuardContext(observed, past)
<1>1. /\ ctx.head = head
      /\ ctx.evidence = LocalEvidence(head)
      /\ ctx.ci = CiEvidence(head)
      /\ ctx.review = ReviewEvidence(head)
  BY DEF ProofGuardContext
<1>2. ASSUME LocalEvidence(head) = "passed" PROVE LocalReceiptsPass(head)
  <2>1. local \subseteq {"passed"}
    BY <1>2 DEF LocalEvidence, AggregateGateStatus
  <2>2. \A gate \in Gates : GateStatus(gate, head) = "passed"
    BY <2>1
  <2>. QED  BY <2>2 DEF LocalReceiptsPass, GateStatus
<1>3. ASSUME LocalEvidence(head) = "failed" PROVE SomeNewestGateFails(head)
  <2>1. "failed" \in local
    BY <1>3 DEF LocalEvidence, AggregateGateStatus
  <2>2. PICK gate \in Gates : GateStatus(gate, head) = "failed"
    BY <2>1
  <2>. QED  BY <2>2 DEF SomeNewestGateFails, GateStatus
<1>4. ASSUME CiEvidence(head) = "passed" PROVE CiReceiptsPass(head)
  <2>1. ci \subseteq {"passed"}
    BY <1>4 DEF CiEvidence, AggregateGateStatus
  <2>2. \A gate \in Gates : CiStatus(gate, head) = "passed"
    BY <2>1
  <2>. QED  BY <2>2 DEF CiReceiptsPass, CiStatus
<1>5. ASSUME ReviewEvidence(head).status = "current"
      PROVE  NewestSnapshotIs(head, ReviewEvidence(head))
  <2>1. reviewReceipts \in Seq(ReviewReceipt)
    BY DEF TypeOK
  <2>. QED  BY <1>5, <2>1 DEF ReviewEvidence, NoReview, NewestSnapshotIs
<1>. HIDE DEF ctx, head
<1>. QED  BY <1>1, <1>2, <1>3, <1>4, <1>5 DEF EvidenceHolds, ctx

LEMMA EvidenceInit == Init => EvidenceInv
<1>. SUFFICES ASSUME Init PROVE EvidenceInv
  OBVIOUS
<1>1. ASSUME NEW c \in Clients PROVE ClientEvidence(c)
  BY DEF Init, ClientEvidence, MarkIsPast, EvidenceIsCurrent, IdleClient, EmptyContext, NoReview
<1>2. CompletedOnLatestReview
  BY DEF Init, CompletedOnLatestReview
<1>. QED  BY <1>1, <1>2, TypeInit DEF EvidenceInv

\* A step that moves one client and leaves receipts alone keeps the invariant,
\* provided the client it moves holds what the receipts say.
LEMMA EvidenceClientStep ==
    ASSUME EvidenceInv, TypeOK', NEW c \in Clients,
           UNCHANGED receipts,
           \A d \in Clients \ {c} : client'[d] = client[d],
           ClientEvidence(c)',
           CompletedOnLatestReview'
    PROVE  EvidenceInv'
<1>1. ASSUME NEW d \in Clients \ {c} PROVE ClientEvidence(d)'
  <2>1. client'[d] = client[d] /\ ClientEvidence(d)
    BY DEF EvidenceInv
  <2>2. MarkIsPast(d)'
    BY <2>1 DEF ClientEvidence, MarkIsPast, receipts
  <2>3. EvidenceIsCurrent(d)'
    BY <2>1 DEF ClientEvidence, EvidenceIsCurrent, EvidenceHolds, LocalReceiptsPass,
                SomeNewestGateFails, CiReceiptsPass, NewestSnapshotIs, Watermark, receipts
  <2>. QED  BY <2>2, <2>3 DEF ClientEvidence
<1>. QED  BY <1>1 DEF EvidenceInv

\* Evidence that arrives overtakes every watermark taken before.
LEMMA EvidenceAppend ==
    ASSUME EvidenceInv, TypeOK', UNCHANGED client,
           \/ Len(gateReceipts') = Len(gateReceipts) + 1 /\ UNCHANGED <<ciReceipts, reviewReceipts>>
           \/ Len(ciReceipts') = Len(ciReceipts) + 1 /\ UNCHANGED <<gateReceipts, reviewReceipts>>
           \/ Len(reviewReceipts') = Len(reviewReceipts) + 1 /\ UNCHANGED <<gateReceipts, ciReceipts>>,
           CompletedOnLatestReview'
    PROVE  EvidenceInv'
<1>1. /\ Len(gateReceipts) \in Nat /\ Len(ciReceipts) \in Nat /\ Len(reviewReceipts) \in Nat
      /\ Len(gateReceipts') \in Nat /\ Len(ciReceipts') \in Nat /\ Len(reviewReceipts') \in Nat
  BY DEF EvidenceInv, TypeOK
<1>2. ASSUME NEW d \in Clients PROVE ClientEvidence(d)'
  <2>1. MarkIsPast(d) /\ client'[d] = client[d]
    BY DEF EvidenceInv, ClientEvidence
  <2>2. MarkIsPast(d)'
    BY <1>1, <2>1 DEF MarkIsPast
  <2>3. NoMark # Watermark'
    BY DEF Watermark, NoMark
  <2>4. ASSUME client[d].mark # NoMark PROVE client[d].mark # Watermark'
    <3>1. /\ client[d].mark[1] <= Len(gateReceipts)
          /\ client[d].mark[2] <= Len(ciReceipts)
          /\ client[d].mark[3] <= Len(reviewReceipts)
          /\ client[d].mark \in Nat \X Nat \X Nat
      BY <2>1, <2>4 DEF MarkIsPast
    <3>2. /\ Watermark'[1] = Len(gateReceipts')
          /\ Watermark'[2] = Len(ciReceipts')
          /\ Watermark'[3] = Len(reviewReceipts')
      BY DEF Watermark
    <3>. QED  BY <1>1, <3>1, <3>2
  <2>5. client[d].mark # Watermark'
    BY <2>3, <2>4
  <2>. QED  BY <2>1, <2>2, <2>5 DEF ClientEvidence, EvidenceIsCurrent
<1>. QED  BY <1>2 DEF EvidenceInv

\* What the guards demand of a context, edge by edge.
LEMMA GuardsNeed ==
    ASSUME NEW source \in States \ {"blocked"}, NEW target \in States,
           NEW input, NEW blockedFrom, NEW phase, NEW ctx,
           EvaluateLifecycleTransition(source, target, blockedFrom, phase),
           EvaluateTransitionGuards(source, target, input, blockedFrom, ctx)
    PROVE  /\ target \in {"pre_pr_reviewing", "reviewing", "ready_for_human", "completed"}
                => /\ ctx.evidence = "passed"
                   /\ ctx.ci = "passed"
                   /\ ctx.plan \/ ctx.review.status = "current"
           /\ source = "verifying" /\ target = "repairing"
                => ctx.plan /\ ctx.evidence = "failed" /\ ctx.phase = "post_pr"
           /\ source \in {"reviewing", "ready_for_human"} /\ target = "repairing"
                => ctx.review.status = "current" /\ ctx.review.blocking
           /\ source \in {"reviewing", "ready_for_human"}
                /\ target \in {"ready_for_human", "completed"}
                => ctx.review.status = "current" /\ ~ctx.review.blocking
           /\ target = "completed" => ctx.review.approved /\ ctx.review.merged
           /\ source = "repairing" /\ target = "verifying" => ctx.plan /\ ctx.repaired
           /\ source = "implementing" /\ target = "verifying" => ctx.plan /\ ctx.advanced
<1>1. target = "blocked" \/ <<source, target>> \in ForwardTransitions
  BY DEF EvaluateLifecycleTransition
<1>2. CASE target = "blocked"
  BY <1>2
<1>3. CASE <<source, target>> \in ForwardTransitions /\ source \in {"queued", "framed"}
  BY <1>3 DEF ForwardTransitions
<1>4. CASE /\ <<source, target>> \in ForwardTransitions
           /\ source \in {"reviewing", "ready_for_human"}
  <2>1. GetTransitionGuardRequirement(source, target) = "review"
    BY <1>4 DEF GetTransitionGuardRequirement, ForwardTransitions
  <2>2. ReviewOwnedGuards(source, target, ctx)
    BY <2>1 DEF EvaluateTransitionGuards
  <2>. QED  BY <1>4, <2>2 DEF ReviewOwnedGuards, ForwardTransitions
<1>5. CASE /\ <<source, target>> \in ForwardTransitions
           /\ source \in {"proof_ready", "implementing", "verifying", "pre_pr_reviewing",
                          "repairing"}
  <2>1. GetTransitionGuardRequirement(source, target) = "proof"
    BY <1>5 DEF GetTransitionGuardRequirement, ForwardTransitions
  <2>2. ProofOwnedGuards(source, target, input, ctx)
    BY <2>1 DEF EvaluateTransitionGuards
  <2>. QED  BY <1>5, <2>2 DEF ProofOwnedGuards, ForwardTransitions
<1>. QED
  BY <1>1, <1>2, <1>3, <1>4, <1>5 DEF ForwardTransitions, States

\* The evidence an applied transition was allowed on holds of the newest receipts.
LEMMA AppliedOnEvidence ==
    ASSUME EvidenceInv, NEW c \in Clients, ApplyTransition(c),
           client[c].ctx.plan \/ client[c].ctx.review.status = "current"
    PROVE  EvidenceHolds(client[c].ctx)
<1>1. MarkIsPast(c) /\ EvidenceIsCurrent(c)
  BY DEF EvidenceInv, ClientEvidence
<1>2. client[c].mark # NoMark
  BY <1>1 DEF MarkIsPast
<1>3. client[c].pc = "apply" /\ client[c].mark = Watermark
  BY <1>2 DEF ApplyTransition, CanApply, EvidenceUnchanged
<1>. QED  BY <1>1, <1>3 DEF EvidenceIsCurrent

\* The row a transition appends, and what its guards and the lifecycle said.
LEMMA AppliedRowIs ==
    ASSUME TypeOK, NEW c \in Clients, ApplyTransition(c)
    PROVE  /\ history' = Append(history, AppliedRow)
           /\ AppliedRow.from = task.status
           /\ AppliedRow.to = client[c].request.target
           /\ AppliedRow.head = client[c].ctx.head
           /\ AppliedRow.review = IF SuppliesPrePrReview(client[c].request.input)
                                  THEN client[c].request.input.head ELSE NoCommit
           /\ AppliedRow \in TransitionRow
           /\ task.status \in States
           /\ client[c].request.target \in States
           /\ task'.status = client[c].request.target
           /\ client[c].request.expected = task.version
<1>. DEFINE request == client[c].request
            ctx == client[c].ctx
            row == [from |-> task.status, to |-> request.target,
                    review |-> IF SuppliesPrePrReview(request.input)
                               THEN request.input.head ELSE NoCommit,
                    head |-> ctx.head]
<1>1. /\ history' = Append(history, row)
      /\ task' = NextTask(request.target)
      /\ VersionMatches(c)
  BY DEF ApplyTransition
<1>2. /\ client[c] \in ClientState
      /\ task.status \in States
      /\ history \in Seq(TransitionRow)
  BY DEF TypeOK
<1>3. /\ request.target \in States
      /\ row \in TransitionRow
  <2>1. request \in Request /\ ctx \in GuardContext
    BY <1>2 DEF ClientState
  <2>2. /\ request.target \in States
        /\ request.input.head \in CommitOrNone
        /\ ctx.head \in CommitOrNone
    BY <2>1 DEF Request, GuardContext
  <2>3. task.status \in States
    BY <1>2
  <2>. QED  BY <2>2, <2>3 DEF TransitionRow, CommitOrNone
<1>4. AppliedRow = row
  <2>. HIDE DEF row
  <2>. QED  BY <1>1, <1>2, <1>3 DEF AppliedRow
<1>. QED  BY <1>1, <1>2, <1>3, <1>4 DEF NextTask, VersionMatches

\* A client that has read no receipts claims nothing about them.
LEMMA EvidenceUnread ==
    ASSUME EvidenceInv, TypeOK', NEW c \in Clients, NEW moved,
           client' = [client EXCEPT ![c] = moved], UNCHANGED receipts,
           moved.mark = NoMark, moved.pc # "evidence", ~moved.ctx.plan,
           moved.ctx.review.status = "missing",
           CompletedOnLatestReview'
    PROVE  EvidenceInv'
<1>1. client'[c] = moved /\ \A d \in Clients \ {c} : client'[d] = client[d]
  BY DEF EvidenceInv, TypeOK
<1>2. NoMark # Watermark'
  BY DEF NoMark, Watermark
<1>3. ClientEvidence(c)'
  BY <1>1, <1>2 DEF ClientEvidence, MarkIsPast, EvidenceIsCurrent
<1>. QED  BY <1>1, <1>3, EvidenceClientStep

\* A transition into completed was allowed by the newest snapshot; from there on
\* no snapshot is imported and no transition is allowed.
LEMMA CompletedApply ==
    ASSUME EvidenceInv, NEW c \in Clients, ApplyTransition(c)
    PROVE  CompletedOnLatestReview'
<1>. DEFINE request == client[c].request
            ctx == client[c].ctx
<1>. SUFFICES ASSUME request.target = "completed" PROVE CompletedOnLatestReview'
  BY AppliedRowIs DEF CompletedOnLatestReview, EvidenceInv
<1>1. /\ task.status \in States /\ request.target \in States
      /\ EvaluateLifecycleTransition(task.status, request.target, task.blockedFrom,
                                     LifecyclePhase(history))
      /\ EvaluateTransitionGuards(task.status, request.target, request.input,
                                  task.blockedFrom, ctx)
  BY AppliedRowIs DEF EvidenceInv, ApplyTransition, StructurallyAllowed, GuardsAllow
<1>2. task.status = "ready_for_human"
  BY <1>1 DEF EvaluateLifecycleTransition, ForwardTransitions, MayResume, Unresumable
<1>3. /\ ctx.review.status = "current"
      /\ ~ctx.review.blocking
      /\ ctx.review.approved
      /\ ctx.review.merged
  BY <1>1, <1>2, GuardsNeed DEF States
<1>4. NewestSnapshotIs(ctx.head, ctx.review)
  BY <1>3, AppliedOnEvidence DEF EvidenceHolds
<1>5. /\ history' = Append(history, AppliedRow)
      /\ AppliedRow.head = ctx.head
      /\ AppliedRow \in TransitionRow
  BY AppliedRowIs DEF EvidenceInv
<1>6. history'[Len(history')].head = ctx.head
  BY <1>5 DEF AppliedRow
<1>7. reviewReceipts' = reviewReceipts
  BY DEF ApplyTransition, receipts
<1>. QED  BY <1>3, <1>4, <1>6, <1>7 DEF CompletedOnLatestReview, NewestSnapshotIs

LEMMA EvidenceNext == EvidenceInv /\ [Next]_vars => EvidenceInv'
<1>. SUFFICES ASSUME EvidenceInv, [Next]_vars PROVE EvidenceInv'
  OBVIOUS
<1>1. TypeOK'
  BY TypeNext DEF EvidenceInv
<1>2. client \in [Clients -> ClientState]
  BY DEF EvidenceInv, TypeOK
<1>3. ASSUME UNCHANGED <<task, history, reviewReceipts>> PROVE CompletedOnLatestReview'
  BY <1>3 DEF EvidenceInv, CompletedOnLatestReview
<1>4. ASSUME NEW c \in Clients, Answer(c), UNCHANGED receipts, CompletedOnLatestReview'
      PROVE  EvidenceInv'
  <2>1. /\ IdleClient.mark = NoMark /\ IdleClient.pc # "evidence"
        /\ ~IdleClient.ctx.plan /\ IdleClient.ctx.review.status = "missing"
    BY DEF IdleClient, EmptyContext, NoReview
  <2>. QED  BY <1>1, <1>4, <2>1, EvidenceUnread DEF Answer
<1>5. ASSUME NEW c \in Clients, NEW request, client' = [client EXCEPT ![c] = ReadLifecycle(request)],
             UNCHANGED receipts, CompletedOnLatestReview'
      PROVE  EvidenceInv'
  <2>. DEFINE started == ReadLifecycle(request)
  <2>1. /\ started.mark = NoMark /\ started.pc # "evidence"
        /\ ~started.ctx.plan /\ started.ctx.review.status = "missing"
    BY DEF ReadLifecycle, FirstStep, EmptyContext, NoReview
  <2>. HIDE DEF started
  <2>2. client' = [client EXCEPT ![c] = started]
    BY <1>5 DEF started
  <2>. QED  BY <1>1, <1>5, <2>1, <2>2, EvidenceUnread
<1>6. ASSUME NEW c \in Clients, Begin(c) \/ Retry(c) PROVE EvidenceInv'
  <2>1. UNCHANGED receipts /\ CompletedOnLatestReview'
    BY <1>3, <1>6 DEF Begin, Retry, database, receipts
  <2>. QED  BY <1>5, <1>6, <2>1 DEF Begin, Retry
<1>7. ASSUME NEW c \in Clients, PreparePlan(c) PROVE EvidenceInv'
  <2>1. PICK observed \in Observations :
          client' = [client EXCEPT
             ![c].pc = "apply",
             ![c].ctx = [EmptyContext EXCEPT
                !.boundPlan = IF observed.clean /\ observed.onBranch THEN observed.head
                              ELSE NoCommit,
                !.refused = ~(observed.clean /\ observed.onBranch)]]
    BY <1>7 DEF PreparePlan
  <2>. DEFINE prepared == [EmptyContext EXCEPT
                !.boundPlan = IF observed.clean /\ observed.onBranch THEN observed.head
                              ELSE NoCommit,
                !.refused = ~(observed.clean /\ observed.onBranch)]
              moved == [client[c] EXCEPT !.pc = "apply", !.ctx = prepared]
  <2>2. client[c].pc = "plan" /\ MarkIsPast(c) /\ client[c] \in ClientState
    BY <1>2, <1>7 DEF PreparePlan, EvidenceInv, ClientEvidence
  <2>3. client[c].mark = NoMark
    BY <2>2 DEF MarkIsPast
  <2>4. ~prepared.plan /\ prepared.review.status = "missing"
    BY DEF EmptyContext, NoReview
  <2>. HIDE DEF prepared
  <2>5. moved.mark = NoMark /\ moved.pc = "apply" /\ moved.ctx = prepared
    BY <2>2, <2>3 DEF ClientState
  <2>6. client' = [client EXCEPT ![c] = moved]
    BY <2>1 DEF prepared
  <2>7. UNCHANGED receipts /\ CompletedOnLatestReview'
    BY <1>3, <1>7 DEF PreparePlan, database, receipts
  <2>. HIDE DEF moved
  <2>. QED  BY <1>1, <2>4, <2>5, <2>6, <2>7, EvidenceUnread
<1>8. ASSUME NEW c \in Clients, ReadWatermark(c) PROVE EvidenceInv'
  <2>1. /\ client'[c].pc = "evidence" /\ client'[c].mark = Watermark
        /\ \A d \in Clients \ {c} : client'[d] = client[d]
    BY <1>2, <1>8 DEF ReadWatermark, ClientState
  <2>2. UNCHANGED receipts /\ CompletedOnLatestReview'
    BY <1>3, <1>8 DEF ReadWatermark, database, receipts
  <2>3. /\ Len(gateReceipts) \in Nat /\ Len(ciReceipts) \in Nat /\ Len(reviewReceipts) \in Nat
    BY DEF EvidenceInv, TypeOK
  <2>4. MarkIsPast(c)'
    BY <2>1, <2>2, <2>3 DEF MarkIsPast, Watermark, NoMark, receipts
  <2>5. EvidenceIsCurrent(c)'
    BY <2>1 DEF EvidenceIsCurrent
  <2>. QED  BY <1>1, <2>1, <2>2, <2>4, <2>5, EvidenceClientStep DEF ClientEvidence
<1>9. ASSUME NEW c \in Clients, ReadEvidence(c) PROVE EvidenceInv'
  <2>1. PICK observed \in Observations :
          client' = [client EXCEPT
             ![c].pc = "apply",
             ![c].ctx = ProofGuardContext(observed, SubSeq(history, 1, client[c].seen))]
    BY <1>9 DEF ReadEvidence
  <2>. DEFINE read == ProofGuardContext(observed, SubSeq(history, 1, client[c].seen))
  <2>2. EvidenceHolds(read)
    BY EvidenceRead DEF EvidenceInv
  <2>. HIDE DEF read
  <2>3. /\ client'[c].pc = "apply" /\ client'[c].mark = client[c].mark /\ client'[c].ctx = read
        /\ \A d \in Clients \ {c} : client'[d] = client[d]
    BY <1>2, <2>1 DEF read, ClientState
  <2>4. UNCHANGED receipts /\ CompletedOnLatestReview'
    BY <1>3, <1>9 DEF ReadEvidence, database, receipts
  <2>5. client[c].pc = "evidence" /\ MarkIsPast(c)
    BY <1>9 DEF ReadEvidence, EvidenceInv, ClientEvidence
  <2>6. MarkIsPast(c)'
    BY <2>3, <2>4, <2>5 DEF MarkIsPast, receipts
  <2>7. EvidenceIsCurrent(c)'
    BY <2>2, <2>3, <2>4 DEF EvidenceIsCurrent, EvidenceHolds, LocalReceiptsPass,
          SomeNewestGateFails, CiReceiptsPass, NewestSnapshotIs, receipts
  <2>. QED  BY <1>1, <2>3, <2>4, <2>6, <2>7, EvidenceClientStep DEF ClientEvidence
<1>10. ASSUME NEW c \in Clients,
              Abandon(c) \/ Replay(c) \/ RecordConflict(c) \/ RejectTransition(c)
       PROVE  EvidenceInv'
  <2>1. UNCHANGED receipts /\ CompletedOnLatestReview'
    BY <1>3, <1>10
       DEF Abandon, Replay, RecordConflict, RejectTransition, database, receipts
  <2>2. Answer(c)
    BY <1>10 DEF Abandon, Replay, RecordConflict, RejectTransition, Answer
  <2>. QED  BY <1>4, <2>1, <2>2
<1>11. ASSUME NEW c \in Clients, ReportEvidenceChanged(c) PROVE EvidenceInv'
  <2>. DEFINE moved == [IdleClient EXCEPT !.pc = "busy", !.request = client[c].request]
  <2>1. /\ moved.mark = NoMark /\ moved.pc # "evidence"
        /\ ~moved.ctx.plan /\ moved.ctx.review.status = "missing"
    BY DEF IdleClient, EmptyContext, NoReview
  <2>. HIDE DEF moved
  <2>2. client' = [client EXCEPT ![c] = moved] /\ UNCHANGED receipts
    BY <1>11 DEF ReportEvidenceChanged, moved
  <2>3. CompletedOnLatestReview'
    BY <1>3, <1>11 DEF ReportEvidenceChanged, database, receipts
  <2>. QED  BY <1>1, <2>1, <2>2, <2>3, EvidenceUnread
<1>12. ASSUME NEW c \in Clients, ApplyTransition(c) PROVE EvidenceInv'
  BY <1>4, <1>12, CompletedApply DEF ApplyTransition
<1>13. CASE RecordGateReceipt \/ ImportGateReceipt \/ ImportReviewReceipt
  <2>1. /\ gateReceipts \in Seq(GateReceipt)
        /\ ciReceipts \in Seq(CiReceipt)
        /\ reviewReceipts \in Seq(ReviewReceipt)
    BY DEF EvidenceInv, TypeOK
  <2>2. CompletedOnLatestReview'
    BY <1>3, <1>13
       DEF RecordGateReceipt, ImportGateReceipt, ImportReviewReceipt, CompletedOnLatestReview
  <2>3. \/ Len(gateReceipts') = Len(gateReceipts) + 1 /\ UNCHANGED <<ciReceipts, reviewReceipts>>
        \/ Len(ciReceipts') = Len(ciReceipts) + 1 /\ UNCHANGED <<gateReceipts, reviewReceipts>>
        \/ Len(reviewReceipts') = Len(reviewReceipts) + 1 /\ UNCHANGED <<gateReceipts, ciReceipts>>
    <3>1. CASE RecordGateReceipt
      BY <2>1, <3>1 DEF RecordGateReceipt
    <3>2. CASE ImportGateReceipt
      BY <2>1, <3>2 DEF ImportGateReceipt
    <3>3. CASE ImportReviewReceipt
      BY <2>1, <3>3 DEF ImportReviewReceipt
    <3>. QED  BY <1>13, <3>1, <3>2, <3>3
  <2>4. UNCHANGED client
    BY <1>13 DEF RecordGateReceipt, ImportGateReceipt, ImportReviewReceipt
  <2>. QED  BY <1>1, <2>2, <2>3, <2>4, EvidenceAppend
<1>14. CASE LoseArtifact \/ UNCHANGED vars
  <2>1. UNCHANGED <<client, receipts, task, history>>
    BY <1>14 DEF LoseArtifact, vars, database
  <2>2. CompletedOnLatestReview'
    BY <1>3, <2>1 DEF receipts
  <2>3. ASSUME NEW d \in Clients PROVE ClientEvidence(d)'
    <3>1. ClientEvidence(d)
      BY DEF EvidenceInv
    <3>. QED
      BY <2>1, <3>1 DEF ClientEvidence, MarkIsPast, EvidenceIsCurrent, EvidenceHolds,
            LocalReceiptsPass, SomeNewestGateFails, CiReceiptsPass, NewestSnapshotIs,
            Watermark, receipts
  <2>. QED  BY <1>1, <2>2, <2>3 DEF EvidenceInv
<1>. QED
  BY <1>6, <1>7, <1>8, <1>9, <1>10, <1>11, <1>12, <1>13, <1>14
  DEF Next, Gather, Decide, Environment

\* A completed session rests on the newest review the controller holds, however
\* many snapshots were imported while a client evaluated an earlier one.
THEOREM CompletionIsReviewed == Spec => []CompletedOnLatestReview
<1>1. EvidenceInv => CompletedOnLatestReview
  BY DEF EvidenceInv
<1>. QED  BY <1>1, EvidenceInit, EvidenceNext, PTL DEF Spec

\* Only an applied transition lengthens the history.
LEMMA OnlyApplyExtends ==
    ASSUME [Next]_vars, Applied
    PROVE  \E c \in Clients : ApplyTransition(c)
BY DEF Applied, Next, Begin, Gather, PreparePlan, ReadWatermark, ReadEvidence, Decide, Replay,
       RecordConflict, RejectTransition, ReportEvidenceChanged, Retry, Abandon, Environment,
       RecordGateReceipt, ImportGateReceipt, ImportReviewReceipt, LoseArtifact, database, vars

LEMMA EvidenceStep == EvidenceInv /\ [Next]_vars => CommitsOnNewestEvidence
<1>. SUFFICES ASSUME EvidenceInv, [Next]_vars, Applied, AppliedRow.from # "blocked"
              PROVE  CommitsOnNewestEvidence
  BY DEF CommitsOnNewestEvidence
<1>1. PICK c \in Clients : ApplyTransition(c)
  BY OnlyApplyExtends
<1>. DEFINE source == task.status
            target == client[c].request.target
            ctx == client[c].ctx
<1>2. /\ AppliedRow.from = source /\ AppliedRow.to = target /\ AppliedRow.head = ctx.head
      /\ source \in States \ {"blocked"} /\ target \in States
  BY <1>1, AppliedRowIs DEF EvidenceInv
<1>3. /\ EvaluateLifecycleTransition(source, target, task.blockedFrom, LifecyclePhase(history))
      /\ EvaluateTransitionGuards(source, target, client[c].request.input,
                                  task.blockedFrom, ctx)
  BY <1>1 DEF ApplyTransition, StructurallyAllowed, GuardsAllow
<1>4. ASSUME target \in {"pre_pr_reviewing", "reviewing", "ready_for_human", "completed"}
      PROVE  NewestReceiptsPass(ctx.head)
  <2>1. ctx.evidence = "passed" /\ ctx.ci = "passed" /\ (ctx.plan \/ ctx.review.status = "current")
    BY <1>2, <1>3, <1>4, GuardsNeed
  <2>2. EvidenceHolds(ctx)
    BY <1>1, <2>1, AppliedOnEvidence
  <2>3. LocalReceiptsPass(ctx.head) /\ CiReceiptsPass(ctx.head)
    BY <2>1, <2>2 DEF EvidenceHolds
  <2>. QED  BY <2>3 DEF NewestReceiptsPass, LocalReceiptsPass, CiReceiptsPass
<1>5. ASSUME source \in {"reviewing", "ready_for_human"}, target = "repairing"
      PROVE  NewestReviewBlocks(ctx.head)
  <2>1. ctx.review.status = "current" /\ ctx.review.blocking
    BY <1>2, <1>3, <1>5, GuardsNeed
  <2>2. NewestSnapshotIs(ctx.head, ctx.review)
    BY <1>1, <2>1, AppliedOnEvidence DEF EvidenceHolds
  <2>. QED  BY <2>1, <2>2 DEF NewestSnapshotIs, NewestReviewBlocks
<1>6. ASSUME source \in {"reviewing", "ready_for_human"}, target \in {"ready_for_human", "completed"}
      PROVE  ~NewestReviewBlocks(ctx.head)
  <2>1. ctx.review.status = "current" /\ ~ctx.review.blocking
    BY <1>2, <1>3, <1>6, GuardsNeed
  <2>2. NewestSnapshotIs(ctx.head, ctx.review)
    BY <1>1, <2>1, AppliedOnEvidence DEF EvidenceHolds
  <2>. QED  BY <2>1, <2>2 DEF NewestSnapshotIs, NewestReviewBlocks
<1>7. ASSUME source = "verifying", target = "repairing" PROVE SomeNewestGateFails(ctx.head)
  <2>1. ctx.plan /\ ctx.evidence = "failed"
    BY <1>2, <1>3, <1>7, GuardsNeed
  <2>. QED  BY <1>1, <2>1, AppliedOnEvidence DEF EvidenceHolds
<1>. QED  BY <1>2, <1>4, <1>5, <1>6, <1>7 DEF CommitsOnNewestEvidence

\* No transition commits on evidence that something newer has overtaken: the
\* receipts its guards were told of are the newest stored at the commit.
THEOREM EvidenceIsNeverOvertaken == Spec => CommittedOnNewestEvidence
BY EvidenceInit, EvidenceNext, EvidenceStep, PTL DEF Spec, CommittedOnNewestEvidence
-----------------------------------------------------------------------------
\* The most recent row of a kind.  SelectLastInSeq picks the largest index that
\* qualifies, which exists because a history is finite.

LEMMA LargestOf ==
    ASSUME NEW n \in Nat, NEW I, I \subseteq 1 .. n, I # {}
    PROVE  Max(I) \in I /\ \A k \in I : k <= Max(I)
<1>. DEFINE Above(i) == {k \in I : k > i}
            T == {Above(i) : i \in I}
            R == StrictSubsetOrdering(1 .. n)
<1>1. IsWellFoundedOn(R, FiniteSubsetsOf(1 .. n))
  BY FS_StrictSubsetOrderingWellFounded
<1>2. FiniteSubsetsOf(1 .. n) = SUBSET (1 .. n)
  <2>1. IsFiniteSet(1 .. n)
    BY FS_Interval
  <2>. QED  BY <2>1, FS_FiniteSubsetsOfFinite
<1>3. T # {} /\ T \subseteq FiniteSubsetsOf(1 .. n)
  <2>1. \A i \in I : Above(i) \in SUBSET (1 .. n)
    OBVIOUS
  <2>. HIDE DEF Above
  <2>2. T \subseteq SUBSET (1 .. n)
    BY <2>1
  <2>3. PICK i \in I : TRUE
    OBVIOUS
  <2>4. Above(i) \in T
    OBVIOUS
  <2>. HIDE DEF T
  <2>. QED  BY <1>2, <2>2, <2>4
<1>4. PICK X \in T : \A Y \in T : ~(<<Y, X>> \in R)
  <2>. HIDE DEF T, R
  <2>. QED  BY <1>1, <1>3, WFMin
<1>5. PICK m \in I : X = Above(m)
  OBVIOUS
<1>6. ASSUME NEW k \in I, k > m PROVE FALSE
  <2>1. Above(k) \subseteq Above(m) /\ k \in Above(m) /\ k \notin Above(k)
    <3>1. I \subseteq Int /\ k \in Int /\ m \in Int
      OBVIOUS
    <3>2. \A x \in I : x > k => x > m
      BY <1>6, <3>1
    <3>3. ~(k > k)
      BY <3>1
    <3>. QED  BY <1>6, <3>2, <3>3
  <2>2. Above(k) \in SUBSET (1 .. n) /\ Above(m) \in SUBSET (1 .. n)
    OBVIOUS
  <2>3. Above(k) # Above(m)
    BY <2>1
  <2>. HIDE DEF Above
  <2>4. <<Above(k), X>> \in R
    BY <1>5, <2>1, <2>2, <2>3 DEF StrictSubsetOrdering
  <2>5. Above(k) \in T
    OBVIOUS
  <2>. QED  BY <1>4, <2>4, <2>5
<1>7. \E x \in I : \A y \in I : x >= y
  BY <1>6
<1>8. Max(I) \in I /\ \A y \in I : Max(I) >= y
  BY <1>7 DEF Max
<1>. QED  BY <1>8

EntersImplementation(row) ==
    /\ row.to = "implementing"
    /\ row.from \in {"proof_ready", "verifying", "pre_pr_reviewing"}

EntersRepair(row) == IsRepairEntryTransition(row.from, row.to)

\* What the latest entry of an episode is: one that qualifies, with none after it.
LEMMA LatestRepairEntryIs ==
    ASSUME NEW past \in Seq(TransitionRow)
    PROVE  /\ LatestRepairEntry(past) \in 0 .. Len(past)
           /\ LatestRepairEntry(past) # 0 => EntersRepair(past[LatestRepairEntry(past)])
           /\ \A k \in 1 .. Len(past) : EntersRepair(past[k]) => k <= LatestRepairEntry(past)
<1>. DEFINE I == {k \in 1 .. Len(past) : EntersRepair(past[k])}
<1>1. LatestRepairEntry(past) = IF I # {} THEN Max(I) ELSE 0
  BY DEF LatestRepairEntry, SelectLastInSeq, EntersRepair
<1>2. Len(past) \in Nat /\ I \subseteq 1 .. Len(past)
  OBVIOUS
<1>3. I # {} => Max(I) \in I /\ \A k \in I : k <= Max(I)
  <2>. HIDE DEF I
  <2>. QED  BY <1>2, LargestOf
<1>4. CASE I # {}
  BY <1>1, <1>2, <1>3, <1>4
<1>5. CASE I = {}
  BY <1>1, <1>2, <1>5
<1>. QED  BY <1>4, <1>5

LEMMA LatestImplementationEntryIs ==
    ASSUME NEW past \in Seq(TransitionRow)
    PROVE  /\ LatestImplementationEntry(past) \in 0 .. Len(past)
           /\ LatestImplementationEntry(past) # 0
                => EntersImplementation(past[LatestImplementationEntry(past)])
           /\ \A k \in 1 .. Len(past) :
                 EntersImplementation(past[k]) => k <= LatestImplementationEntry(past)
<1>. DEFINE I == {k \in 1 .. Len(past) : EntersImplementation(past[k])}
<1>1. LatestImplementationEntry(past) = IF I # {} THEN Max(I) ELSE 0
  BY DEF LatestImplementationEntry, SelectLastInSeq, EntersImplementation
<1>2. Len(past) \in Nat /\ I \subseteq 1 .. Len(past)
  OBVIOUS
<1>3. I # {} => Max(I) \in I /\ \A k \in I : k <= Max(I)
  <2>. HIDE DEF I
  <2>. QED  BY <1>2, LargestOf
<1>4. CASE I # {}
  BY <1>1, <1>2, <1>3, <1>4
<1>5. CASE I = {}
  BY <1>1, <1>2, <1>5
<1>. QED  BY <1>4, <1>5

\* Appending a row moves the latest entry to it, or leaves it where it was.
LEMMA LatestRepairEntryAppend ==
    ASSUME NEW past \in Seq(TransitionRow), NEW row \in TransitionRow
    PROVE  LatestRepairEntry(Append(past, row)) =
             IF EntersRepair(row) THEN Len(past) + 1 ELSE LatestRepairEntry(past)
<1>. DEFINE longer == Append(past, row)
            i == LatestRepairEntry(past)
            j == LatestRepairEntry(longer)
<1>1. /\ longer \in Seq(TransitionRow) /\ Len(longer) = Len(past) + 1
      /\ longer[Len(past) + 1] = row
      /\ \A k \in 1 .. Len(past) : longer[k] = past[k]
      /\ Len(past) \in Nat
  OBVIOUS
<1>2. /\ i \in 0 .. Len(past)
      /\ i # 0 => EntersRepair(past[i])
      /\ \A k \in 1 .. Len(past) : EntersRepair(past[k]) => k <= i
  BY LatestRepairEntryIs
<1>3. /\ j \in 0 .. Len(longer)
      /\ j # 0 => EntersRepair(longer[j])
      /\ \A k \in 1 .. Len(longer) : EntersRepair(longer[k]) => k <= j
  BY <1>1, LatestRepairEntryIs
<1>. HIDE DEF longer, i, j
<1>4. CASE EntersRepair(row)
  BY <1>1, <1>3, <1>4 DEF j, longer
<1>5. CASE ~EntersRepair(row)
  <2>1. j # Len(past) + 1
    BY <1>1, <1>3, <1>5
  <2>2. j \in 0 .. Len(past)
    BY <1>1, <1>3, <2>1
  <2>3. j <= i
    BY <1>1, <1>2, <1>3, <2>2
  <2>4. i <= j
    BY <1>1, <1>2, <1>3, <2>2
  <2>. QED  BY <1>1, <1>2, <1>5, <2>2, <2>3, <2>4 DEF i, j, longer
<1>. QED  BY <1>4, <1>5

LEMMA LatestImplementationEntryAppend ==
    ASSUME NEW past \in Seq(TransitionRow), NEW row \in TransitionRow
    PROVE  LatestImplementationEntry(Append(past, row)) =
             IF EntersImplementation(row) THEN Len(past) + 1
             ELSE LatestImplementationEntry(past)
<1>. DEFINE longer == Append(past, row)
            i == LatestImplementationEntry(past)
            j == LatestImplementationEntry(longer)
<1>1. /\ longer \in Seq(TransitionRow) /\ Len(longer) = Len(past) + 1
      /\ longer[Len(past) + 1] = row
      /\ \A k \in 1 .. Len(past) : longer[k] = past[k]
      /\ Len(past) \in Nat
  OBVIOUS
<1>2. /\ i \in 0 .. Len(past)
      /\ i # 0 => EntersImplementation(past[i])
      /\ \A k \in 1 .. Len(past) : EntersImplementation(past[k]) => k <= i
  BY LatestImplementationEntryIs
<1>3. /\ j \in 0 .. Len(longer)
      /\ j # 0 => EntersImplementation(longer[j])
      /\ \A k \in 1 .. Len(longer) : EntersImplementation(longer[k]) => k <= j
  BY <1>1, LatestImplementationEntryIs
<1>. HIDE DEF longer, i, j
<1>4. CASE EntersImplementation(row)
  BY <1>1, <1>3, <1>4 DEF j, longer
<1>5. CASE ~EntersImplementation(row)
  <2>1. j # Len(past) + 1
    BY <1>1, <1>3, <1>5
  <2>2. j \in 0 .. Len(past)
    BY <1>1, <1>3, <2>1
  <2>3. j <= i
    BY <1>1, <1>2, <1>3, <2>2
  <2>4. i <= j
    BY <1>1, <1>2, <1>3, <2>2
  <2>. QED  BY <1>1, <1>2, <1>5, <2>2, <2>3, <2>4 DEF i, j, longer
<1>. QED  BY <1>4, <1>5
-----------------------------------------------------------------------------
\* The basis of a repair that a review opened: the newest snapshot imported in a
\* version before the entry.  Later imports carry later versions.

SnapshotBefore(stored, i) ==
    LET Authorized(receipt) == receipt.version < i
    IN  SelectLastInSeq(stored, Authorized)

LEMMA SnapshotBeforeIs ==
    ASSUME NEW stored \in Seq(ReviewReceipt), NEW i \in Nat
    PROVE  /\ SnapshotBefore(stored, i) \in 0 .. Len(stored)
           /\ SnapshotBefore(stored, i) # 0 => stored[SnapshotBefore(stored, i)].version < i
           /\ \A k \in 1 .. Len(stored) :
                 stored[k].version < i => k <= SnapshotBefore(stored, i)
<1>. DEFINE I == {k \in 1 .. Len(stored) : stored[k].version < i}
<1>1. SnapshotBefore(stored, i) = IF I # {} THEN Max(I) ELSE 0
  BY DEF SnapshotBefore, SelectLastInSeq
<1>2. Len(stored) \in Nat /\ I \subseteq 1 .. Len(stored)
  OBVIOUS
<1>3. I # {} => Max(I) \in I /\ \A k \in I : k <= Max(I)
  <2>. HIDE DEF I
  <2>. QED  BY <1>2, LargestOf
<1>4. CASE I # {}
  BY <1>1, <1>2, <1>3, <1>4
<1>5. CASE I = {}
  BY <1>1, <1>2, <1>5
<1>. QED  BY <1>4, <1>5

\* A snapshot of version i or later is never the one a repair entered as row i
\* rests on.
LEMMA SnapshotBeforeAppend ==
    ASSUME NEW stored \in Seq(ReviewReceipt), NEW i \in Nat,
           NEW receipt \in ReviewReceipt, receipt.version >= i
    PROVE  SnapshotBefore(Append(stored, receipt), i) = SnapshotBefore(stored, i)
<1>. DEFINE longer == Append(stored, receipt)
            s == SnapshotBefore(stored, i)
            t == SnapshotBefore(longer, i)
<1>1. /\ longer \in Seq(ReviewReceipt) /\ Len(longer) = Len(stored) + 1
      /\ longer[Len(stored) + 1] = receipt
      /\ \A k \in 1 .. Len(stored) : longer[k] = stored[k]
      /\ Len(stored) \in Nat
  OBVIOUS
<1>2. receipt.version \in Nat /\ ~(receipt.version < i)
  BY DEF ReviewReceipt
<1>3. /\ s \in 0 .. Len(stored)
      /\ s # 0 => stored[s].version < i
      /\ \A k \in 1 .. Len(stored) : stored[k].version < i => k <= s
  BY SnapshotBeforeIs
<1>4. /\ t \in 0 .. Len(longer)
      /\ t # 0 => longer[t].version < i
      /\ \A k \in 1 .. Len(longer) : longer[k].version < i => k <= t
  BY <1>1, SnapshotBeforeIs
<1>. HIDE DEF longer, s, t
<1>5. t \in 0 .. Len(stored)
  <2>1. t # Len(stored) + 1
    BY <1>1, <1>2, <1>4
  <2>. QED  BY <1>1, <1>4, <2>1
<1>6. t <= s
  BY <1>1, <1>3, <1>4, <1>5
<1>7. s <= t
  BY <1>1, <1>3, <1>4
<1>. QED  BY <1>1, <1>3, <1>5, <1>6, <1>7 DEF s, t, longer

\* When every stored snapshot is older than i, the newest one is the basis.
LEMMA SnapshotBeforeNewest ==
    ASSUME NEW stored \in Seq(ReviewReceipt), NEW i \in Nat,
           \A k \in 1 .. Len(stored) : stored[k].version < i
    PROVE  SnapshotBefore(stored, i) = Len(stored)
<1>. DEFINE s == SnapshotBefore(stored, i)
<1>1. /\ Len(stored) \in Nat
      /\ s \in 0 .. Len(stored)
      /\ \A k \in 1 .. Len(stored) : stored[k].version < i => k <= s
  <2>1. Len(stored) \in Nat
    OBVIOUS
  <2>2. s \in 0 .. Len(stored)
    BY SnapshotBeforeIs
  <2>3. \A k \in 1 .. Len(stored) : stored[k].version < i => k <= s
    BY SnapshotBeforeIs
  <2>. QED  BY <2>1, <2>2, <2>3
<1>. HIDE DEF s
<1>2. CASE Len(stored) = 0
  BY <1>1, <1>2 DEF s
<1>3. CASE Len(stored) # 0
  <2>1. Len(stored) \in 1 .. Len(stored)
    BY <1>1, <1>3
  <2>2. Len(stored) <= s
    BY <1>1, <2>1
  <2>. QED  BY <1>1, <2>2 DEF s
<1>. QED  BY <1>2, <1>3

\* No snapshot carries a version the session has not reached.
SnapshotsArePast ==
    \A k \in 1 .. Len(reviewReceipts) : reviewReceipts[k].version <= task.version

RepairInv ==
    /\ HistoryInv
    /\ EvidenceInv
    /\ SnapshotsArePast
    /\ ReviewRepairBasisStands

LEMMA RepairInit == Init => RepairInv
<1>. SUFFICES ASSUME Init PROVE RepairInv
  OBVIOUS
<1>1. HistoryInv /\ EvidenceInv
  BY HistoryInit, EvidenceInit
<1>2. SnapshotsArePast
  BY DEF Init, SnapshotsArePast
<1>3. LatestRepairEntry(history) = 0
  <2>1. history \in Seq(TransitionRow) /\ Len(history) = 0
    BY <1>1 DEF Init, HistoryInv, TypeOK
  <2>2. LatestRepairEntry(history) \in 0 .. Len(history)
    BY <2>1, LatestRepairEntryIs
  <2>. QED  BY <2>1, <2>2
<1>. QED  BY <1>1, <1>2, <1>3 DEF RepairInv, ReviewRepairBasisStands

\* A review that lets a repair in is the newest one, imported in a version
\* before the row it opens.
LEMMA RepairEntryBasis ==
    ASSUME RepairInv, NEW c \in Clients, ApplyTransition(c), EntersRepair(AppliedRow),
           AppliedRow.from # "verifying"
    PROVE  /\ reviewReceipts # <<>>
           /\ SnapshotBefore(reviewReceipts, Len(history) + 1) = Len(reviewReceipts)
           /\ reviewReceipts[Len(reviewReceipts)].head = AppliedRow.head
<1>. DEFINE ctx == client[c].ctx
            target == client[c].request.target
<1>1. /\ AppliedRow.from = task.status /\ AppliedRow.to = target /\ AppliedRow.head = ctx.head
      /\ task.status \in {"reviewing", "ready_for_human"} /\ target = "repairing"
  BY AppliedRowIs
     DEF EntersRepair, IsRepairEntryTransition, RepairEntryStates, RepairInv, EvidenceInv
<1>2. /\ EvaluateLifecycleTransition(task.status, target, task.blockedFrom,
                                     LifecyclePhase(history))
      /\ EvaluateTransitionGuards(task.status, target, client[c].request.input,
                                  task.blockedFrom, ctx)
  BY DEF ApplyTransition, StructurallyAllowed, GuardsAllow
<1>3. ctx.review.status = "current"
  BY <1>1, <1>2, GuardsNeed DEF States
<1>4. NewestSnapshotIs(ctx.head, ctx.review)
  BY <1>3, AppliedOnEvidence DEF EvidenceHolds, RepairInv
<1>5. /\ reviewReceipts \in Seq(ReviewReceipt)
      /\ history \in Seq(TransitionRow)
      /\ Len(history) \in Nat
      /\ Len(history) = task.version
  BY DEF RepairInv, HistoryInv, TypeOK, HistoryIsAuthoritative
<1>6. \A k \in 1 .. Len(reviewReceipts) : reviewReceipts[k].version < Len(history) + 1
  <2>1. ASSUME NEW k \in 1 .. Len(reviewReceipts)
        PROVE  reviewReceipts[k].version \in Nat
    <3>1. reviewReceipts[k] \in ReviewReceipt
      BY <1>5
    <3>. QED  BY <3>1 DEF ReviewReceipt
  <2>. QED  BY <1>5, <2>1 DEF RepairInv, SnapshotsArePast
<1>7. SnapshotBefore(reviewReceipts, Len(history) + 1) = Len(reviewReceipts)
  BY <1>5, <1>6, SnapshotBeforeNewest
<1>. QED  BY <1>1, <1>4, <1>7 DEF NewestSnapshotIs

LEMMA RepairApply ==
    ASSUME RepairInv, NEW c \in Clients, ApplyTransition(c)
    PROVE  SnapshotsArePast' /\ ReviewRepairBasisStands'
<1>1. /\ history' = Append(history, AppliedRow) /\ AppliedRow \in TransitionRow
      /\ history \in Seq(TransitionRow)
      /\ reviewReceipts \in Seq(ReviewReceipt)
      /\ UNCHANGED reviewReceipts
      /\ task.version \in Nat
      /\ task'.version = task.version + 1
  BY AppliedRowIs
     DEF RepairInv, EvidenceInv, TypeOK, ApplyTransition, receipts, NextTask
<1>2. SnapshotsArePast'
  <2>1. ASSUME NEW k \in 1 .. Len(reviewReceipts)
        PROVE  reviewReceipts[k].version \in Nat
    <3>1. reviewReceipts[k] \in ReviewReceipt
      BY <1>1
    <3>. QED  BY <3>1 DEF ReviewReceipt
  <2>. QED  BY <1>1, <2>1 DEF SnapshotsArePast, RepairInv
<1>. DEFINE i == LatestRepairEntry(history)
            n == Len(history) + 1
<1>3. /\ history'[n] = AppliedRow
      /\ \A k \in 1 .. Len(history) : history'[k] = history[k]
      /\ Len(history) \in Nat
  BY <1>1
<1>4. LatestRepairEntry(history') = IF EntersRepair(AppliedRow) THEN n ELSE i
  BY <1>1, LatestRepairEntryAppend
<1>5. CASE EntersRepair(AppliedRow)
  <2>1. LatestRepairEntry(history') = n /\ history'[n] = AppliedRow
    BY <1>3, <1>4, <1>5
  <2>2. ASSUME AppliedRow.from # "verifying"
        PROVE  RepairBasis(history)' = AppliedRow.head
    <3>1. /\ reviewReceipts # <<>>
          /\ SnapshotBefore(reviewReceipts, n) = Len(reviewReceipts)
          /\ reviewReceipts[Len(reviewReceipts)].head = AppliedRow.head
      BY <1>5, <2>2, RepairEntryBasis
    <3>2. SnapshotBefore(reviewReceipts', n) # 0
      BY <1>1, <3>1
    <3>3. RepairBasis(history)' = reviewReceipts'[SnapshotBefore(reviewReceipts', n)].head
      BY <1>3, <2>1, <2>2, <3>2 DEF RepairBasis, SnapshotBefore, SelectLastInSeq
    <3>. QED  BY <1>1, <3>1, <3>3
  <2>. QED  BY <1>2, <2>1, <2>2 DEF ReviewRepairBasisStands
<1>6. CASE ~EntersRepair(AppliedRow)
  <2>1. LatestRepairEntry(history') = i
    BY <1>4, <1>6
  <2>2. i \in 0 .. Len(history)
    BY <1>1, LatestRepairEntryIs
  <2>3. i # 0 => history'[i] = history[i]
    BY <1>3, <2>2
  <2>4. ASSUME i # 0, history[i].from # "verifying"
        PROVE  RepairBasis(history)' = RepairBasis(history)
    BY <1>1, <2>1, <2>3, <2>4 DEF RepairBasis, SelectLastInSeq
  <2>. QED  BY <1>2, <2>1, <2>3, <2>4 DEF ReviewRepairBasisStands, RepairInv
<1>. QED  BY <1>5, <1>6

\* A snapshot imported later carries the version of the session, which the entry
\* of the open repair precedes.
LEMMA RepairImport ==
    ASSUME RepairInv, ImportReviewReceipt
    PROVE  SnapshotsArePast' /\ ReviewRepairBasisStands'
<1>1. TypeOK /\ TypeOK'
  BY TypeNext DEF RepairInv, HistoryInv, Next, Environment
<1>2. PICK receipt :
        /\ receipt.version = task.version
        /\ reviewReceipts' = Append(reviewReceipts, receipt)
  BY DEF ImportReviewReceipt
<1>3. /\ reviewReceipts \in Seq(ReviewReceipt) /\ reviewReceipts' \in Seq(ReviewReceipt)
      /\ task.version \in Nat /\ history \in Seq(TransitionRow)
      /\ Len(history) = task.version
      /\ UNCHANGED <<task, history>>
  BY <1>1 DEF TypeOK, ImportReviewReceipt, RepairInv, HistoryInv, HistoryIsAuthoritative
<1>4. /\ Len(reviewReceipts) \in Nat
      /\ Len(reviewReceipts') = Len(reviewReceipts) + 1
      /\ reviewReceipts'[Len(reviewReceipts) + 1] = receipt
      /\ \A k \in 1 .. Len(reviewReceipts) : reviewReceipts'[k] = reviewReceipts[k]
  BY <1>2, <1>3
<1>5. receipt \in ReviewReceipt
  BY <1>3, <1>4
<1>6. SnapshotsArePast'
  BY <1>2, <1>3, <1>4 DEF SnapshotsArePast, RepairInv
<1>. DEFINE i == LatestRepairEntry(history)
            s == SnapshotBefore(reviewReceipts, i)
<1>7. i \in 0 .. Len(history)
  BY <1>3, LatestRepairEntryIs
<1>8. SnapshotBefore(reviewReceipts', i) = s
  BY <1>2, <1>3, <1>5, <1>7, SnapshotBeforeAppend
<1>9. s # 0 => reviewReceipts'[s] = reviewReceipts[s]
  <2>1. s \in 0 .. Len(reviewReceipts)
    BY <1>3, <1>7, SnapshotBeforeIs
  <2>. QED  BY <1>4, <2>1
<1>10. ASSUME i # 0, history[i].from # "verifying"
       PROVE  RepairBasis(history)' = RepairBasis(history)
  <2>. HIDE DEF i, s
  <2>1. RepairBasis(history) = IF s = 0 THEN NoCommit ELSE reviewReceipts[s].head
    BY <1>10 DEF RepairBasis, SnapshotBefore, SelectLastInSeq, i, s
  <2>2. RepairBasis(history)' = IF SnapshotBefore(reviewReceipts', i) = 0 THEN NoCommit
                                ELSE reviewReceipts'[SnapshotBefore(reviewReceipts', i)].head
    BY <1>3, <1>10 DEF RepairBasis, SnapshotBefore, SelectLastInSeq, i
  <2>. QED  BY <1>8, <1>9, <2>1, <2>2
<1>11. LatestRepairEntry(history)' = i
  BY <1>3
<1>. QED  BY <1>3, <1>6, <1>10, <1>11 DEF ReviewRepairBasisStands, RepairInv

LEMMA RepairNext == RepairInv /\ [Next]_vars => RepairInv'
<1>. SUFFICES ASSUME RepairInv, [Next]_vars PROVE RepairInv'
  OBVIOUS
<1>1. HistoryInv' /\ EvidenceInv'
  BY HistoryNext, EvidenceNext DEF RepairInv
<1>2. ASSUME UNCHANGED <<task, history, reviewReceipts>>
      PROVE  SnapshotsArePast' /\ ReviewRepairBasisStands'
  <2>1. LatestRepairEntry(history)' = LatestRepairEntry(history)
    BY <1>2
  <2>2. LatestRepairEntry(history) # 0 /\ history[LatestRepairEntry(history)].from # "verifying"
          => RepairBasis(history)' = RepairBasis(history)
    BY <1>2, <2>1 DEF RepairBasis, SelectLastInSeq
  <2>. QED
    BY <1>2, <2>1, <2>2 DEF RepairInv, SnapshotsArePast, ReviewRepairBasisStands
<1>3. CASE \E c \in Clients : ApplyTransition(c)
  BY <1>1, <1>3, RepairApply DEF RepairInv
<1>4. CASE ImportReviewReceipt
  BY <1>1, <1>4, RepairImport DEF RepairInv
<1>5. CASE ~(\E c \in Clients : ApplyTransition(c)) /\ ~ImportReviewReceipt
  <2>1. UNCHANGED <<task, history, reviewReceipts>>
    BY <1>5
       DEF Next, Begin, Gather, PreparePlan, ReadWatermark, ReadEvidence, Decide, Replay,
           RecordConflict, RejectTransition, ReportEvidenceChanged, Retry, Abandon, Environment,
           RecordGateReceipt, ImportGateReceipt, LoseArtifact, database, receipts, vars
  <2>. QED  BY <1>1, <1>2, <2>1 DEF RepairInv
<1>. QED  BY <1>3, <1>4, <1>5

\* A repair opened by review keeps the commit it started from, whatever is
\* imported meanwhile: the promise of session-service.ts:1597.
THEOREM RepairBasisKept == Spec => []ReviewRepairBasisStands
<1>1. RepairInv => ReviewRepairBasisStands
  BY DEF RepairInv
<1>. QED  BY <1>1, RepairInit, RepairNext, PTL DEF Spec
-----------------------------------------------------------------------------
\* Verifying again only past what was reviewed.  A client evaluates HEAD against
\* the history it read first; when its version still matches at the commit, that
\* was the whole history, unless it named a version not reached when it read.

\* The head advances from the commit that the open episode of each kind answers.
PastRepair(head) ==
    LET i == LatestRepairEntry(history)
    IN  (i # 0 /\ history[i].from # "verifying") => <<history[i].head, head>> \in Descends

PastReview(head) ==
    LET i == LatestImplementationEntry(history)
    IN  (i # 0 /\ history[i].review # NoCommit) => <<history[i].head, head>> \in Descends

\* A row that names a reviewed commit names the HEAD its guards saw.
RowsNameTheirHead ==
    \A i \in 1 .. Len(history) :
        history[i].review # NoCommit => history[i].review = history[i].head

\* What a client read first reaches the version its request expects.
HasSeen(c) ==
    /\ client[c].seen \in Nat
    /\ client[c].seen <= task.version
    /\ client[c].pc \in {"watermark", "evidence"} => client[c].request.expected <= client[c].seen

BasisIsCurrent(c) ==
    client[c].pc = "apply" /\ client[c].request.expected = task.version =>
        /\ client[c].ctx.repaired => PastRepair(client[c].ctx.head)
        /\ client[c].ctx.advanced => PastReview(client[c].ctx.head)

AdvanceInv ==
    /\ RepairInv
    /\ BudgetInv
    /\ RowsNameTheirHead
    /\ \A c \in Clients : HasSeen(c) /\ BasisIsCurrent(c)

LEMMA AdvanceInit ==
    ASSUME Foresight = 0
    PROVE  Init => AdvanceInv
<1>. SUFFICES ASSUME Init PROVE AdvanceInv
  OBVIOUS
<1>1. RepairInv /\ BudgetInv
  BY RepairInit, BudgetInit
<1>2. RowsNameTheirHead
  BY DEF Init, RowsNameTheirHead
<1>3. ASSUME NEW c \in Clients PROVE HasSeen(c) /\ BasisIsCurrent(c)
  BY DEF Init, HasSeen, BasisIsCurrent, IdleClient
<1>. QED  BY <1>1, <1>2, <1>3 DEF AdvanceInv

\* A step that moves one client and leaves task and history alone.
LEMMA AdvanceClientStep ==
    ASSUME AdvanceInv, RepairInv', BudgetInv', NEW c \in Clients,
           UNCHANGED <<task, history>>,
           \A d \in Clients \ {c} : client'[d] = client[d],
           HasSeen(c)', BasisIsCurrent(c)'
    PROVE  AdvanceInv'
<1>1. RowsNameTheirHead'
  BY DEF AdvanceInv, RowsNameTheirHead
<1>2. ASSUME NEW d \in Clients \ {c} PROVE HasSeen(d)' /\ BasisIsCurrent(d)'
  <2>1. client'[d] = client[d] /\ HasSeen(d) /\ BasisIsCurrent(d)
    BY DEF AdvanceInv
  <2>. QED  BY <2>1 DEF HasSeen, BasisIsCurrent, PastRepair, PastReview
<1>. QED  BY <1>1, <1>2 DEF AdvanceInv

\* Evaluated against the whole history, repaired and advanced say that HEAD is
\* past the reviewed commit.
LEMMA BasisRead ==
    ASSUME AdvanceInv, NEW observed
    PROVE  LET ctx == ProofGuardContext(observed, history)
           IN  /\ ctx.repaired => PastRepair(ctx.head)
               /\ ctx.advanced => PastReview(ctx.head)
<1>. DEFINE head == observed.head
            evidence == LocalEvidence(head)
            ctx == ProofGuardContext(observed, history)
<1>1. /\ ctx.head = head
      /\ ctx.repaired = (<<RepairBasis(history), head>> \in Descends)
      /\ ctx.advanced = (<<ImplementationBasis(history, evidence), head>> \in Descends)
  BY DEF ProofGuardContext
<1>2. ctx.repaired => PastRepair(head)
  BY <1>1 DEF PastRepair, AdvanceInv, RepairInv, ReviewRepairBasisStands
<1>3. ctx.advanced => PastReview(head)
  <2>. DEFINE i == LatestImplementationEntry(history)
  <2>1. history \in Seq(TransitionRow)
    BY DEF AdvanceInv, BudgetInv, TypeOK
  <2>2. i \in 0 .. Len(history)
    BY <2>1, LatestImplementationEntryIs
  <2>3. i # 0 /\ history[i].review # NoCommit => history[i].review = history[i].head
    BY <2>2 DEF AdvanceInv, RowsNameTheirHead
  <2>4. i # 0 /\ history[i].review # NoCommit
          => ImplementationBasis(history, evidence) = history[i].review
    BY DEF ImplementationBasis
  <2>. QED  BY <1>1, <2>3, <2>4 DEF PastReview
<1>. QED  BY <1>1, <1>2, <1>3

\* A transition that appends a row outdates every request in flight.
LEMMA AdvanceApply ==
    ASSUME AdvanceInv, RepairInv', BudgetInv', NEW c \in Clients, ApplyTransition(c)
    PROVE  AdvanceInv'
<1>. DEFINE request == client[c].request
            ctx == client[c].ctx
<1>1. /\ history' = Append(history, AppliedRow) /\ AppliedRow \in TransitionRow
      /\ AppliedRow.head = ctx.head
      /\ AppliedRow.review = IF SuppliesPrePrReview(request.input) THEN request.input.head
                             ELSE NoCommit
      /\ history \in Seq(TransitionRow)
      /\ task.version \in Nat
      /\ task'.version = task.version + 1
      /\ client \in [Clients -> ClientState]
      /\ Answer(c)
  BY AppliedRowIs DEF AdvanceInv, BudgetInv, TypeOK, ApplyTransition, NextTask
<1>2. SuppliesPrePrReview(request.input) => request.input.head = ctx.head
  BY DEF ApplyTransition, GuardsAllow, EvaluateTransitionGuards, ValidateTransitionEvidence
<1>3. AppliedRow.review # NoCommit => AppliedRow.review = AppliedRow.head
  BY <1>1, <1>2
<1>4. RowsNameTheirHead'
  <2>1. /\ Len(history') = Len(history) + 1 /\ Len(history) \in Nat
        /\ history'[Len(history) + 1] = AppliedRow
        /\ \A k \in 1 .. Len(history) : history'[k] = history[k]
    BY <1>1
  <2>2. ASSUME NEW k \in 1 .. Len(history')
        PROVE  history'[k].review # NoCommit => history'[k].review = history'[k].head
    <3>1. CASE k = Len(history) + 1
      BY <1>3, <2>1, <3>1
    <3>2. CASE k \in 1 .. Len(history)
      BY <2>1, <3>2 DEF AdvanceInv, RowsNameTheirHead
    <3>. QED  BY <2>1, <3>1, <3>2
  <2>. QED  BY <2>2 DEF RowsNameTheirHead
<1>5. ASSUME NEW d \in Clients PROVE HasSeen(d)' /\ BasisIsCurrent(d)'
  <2>1. client'[d] = IF d = c THEN IdleClient ELSE client[d]
    BY <1>1 DEF Answer
  <2>2. CASE d = c
    BY <1>1, <2>1, <2>2 DEF HasSeen, BasisIsCurrent, IdleClient
  <2>3. CASE d # c
    <3>1. HasSeen(d) /\ client[d].request.expected <= task.version
      BY DEF AdvanceInv, BudgetInv, NoneAhead
    <3>2. client[d].request.expected \in Nat
      BY <1>1 DEF ClientState, Request
    <3>3. client[d].request.expected # task'.version
      BY <1>1, <3>1, <3>2
    <3>4. HasSeen(d)'
      BY <1>1, <2>1, <2>3, <3>1 DEF HasSeen
    <3>. QED  BY <2>1, <2>3, <3>3, <3>4 DEF BasisIsCurrent
  <2>. QED  BY <2>2, <2>3
<1>. QED  BY <1>4, <1>5 DEF AdvanceInv

LEMMA AdvanceNext ==
    ASSUME Foresight = 0
    PROVE  AdvanceInv /\ [Next]_vars => AdvanceInv'
<1>. SUFFICES ASSUME AdvanceInv, [Next]_vars PROVE AdvanceInv'
  OBVIOUS
<1>1. RepairInv' /\ BudgetInv'
  BY RepairNext, BudgetNext DEF AdvanceInv
<1>2. /\ client \in [Clients -> ClientState]
      /\ task.version \in Nat
      /\ history \in Seq(TransitionRow)
      /\ Len(history) = task.version
  BY DEF AdvanceInv, RepairInv, HistoryInv, TypeOK, HistoryIsAuthoritative
<1>3. ASSUME NEW c \in Clients, NEW moved, client' = [client EXCEPT ![c] = moved],
             UNCHANGED <<task, history>>,
             moved.seen \in Nat, moved.seen <= task.version,
             moved.pc \in {"watermark", "evidence"} => moved.request.expected <= moved.seen,
             moved.pc = "apply" => ~moved.ctx.repaired /\ ~moved.ctx.advanced
      PROVE  AdvanceInv'
  <2>1. /\ client'[c] = moved
        /\ \A d \in Clients \ {c} : client'[d] = client[d]
    BY <1>2, <1>3
  <2>2. HasSeen(c)' /\ BasisIsCurrent(c)'
    BY <1>3, <2>1 DEF HasSeen, BasisIsCurrent
  <2>. QED  BY <1>1, <1>3, <2>1, <2>2, AdvanceClientStep
<1>4. ASSUME NEW c \in Clients, Answer(c), UNCHANGED <<task, history>> PROVE AdvanceInv'
  <2>1. /\ IdleClient.seen \in Nat /\ IdleClient.seen <= task.version
        /\ IdleClient.pc \notin {"watermark", "evidence"} /\ IdleClient.pc # "apply"
    BY <1>2 DEF IdleClient
  <2>2. client' = [client EXCEPT ![c] = IdleClient]
    BY <1>4 DEF Answer
  <2>. QED  BY <1>3, <1>4, <2>1, <2>2
<1>5. ASSUME NEW c \in Clients, NEW request, request.expected <= task.version,
             client' = [client EXCEPT ![c] = ReadLifecycle(request)],
             UNCHANGED <<task, history>>
      PROVE  AdvanceInv'
  <2>. DEFINE started == ReadLifecycle(request)
  <2>1. /\ started.seen \in Nat /\ started.seen <= task.version
        /\ started.request.expected <= started.seen
        /\ ~started.ctx.repaired /\ ~started.ctx.advanced
    BY <1>2, <1>5 DEF ReadLifecycle, EmptyContext
  <2>. HIDE DEF started
  <2>2. client' = [client EXCEPT ![c] = started]
    BY <1>5 DEF started
  <2>. QED  BY <1>3, <1>5, <2>1, <2>2
<1>6. ASSUME NEW c \in Clients, Begin(c) PROVE AdvanceInv'
  <2>1. PICK request :
          /\ request.expected <= task.version
          /\ client' = [client EXCEPT ![c] = ReadLifecycle(request)]
    <3>1. PICK ask \in Requests, key \in AllKeys :
            \E expected \in ExpectedVersions(key) :
               client' = [client EXCEPT ![c] =
                  ReadLifecycle([target |-> ask.target, input |-> ask.input,
                                 expected |-> expected, key |-> key])]
      BY <1>6 DEF Begin
    <3>2. PICK expected \in ExpectedVersions(key) :
            client' = [client EXCEPT ![c] =
               ReadLifecycle([target |-> ask.target, input |-> ask.input,
                              expected |-> expected, key |-> key])]
      BY <3>1
    <3>3. expected <= task.version
      BY <1>2 DEF ExpectedVersions
    <3>. QED  BY <3>2, <3>3
  <2>. QED  BY <1>5, <1>6, <2>1 DEF Begin, database
<1>7. ASSUME NEW c \in Clients, Retry(c) PROVE AdvanceInv'
  <2>1. client[c].request.expected <= task.version
    BY DEF AdvanceInv, BudgetInv, NoneAhead
  <2>. QED  BY <1>5, <1>7, <2>1 DEF Retry, database
<1>8. ASSUME NEW c \in Clients, PreparePlan(c) PROVE AdvanceInv'
  <2>1. /\ client'[c].pc = "apply" /\ client'[c].seen = client[c].seen
        /\ ~client'[c].ctx.repaired /\ ~client'[c].ctx.advanced
        /\ \A d \in Clients \ {c} : client'[d] = client[d]
    BY <1>2, <1>8 DEF PreparePlan, ClientState, EmptyContext
  <2>2. UNCHANGED <<task, history>> /\ HasSeen(c)
    BY <1>8 DEF PreparePlan, database, AdvanceInv
  <2>. QED
    BY <1>1, <2>1, <2>2, AdvanceClientStep DEF HasSeen, BasisIsCurrent
<1>9. ASSUME NEW c \in Clients, ReadWatermark(c) PROVE AdvanceInv'
  <2>1. /\ client'[c].pc = "evidence" /\ client'[c].seen = client[c].seen
        /\ client'[c].request = client[c].request
        /\ \A d \in Clients \ {c} : client'[d] = client[d]
    BY <1>2, <1>9 DEF ReadWatermark, ClientState
  <2>2. UNCHANGED <<task, history>> /\ HasSeen(c) /\ client[c].pc = "watermark"
    BY <1>9 DEF ReadWatermark, database, AdvanceInv
  <2>. QED
    BY <1>1, <2>1, <2>2, AdvanceClientStep DEF HasSeen, BasisIsCurrent
<1>10. ASSUME NEW c \in Clients, ReadEvidence(c) PROVE AdvanceInv'
  <2>1. PICK observed \in Observations :
          client' = [client EXCEPT
             ![c].pc = "apply",
             ![c].ctx = ProofGuardContext(observed, SubSeq(history, 1, client[c].seen))]
    BY <1>10 DEF ReadEvidence
  <2>. DEFINE read == ProofGuardContext(observed, SubSeq(history, 1, client[c].seen))
  <2>2. UNCHANGED <<task, history>> /\ HasSeen(c) /\ client[c].pc = "evidence"
    BY <1>10 DEF ReadEvidence, database, AdvanceInv
  <2>3. ASSUME client[c].request.expected = task.version
        PROVE  read = ProofGuardContext(observed, history)
    <3>1. client[c].seen = Len(history)
      BY <1>2, <2>2, <2>3 DEF HasSeen
    <3>. QED  BY <1>2, <3>1, SubSeqFull
  <2>4. client[c].request.expected = task.version
          => /\ read.repaired => PastRepair(read.head)
             /\ read.advanced => PastReview(read.head)
    <3>. HIDE DEF read
    <3>. QED  BY <2>3, BasisRead
  <2>. HIDE DEF read
  <2>5. /\ client'[c].pc = "apply" /\ client'[c].ctx = read /\ client'[c].seen = client[c].seen
        /\ client'[c].request = client[c].request
        /\ \A d \in Clients \ {c} : client'[d] = client[d]
    BY <1>2, <2>1 DEF read, ClientState
  <2>6. HasSeen(c)'
    BY <2>2, <2>5 DEF HasSeen
  <2>7. BasisIsCurrent(c)'
    BY <2>2, <2>4, <2>5 DEF BasisIsCurrent, PastRepair, PastReview
  <2>. QED  BY <1>1, <2>2, <2>5, <2>6, <2>7, AdvanceClientStep
<1>11. ASSUME NEW c \in Clients,
              Abandon(c) \/ Replay(c) \/ RecordConflict(c) \/ RejectTransition(c)
       PROVE  AdvanceInv'
  BY <1>4, <1>11 DEF Abandon, Replay, RecordConflict, RejectTransition, Answer, database
<1>12. ASSUME NEW c \in Clients, ReportEvidenceChanged(c) PROVE AdvanceInv'
  <2>. DEFINE moved == [IdleClient EXCEPT !.pc = "busy", !.request = client[c].request]
  <2>1. /\ moved.seen \in Nat /\ moved.seen <= task.version
        /\ moved.pc \notin {"watermark", "evidence"} /\ moved.pc # "apply"
    BY <1>2 DEF IdleClient
  <2>. HIDE DEF moved
  <2>2. client' = [client EXCEPT ![c] = moved] /\ UNCHANGED <<task, history>>
    BY <1>12 DEF ReportEvidenceChanged, moved, database
  <2>. QED  BY <1>3, <2>1, <2>2
<1>13. ASSUME NEW c \in Clients, ApplyTransition(c) PROVE AdvanceInv'
  BY <1>1, <1>13, AdvanceApply
<1>14. ASSUME UNCHANGED <<task, history, client>> PROVE AdvanceInv'
  <2>1. RowsNameTheirHead'
    BY <1>14 DEF AdvanceInv, RowsNameTheirHead
  <2>2. ASSUME NEW d \in Clients PROVE HasSeen(d)' /\ BasisIsCurrent(d)'
    <3>1. HasSeen(d) /\ BasisIsCurrent(d)
      BY DEF AdvanceInv
    <3>. QED  BY <1>14, <3>1 DEF HasSeen, BasisIsCurrent, PastRepair, PastReview
  <2>. QED  BY <1>1, <2>1, <2>2 DEF AdvanceInv
<1>15. CASE Environment \/ UNCHANGED vars
  BY <1>14, <1>15
     DEF Environment, RecordGateReceipt, ImportGateReceipt, ImportReviewReceipt, LoseArtifact,
         database, vars
<1>. QED
  BY <1>6, <1>7, <1>8, <1>9, <1>10, <1>11, <1>12, <1>13, <1>15 DEF Next, Gather, Decide

LEMMA AdvanceStep ==
    AdvanceInv /\ [Next]_vars => AdvancesFromRepair /\ AdvancesFromReview
<1>. SUFFICES ASSUME AdvanceInv, [Next]_vars, Applied
              PROVE  AdvancesFromRepair /\ AdvancesFromReview
  BY DEF AdvancesFromRepair, AdvancesFromReview
<1>1. PICK c \in Clients : ApplyTransition(c)
  BY OnlyApplyExtends
<1>. DEFINE source == task.status
            target == client[c].request.target
            ctx == client[c].ctx
<1>2. /\ AppliedRow.from = source /\ AppliedRow.to = target /\ AppliedRow.head = ctx.head
      /\ source \in States /\ target \in States
      /\ client[c].request.expected = task.version
  BY <1>1, AppliedRowIs DEF AdvanceInv, BudgetInv
<1>3. /\ EvaluateLifecycleTransition(source, target, task.blockedFrom, LifecyclePhase(history))
      /\ EvaluateTransitionGuards(source, target, client[c].request.input,
                                  task.blockedFrom, ctx)
      /\ client[c].pc = "apply"
  BY <1>1 DEF ApplyTransition, StructurallyAllowed, GuardsAllow, CanApply
<1>4. BasisIsCurrent(c)
  BY DEF AdvanceInv
<1>5. ASSUME source = "repairing", target = "verifying" PROVE PastRepair(ctx.head)
  <2>1. ctx.repaired
    BY <1>2, <1>3, <1>5, GuardsNeed
  <2>. QED  BY <1>2, <1>3, <1>4, <2>1 DEF BasisIsCurrent
<1>6. ASSUME source = "implementing", target = "verifying" PROVE PastReview(ctx.head)
  <2>1. ctx.advanced
    BY <1>2, <1>3, <1>6, GuardsNeed
  <2>. QED  BY <1>2, <1>3, <1>4, <2>1 DEF BasisIsCurrent
<1>. QED
  BY <1>2, <1>5, <1>6 DEF AdvancesFromRepair, AdvancesFromReview, PastRepair, PastReview

\* When no request names a version the session has not reached, a repair that a
\* review opened is verified again only on a committed change after the HEAD the
\* review blocked, whichever client, history or repository is read in between.
THEOREM RepairsAdvance ==
    ASSUME Foresight = 0
    PROVE  Spec => ReviewedRepairAdvances
<1>1. AdvanceInv /\ [Next]_vars => AdvancesFromRepair
  BY AdvanceStep
<1>. QED  BY <1>1, AdvanceInit, AdvanceNext, PTL DEF Spec, ReviewedRepairAdvances

\* Under the same hypothesis, implementation that a pre-PR review sent back is
\* verified again only on a committed change after the reviewed commit.
THEOREM ImplementationAdvances ==
    ASSUME Foresight = 0
    PROVE  Spec => ReviewedImplementationAdvances
<1>1. AdvanceInv /\ [Next]_vars => AdvancesFromReview
  BY AdvanceStep
<1>. QED  BY <1>1, AdvanceInit, AdvanceNext, PTL DEF Spec, ReviewedImplementationAdvances
-----------------------------------------------------------------------------
\* The controller implements GovernedLifecycle.  The phase is for good, and a
\* client's phase, derived from a prefix of the history, never runs ahead of it.

\* The states of work before the pull request.
BeforePr == {"queued", "framed", "proof_ready", "implementing", "pre_pr_reviewing"}

Opened == LifecyclePhase(history) = "post_pr"

PhaseFits == Opened => {task.status, task.blockedFrom} \cap BeforePr = {}

PhaseIsPast(c) == client[c].pc = "apply" /\ client[c].ctx.phase = "post_pr" => Opened

GovernedInv ==
    /\ AdvanceInv
    /\ PhaseFits
    /\ \A c \in Clients : PhaseIsPast(c)

\* A session has opened its pull request once some state it was in says so.
LEMMA PhaseIs ==
    ASSUME NEW past
    PROVE  /\ LifecyclePhase(past) = "post_pr" <=>
                genesis \in PostPrStates \/ \E i \in DOMAIN past : past[i].to \in PostPrStates
           /\ LifecyclePhase(past) \in {"pre_pr", "post_pr"}
BY DEF LifecyclePhase, DeriveLifecyclePhase, Visited

\* The phase of a prefix never runs ahead of the phase of the history.
LEMMA PhaseOfPrefix ==
    ASSUME GovernedInv, NEW n \in Nat, n <= task.version,
           LifecyclePhase(SubSeq(history, 1, n)) = "post_pr"
    PROVE  Opened
<1>1. /\ history \in Seq(TransitionRow)
      /\ Len(history) = task.version
  BY DEF GovernedInv, AdvanceInv, RepairInv, HistoryInv, TypeOK, HistoryIsAuthoritative
<1>2. /\ DOMAIN SubSeq(history, 1, n) = 1 .. n
      /\ \A i \in 1 .. n : SubSeq(history, 1, n)[i] = history[i]
      /\ 1 .. n \subseteq DOMAIN history
  BY <1>1
<1>. QED  BY <1>2, PhaseIs DEF Opened

\* The state the session is in, and the one it was blocked from, have been visited.
LEMMA StatusIsVisited ==
    ASSUME HistoryInv, task.status \in PostPrStates \/ task.blockedFrom \in PostPrStates
    PROVE  Opened
<1>1. /\ history \in Seq(TransitionRow)
      /\ Len(history) \in Nat
      /\ DOMAIN history = 1 .. Len(history)
  BY DEF HistoryInv, TypeOK
<1>2. CASE history = <<>>
  <2>1. task.status = genesis /\ genesis # "blocked"
    BY <1>2, ConstantsAssumption DEF HistoryInv, HistoryIsAuthoritative, TypeOK
  <2>2. task.blockedFrom = NotBlocked /\ NotBlocked \notin PostPrStates
    BY <2>1 DEF HistoryInv, HistoryIsAuthoritative, NotBlocked, PostPrStates
  <2>. QED  BY <2>1, <2>2, PhaseIs DEF Opened
<1>3. CASE history # <<>>
  <2>1. Len(history) \in DOMAIN history
    BY <1>1, <1>3
  <2>2. task.status = history[Len(history)].to
    BY <1>3 DEF HistoryInv, HistoryIsAuthoritative
  <2>3. CASE task.status \in PostPrStates
    BY <2>1, <2>2, <2>3, PhaseIs DEF Opened
  <2>4. CASE task.blockedFrom \in PostPrStates
    <3>1. NotBlocked \notin PostPrStates
      BY DEF NotBlocked, PostPrStates
    <3>2. history[Len(history)].from \in PostPrStates
      BY <2>4, <3>1 DEF HistoryInv, HistoryIsAuthoritative
    <3>3. CASE Len(history) = 1
      <4>1. history[Len(history)].from = genesis
        BY <2>1, <3>3 DEF HistoryInv, HistoryIsAuthoritative
      <4>. QED  BY <3>2, <4>1, PhaseIs DEF Opened
    <3>4. CASE Len(history) # 1
      <4>1. Len(history) - 1 \in DOMAIN history
        BY <1>1, <2>1, <3>4
      <4>2. history[Len(history)].from = history[Len(history) - 1].to
        BY <2>1, <3>4 DEF HistoryInv, HistoryIsAuthoritative
      <4>. QED  BY <3>2, <4>1, <4>2, PhaseIs DEF Opened
    <3>. QED  BY <3>3, <3>4
  <2>. QED  BY <2>3, <2>4
<1>. QED  BY <1>2, <1>3

\* What an applied transition does to the variables of GovernedLifecycle.
LEMMA AppliedSteps ==
    ASSUME GovernedInv, NEW c \in Clients, ApplyTransition(c)
    PROVE  LET source == task.status
               target == client[c].request.target
               ctx == client[c].ctx
           IN  /\ source \in States /\ target \in States
               /\ EvaluateLifecycleTransition(source, target, task.blockedFrom,
                                              LifecyclePhase(history))
               /\ task'.status = target
               /\ task'.blockedFrom = IF target = "blocked" THEN source ELSE NotBlocked
               /\ Opened' <=> Opened \/ target \in PostPrStates
               /\ AttemptsUsed' = AttemptsUsed
                    + (IF IsRepairEntryTransition(source, target) THEN 1 ELSE 0)
               /\ IsRepairEntryTransition(source, target) => AttemptsUsed < RepairBudget
               /\ source = "verifying" /\ target = "repairing" => Opened
<1>. DEFINE source == task.status
            target == client[c].request.target
            ctx == client[c].ctx
<1>1. /\ history' = Append(history, AppliedRow) /\ AppliedRow \in TransitionRow
      /\ AppliedRow.from = source /\ AppliedRow.to = target
      /\ source \in States /\ target \in States
      /\ history \in Seq(TransitionRow)
      /\ genesis' = genesis
      /\ task' = NextTask(target)
  BY AppliedRowIs DEF GovernedInv, AdvanceInv, BudgetInv, TypeOK, ApplyTransition
<1>2. /\ EvaluateLifecycleTransition(source, target, task.blockedFrom, LifecyclePhase(history))
      /\ EvaluateTransitionGuards(source, target, client[c].request.input,
                                  task.blockedFrom, ctx)
      /\ client[c].pc = "apply" /\ client[c].request.expected = task.version
  BY DEF ApplyTransition, StructurallyAllowed, GuardsAllow, CanApply, VersionMatches
<1>3. Opened' <=> Opened \/ target \in PostPrStates
  <2>1. /\ DOMAIN history' = DOMAIN history \cup {Len(history) + 1}
        /\ history'[Len(history) + 1].to = target
        /\ \A i \in DOMAIN history : history'[i] = history[i]
    BY <1>1
  <2>2. Opened <=> genesis \in PostPrStates \/ \E i \in DOMAIN history : history[i].to \in PostPrStates
    BY PhaseIs DEF Opened
  <2>3. Opened' <=> genesis' \in PostPrStates
                      \/ \E i \in DOMAIN history' : history'[i].to \in PostPrStates
    BY DEF Opened, LifecyclePhase, DeriveLifecyclePhase, Visited
  <2>. QED  BY <1>1, <2>1, <2>2, <2>3
<1>4. AttemptsUsed' = AttemptsUsed + (IF IsRepairEntryTransition(source, target) THEN 1 ELSE 0)
  <2>1. AttemptsUsed' = Cardinality(RepairEntries(Append(history, AppliedRow)))
    BY <1>1 DEF AttemptsUsed, RepairEntries
  <2>. QED  BY <1>1, <2>1, RepairEntriesAppend DEF AttemptsUsed
<1>5. IsRepairEntryTransition(source, target) => AttemptsUsed < RepairBudget
  <2>. SUFFICES ASSUME IsRepairEntryTransition(source, target)
                PROVE  AttemptsUsed < RepairBudget
    OBVIOUS
  <2>1. ctx.attempts < RepairBudget
    BY <1>1, <1>2, RepairEntryNeedsBudget
  <2>. QED  BY <1>2, <2>1 DEF GovernedInv, AdvanceInv, BudgetInv, CountIsCurrent
<1>6. source = "verifying" /\ target = "repairing" => Opened
  <2>. SUFFICES ASSUME source = "verifying", target = "repairing" PROVE Opened
    OBVIOUS
  <2>1. ctx.phase = "post_pr"
    BY <1>1, <1>2, GuardsNeed
  <2>. QED  BY <1>2, <2>1 DEF GovernedInv, PhaseIsPast
<1>. QED  BY <1>1, <1>2, <1>3, <1>4, <1>5, <1>6 DEF NextTask

LEMMA GovernedInit ==
    ASSUME Foresight = 0
    PROVE  Init => GovernedInv
<1>. SUFFICES ASSUME Init PROVE GovernedInv
  OBVIOUS
<1>1. Opened => genesis \in PostPrStates
  BY PhaseIs DEF Init, Opened
<1>2. PhaseFits
  BY <1>1 DEF Init, PhaseFits, BeforePr, NotBlocked, PostPrStates
<1>3. ASSUME NEW c \in Clients PROVE PhaseIsPast(c)
  BY DEF Init, PhaseIsPast, IdleClient
<1>. QED  BY <1>2, <1>3, AdvanceInit DEF GovernedInv

LEMMA GovernedApply ==
    ASSUME GovernedInv, AdvanceInv', NEW c \in Clients, ApplyTransition(c)
    PROVE  GovernedInv'
<1>. DEFINE source == task.status
            target == client[c].request.target
<1>1. /\ source \in States /\ target \in States
      /\ EvaluateLifecycleTransition(source, target, task.blockedFrom, LifecyclePhase(history))
      /\ task'.status = target
      /\ task'.blockedFrom = IF target = "blocked" THEN source ELSE NotBlocked
      /\ Opened' <=> Opened \/ target \in PostPrStates
  BY AppliedSteps
<1>2. ASSUME Opened' PROVE {task'.status, task'.blockedFrom} \cap BeforePr = {}
  <2>1. CASE target = "blocked"
    <3>1. Opened
      BY <1>1, <1>2, <2>1 DEF PostPrStates
    <3>. QED  BY <1>1, <2>1, <3>1 DEF GovernedInv, PhaseFits, BeforePr
  <2>2. CASE source = "blocked"
    <3>1. target = task.blockedFrom
      BY <1>1, <2>2 DEF EvaluateLifecycleTransition, MayResume
    <3>2. target \notin BeforePr
      BY <1>1, <1>2, <3>1 DEF GovernedInv, PhaseFits, BeforePr, PostPrStates
    <3>. QED  BY <1>1, <3>2 DEF GovernedInv, PhaseFits, BeforePr, NotBlocked
  <2>3. CASE source # "blocked" /\ target # "blocked"
    <3>1. <<source, target>> \in ForwardTransitions
             /\ ~PhaseForbids(source, target, LifecyclePhase(history))
      BY <1>1, <2>3 DEF EvaluateLifecycleTransition
    <3>2. Opened => source \notin BeforePr
      BY DEF GovernedInv, PhaseFits
    <3>3. target \notin BeforePr
      <4>1. CASE target \in PostPrStates
        BY <4>1 DEF BeforePr, PostPrStates
      <4>2. CASE Opened
        BY <3>1, <3>2, <4>2 DEF Opened, ForwardTransitions, PhaseForbids, BeforePr
      <4>. QED  BY <1>1, <1>2, <4>1, <4>2
    <3>. QED  BY <1>1, <2>3, <3>3 DEF BeforePr, NotBlocked
  <2>. QED  BY <2>1, <2>2, <2>3
<1>3. ASSUME NEW d \in Clients PROVE PhaseIsPast(d)'
  <2>1. client' = [client EXCEPT ![c] = IdleClient] /\ client \in [Clients -> ClientState]
    BY DEF ApplyTransition, Answer, GovernedInv, AdvanceInv, BudgetInv, TypeOK
  <2>2. CASE d = c
    BY <2>1, <2>2 DEF PhaseIsPast, IdleClient
  <2>3. CASE d # c
    BY <1>1, <2>1, <2>3 DEF PhaseIsPast, GovernedInv
  <2>. QED  BY <2>2, <2>3
<1>. QED  BY <1>2, <1>3 DEF GovernedInv, PhaseFits

LEMMA GovernedNext ==
    ASSUME Foresight = 0
    PROVE  GovernedInv /\ [Next]_vars => GovernedInv'
<1>. SUFFICES ASSUME GovernedInv, [Next]_vars PROVE GovernedInv'
  OBVIOUS
<1>1. AdvanceInv'
  BY AdvanceNext DEF GovernedInv
<1>2. client \in [Clients -> ClientState]
  BY DEF GovernedInv, AdvanceInv, BudgetInv, TypeOK
<1>3. ASSUME UNCHANGED <<genesis, task, history>>, NEW c \in Clients,
             \A d \in Clients \ {c} : client'[d] = client[d],
             PhaseIsPast(c)'
      PROVE  GovernedInv'
  <2>1. Opened' <=> Opened
    BY <1>3 DEF Opened, LifecyclePhase, Visited
  <2>2. PhaseFits'
    BY <1>3, <2>1 DEF PhaseFits, GovernedInv
  <2>3. ASSUME NEW d \in Clients \ {c} PROVE PhaseIsPast(d)'
    BY <1>3, <2>1 DEF PhaseIsPast, GovernedInv
  <2>. QED  BY <1>1, <1>3, <2>2, <2>3 DEF GovernedInv
<1>4. ASSUME NEW c \in Clients, NEW moved, client' = [client EXCEPT ![c] = moved],
             UNCHANGED <<genesis, task, history>>,
             moved.pc # "apply" \/ moved.ctx.phase = "pre_pr"
      PROVE  GovernedInv'
  <2>1. client'[c] = moved /\ \A d \in Clients \ {c} : client'[d] = client[d]
    BY <1>2, <1>4
  <2>2. PhaseIsPast(c)'
    BY <1>4, <2>1 DEF PhaseIsPast
  <2>. QED  BY <1>3, <1>4, <2>1, <2>2
<1>5. ASSUME NEW c \in Clients, NEW request,
             client' = [client EXCEPT ![c] = ReadLifecycle(request)],
             UNCHANGED <<genesis, task, history>>
      PROVE  GovernedInv'
  <2>. DEFINE started == ReadLifecycle(request)
  <2>1. started.ctx.phase = "pre_pr"
    BY DEF ReadLifecycle, EmptyContext
  <2>. HIDE DEF started
  <2>2. client' = [client EXCEPT ![c] = started]
    BY <1>5 DEF started
  <2>. QED  BY <1>4, <1>5, <2>1, <2>2
<1>6. ASSUME NEW c \in Clients, Begin(c) \/ Retry(c) PROVE GovernedInv'
  BY <1>5, <1>6 DEF Begin, Retry, database
<1>7. ASSUME NEW c \in Clients, PreparePlan(c) PROVE GovernedInv'
  <2>1. /\ client'[c].ctx.phase = "pre_pr"
        /\ \A d \in Clients \ {c} : client'[d] = client[d]
    BY <1>2, <1>7 DEF PreparePlan, ClientState, EmptyContext
  <2>2. PhaseIsPast(c)'
    BY <2>1 DEF PhaseIsPast
  <2>. QED  BY <1>3, <1>7, <2>1, <2>2 DEF PreparePlan, database
<1>8. ASSUME NEW c \in Clients, ReadWatermark(c) PROVE GovernedInv'
  <2>1. /\ client'[c].pc = "evidence"
        /\ \A d \in Clients \ {c} : client'[d] = client[d]
    BY <1>2, <1>8 DEF ReadWatermark, ClientState
  <2>2. PhaseIsPast(c)'
    BY <2>1 DEF PhaseIsPast
  <2>. QED  BY <1>3, <1>8, <2>1, <2>2 DEF ReadWatermark, database
<1>9. ASSUME NEW c \in Clients, ReadEvidence(c) PROVE GovernedInv'
  <2>1. /\ client'[c].ctx.phase = LifecyclePhase(SubSeq(history, 1, client[c].seen))
        /\ \A d \in Clients \ {c} : client'[d] = client[d]
    BY <1>2, <1>9 DEF ReadEvidence, ClientState, ProofGuardContext
  <2>2. UNCHANGED <<genesis, task, history>>
    BY <1>9 DEF ReadEvidence, database
  <2>3. HasSeen(c)
    BY DEF GovernedInv, AdvanceInv
  <2>4. client'[c].ctx.phase = "post_pr" => Opened
    BY <2>1, <2>3, PhaseOfPrefix DEF HasSeen
  <2>5. Opened' <=> Opened
    BY <2>2 DEF Opened, LifecyclePhase, Visited
  <2>6. PhaseIsPast(c)'
    BY <2>4, <2>5 DEF PhaseIsPast
  <2>. QED  BY <1>3, <2>1, <2>2, <2>6
<1>10. ASSUME NEW c \in Clients,
              Abandon(c) \/ Replay(c) \/ RecordConflict(c) \/ RejectTransition(c)
       PROVE  GovernedInv'
  <2>1. IdleClient.pc # "apply"
    BY DEF IdleClient
  <2>. QED
    BY <1>4, <1>10, <2>1
       DEF Abandon, Replay, RecordConflict, RejectTransition, Answer, database
<1>11. ASSUME NEW c \in Clients, ReportEvidenceChanged(c) PROVE GovernedInv'
  <2>1. /\ client'[c].pc = "busy"
        /\ \A d \in Clients \ {c} : client'[d] = client[d]
    BY <1>2, <1>11 DEF ReportEvidenceChanged, IdleClient
  <2>2. PhaseIsPast(c)'
    BY <2>1 DEF PhaseIsPast
  <2>. QED  BY <1>3, <1>11, <2>1, <2>2 DEF ReportEvidenceChanged, database
<1>12. ASSUME NEW c \in Clients, ApplyTransition(c) PROVE GovernedInv'
  BY <1>1, <1>12, GovernedApply
<1>13. CASE Environment \/ UNCHANGED vars
  <2>1. UNCHANGED <<genesis, task, history, client>>
    BY <1>13
       DEF Environment, RecordGateReceipt, ImportGateReceipt, ImportReviewReceipt, LoseArtifact,
           database, vars
  <2>2. Opened' <=> Opened
    BY <2>1 DEF Opened, LifecyclePhase, Visited
  <2>3. PhaseFits'
    BY <2>1, <2>2 DEF PhaseFits, GovernedInv
  <2>4. ASSUME NEW d \in Clients PROVE PhaseIsPast(d)'
    BY <2>1, <2>2 DEF PhaseIsPast, GovernedInv
  <2>. QED  BY <1>1, <2>3, <2>4 DEF GovernedInv
<1>. QED
  BY <1>6, <1>7, <1>8, <1>9, <1>10, <1>11, <1>12, <1>13 DEF Next, Gather, Decide

\* Every step of the controller is a step of the governed lifecycle or leaves it
\* alone; only ApplyTransition takes one.
LEMMA GovernedStep == GovernedInv /\ [Next]_vars => [Promise!Advance]_Promise!lifecycle
<1>. SUFFICES ASSUME GovernedInv, [Next]_vars PROVE [Promise!Advance]_Promise!lifecycle
  OBVIOUS
<1>1. CASE \E c \in Clients : ApplyTransition(c)
  <2>1. PICK c \in Clients : ApplyTransition(c)
    BY <1>1
  <2>. DEFINE source == task.status
              target == client[c].request.target
              phase == LifecyclePhase(history)
  <2>2. /\ source \in States /\ target \in States
        /\ EvaluateLifecycleTransition(source, target, task.blockedFrom, phase)
        /\ task'.status = target
        /\ task'.blockedFrom = IF target = "blocked" THEN source ELSE NotBlocked
        /\ Opened' <=> Opened \/ target \in PostPrStates
        /\ AttemptsUsed' = AttemptsUsed
             + (IF IsRepairEntryTransition(source, target) THEN 1 ELSE 0)
        /\ IsRepairEntryTransition(source, target) => AttemptsUsed < RepairBudget
        /\ source = "verifying" /\ target = "repairing" => Opened
    BY <2>1, AppliedSteps
  <2>3. /\ phase \in {"pre_pr", "post_pr"} /\ phase' \in {"pre_pr", "post_pr"}
        /\ Opened <=> phase = "post_pr"
        /\ Opened' <=> phase' = "post_pr"
    BY DEF Opened, LifecyclePhase, DeriveLifecyclePhase
  <2>4. source \in PostPrStates \/ task.blockedFrom \in PostPrStates => Opened
    BY StatusIsVisited DEF GovernedInv, AdvanceInv, RepairInv
  <2>5. Opened => source \notin BeforePr
    BY DEF GovernedInv, PhaseFits
  <2>6. task.blockedFrom = NotBlocked \/ source = "blocked"
    BY DEF GovernedInv, AdvanceInv, RepairInv, HistoryInv, HistoryIsAuthoritative
  <2>7. AttemptsUsed \in Nat
    BY RepairEntriesFinite DEF AttemptsUsed, GovernedInv, AdvanceInv, BudgetInv, TypeOK
  <2>. HIDE DEF source, target, phase
  <2>8. CASE target = "blocked" /\ source # "blocked"
    <3>1. /\ phase' = phase
          /\ AttemptsUsed' = AttemptsUsed
          /\ source # "completed"
      BY <2>2, <2>3, <2>7, <2>8
         DEF PostPrStates, IsRepairEntryTransition, EvaluateLifecycleTransition
    <3>2. Promise!Block
      BY <2>2, <2>8, <3>1 DEF Promise!Block, source, phase
    <3>. QED  BY <3>2 DEF Promise!Advance
  <2>9. CASE source = "blocked"
    <3>1. target = task.blockedFrom /\ target # "blocked"
      BY <2>2, <2>9 DEF EvaluateLifecycleTransition, MayResume, Unresumable
    <3>2. phase' = phase /\ AttemptsUsed' = AttemptsUsed
      BY <2>2, <2>3, <2>4, <2>7, <2>9, <3>1 DEF IsRepairEntryTransition, RepairEntryStates
    <3>3. Promise!Resume
      BY <2>2, <2>9, <3>1, <3>2 DEF Promise!Resume, Promise!NotBlocked, NotBlocked, source, phase
    <3>. QED  BY <3>3 DEF Promise!Advance
  <2>10. CASE source # "blocked" /\ target # "blocked"
    <3>1. /\ <<source, target>> \in ForwardTransitions
          /\ ~PhaseForbids(source, target, phase)
      BY <2>2, <2>10 DEF EvaluateLifecycleTransition
    <3>2. task'.blockedFrom = task.blockedFrom
      BY <2>2, <2>6, <2>10
    <3>3. CASE target = "repairing"
      <4>1. source \in RepairEntryStates /\ IsRepairEntryTransition(source, target)
        BY <3>1, <3>3 DEF ForwardTransitions, RepairEntryStates, IsRepairEntryTransition
      <4>2. Opened
        BY <2>2, <2>4, <3>3, <4>1 DEF RepairEntryStates, PostPrStates
      <4>3. phase = "post_pr" /\ phase' = phase
        BY <2>2, <2>3, <4>2
      <4>4. Promise!OpenRepair
        BY <2>2, <3>2, <3>3, <4>1, <4>3 DEF Promise!OpenRepair, Promise!RepairEntryStates,
           RepairEntryStates, source, phase
      <4>. QED  BY <4>4 DEF Promise!Advance
    <3>4. CASE target # "repairing"
      <4>1. AttemptsUsed' = AttemptsUsed
        BY <2>2, <2>7, <3>4 DEF IsRepairEntryTransition
      <4>2. ASSUME NEW steps, <<source, target>> \in steps, phase' = phase
            PROVE  Promise!Work(steps)
        BY <2>2, <3>2, <4>1, <4>2 DEF Promise!Work, Promise!States, States, source, phase
      <4>3. CASE source = "pre_pr_reviewing" /\ target = "reviewing"
        <5>1. phase = "pre_pr" /\ phase' = "post_pr"
          BY <2>2, <2>3, <2>5, <4>3 DEF BeforePr, PostPrStates
        <5>2. Promise!OpenPullRequest
          BY <2>2, <3>2, <4>1, <4>3, <5>1 DEF Promise!OpenPullRequest, source, phase
        <5>. QED  BY <5>2 DEF Promise!Advance
      <4>4. CASE source = "repairing"
        <5>1. target = "verifying"
          BY <3>1, <4>4 DEF ForwardTransitions
        <5>2. phase' = phase
          BY <2>2, <2>3, <5>1 DEF PostPrStates
        <5>3. Promise!FinishRepair
          BY <4>2, <4>4, <5>1, <5>2 DEF Promise!FinishRepair
        <5>. QED  BY <5>3 DEF Promise!Advance
      <4>5. CASE /\ source \in {"verifying", "reviewing", "ready_for_human"}
                 /\ target \in PostPrStates
        <5>1. Opened
          BY <2>3, <2>4, <3>1, <4>5 DEF PostPrStates, ForwardTransitions, PhaseForbids
        <5>2. phase = "post_pr" /\ phase' = phase
          BY <2>2, <2>3, <5>1
        <5>3. <<source, target>> \in Promise!PostPrSteps
          BY <3>1, <4>5 DEF ForwardTransitions, PostPrStates, Promise!PostPrSteps
        <5>4. Promise!WorkOnPr
          BY <4>2, <5>2, <5>3 DEF Promise!WorkOnPr, phase
        <5>. QED  BY <5>4 DEF Promise!Advance
      <4>6. CASE /\ target \notin PostPrStates
                 /\ source # "repairing"
        <5>1. <<source, target>> \in Promise!PrePrSteps
          BY <3>1, <3>4, <4>6 DEF ForwardTransitions, PostPrStates, Promise!PrePrSteps
        <5>2. ~Opened
          BY <2>3, <2>5, <3>1, <3>4, <4>6
             DEF BeforePr, ForwardTransitions, PostPrStates, PhaseForbids
        <5>3. phase = "pre_pr" /\ phase' = phase
          BY <2>2, <2>3, <4>6, <5>2
        <5>4. Promise!WorkBeforePr
          BY <4>2, <5>1, <5>3 DEF Promise!WorkBeforePr, phase
        <5>. QED  BY <5>4 DEF Promise!Advance
      <4>. QED
        BY <3>1, <4>3, <4>4, <4>5, <4>6 DEF ForwardTransitions, PostPrStates
    <3>. QED  BY <3>3, <3>4
  <2>. QED  BY <2>2, <2>8, <2>9, <2>10 DEF EvaluateLifecycleTransition
<1>2. CASE ~\E c \in Clients : ApplyTransition(c)
  <2>1. UNCHANGED <<genesis, task, history>>
    BY <1>2
       DEF Next, Begin, Gather, PreparePlan, ReadWatermark, ReadEvidence, Decide, Replay,
           RecordConflict, RejectTransition, ReportEvidenceChanged, Retry, Abandon, Environment,
           RecordGateReceipt, ImportGateReceipt, ImportReviewReceipt, LoseArtifact, database, vars
  <2>2. LifecyclePhase(history)' = LifecyclePhase(history) /\ AttemptsUsed' = AttemptsUsed
    BY <2>1 DEF LifecyclePhase, Visited, AttemptsUsed, RepairEntries
  <2>. QED  BY <2>1, <2>2 DEF Promise!lifecycle
<1>. QED  BY <1>1, <1>2

LEMMA GovernedOrigin == Init => Promise!Origin
<1>. SUFFICES ASSUME Init PROVE Promise!Origin
  OBVIOUS
<1>1. LifecyclePhase(history) = IF genesis \in PostPrStates THEN "post_pr" ELSE "pre_pr"
  BY DEF Init, LifecyclePhase, DeriveLifecyclePhase, Visited
<1>2. AttemptsUsed = 0
  <2>1. RepairEntries(history) = {}
    BY DEF Init, RepairEntries
  <2>. QED  BY <2>1, FS_EmptySet DEF AttemptsUsed
<1>. QED
  BY <1>1, <1>2 DEF Init, Promise!Origin, PostPrStates, Promise!PostPrStates, NotBlocked,
     Promise!NotBlocked

\* When no request names a version the session has not reached, the controller
\* implements the lifecycle it promises: the phase is permanent, repairs are
\* opened on a pull request and within the budget, a blocked session resumes to
\* the state it left, and nothing else ever happens to a session.
THEOREM LifecycleIsGoverned ==
    ASSUME Foresight = 0
    PROVE  Spec => ImplementsGovernedLifecycle
BY GovernedInit, GovernedNext, GovernedStep, GovernedOrigin, PTL
   DEF Spec, ImplementsGovernedLifecycle, Promise!Governed
=============================================================================
