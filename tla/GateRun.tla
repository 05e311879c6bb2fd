-------------------------------- MODULE GateRun --------------------------------
(***************************************************************************)
(* A local gate: runSessionGate (src/src/services/session-service.ts)      *)
(* observes the repository, runs the setup steps and the gate command      *)
(* through src/src/adapters/process/gate-runner.ts, observes again, and    *)
(* appends a receipt.  Anyone may change the repository or move the        *)
(* session meanwhile, and a command may outlive its timeout.               *)
(*                                                                         *)
(* A timer may expire as soon as it is set.  Paths, logs and digests are   *)
(* left out: writing a log either works or is a cleanup failure.           *)
(***************************************************************************)
EXTENDS ProcessTree, Sequences

CONSTANTS
    SetupSteps,     \* declared setup steps, ahead of the gate command
    MaxChanges,     \* bound: changes of the repository
    NoObservation   \* an observation that failed

VARIABLES
    repository,     \* [head, clean, onBranch]
    changes,
    verifying,      \* the session is still in the state version that was read
    command,        \* the closure of runGateProcess
    run,            \* the locals of runGateWithSetup and runSessionGate
    receipt,        \* the stored receipt, or NoReceipt
    witnessed,      \* history: the repository at each observation
    codes           \* history: how the leader of each command ended

vars == <<tree, repository, changes, verifying, command, run, receipt, witnessed, codes>>

Repositories == [head : {1, 2}, clean : BOOLEAN, onBranch : BOOLEAN]
NoReceipt == [result |-> "none", head |-> 0, after |-> 0, clean |-> FALSE, setup |-> <<>>]

NoCommand == [timedOut |-> FALSE, aborted |-> FALSE, uncleaned |-> FALSE, failed |-> FALSE,
              force |-> "unset"]

\* steps: [result, before, after] of each setup step that ran.
NoRun == [pc |-> "preflight", before |-> NoObservation, observed |-> NoObservation,
          steps |-> <<>>, ended |-> "none", gate |-> "none", result |-> "none"]

Init ==
    /\ NoTree
    /\ repository \in Repositories
    /\ changes = 0
    /\ verifying = TRUE
    /\ command = NoCommand
    /\ run = NoRun
    /\ receipt = NoReceipt
    /\ witnessed = <<>>
    /\ codes = <<>>

At(step) == run.pc = step
-----------------------------------------------------------------------------
\* The state of the repository, or nothing if git fails.
Observe(observation) ==
    /\ observation \in {repository, NoObservation}
    /\ witnessed' = Append(witnessed, repository)

\* A gate starts on a clean checkout of the plan's branch only.
Preflight ==
    /\ At("preflight")
    /\ repository.clean /\ repository.onBranch
    /\ Observe(repository)
    /\ run' = [run EXCEPT !.pc = "start", !.before = repository, !.observed = repository]
    /\ UNCHANGED <<tree, repository, changes, verifying, command, receipt, codes>>

RefuseGate ==
    /\ At("preflight")
    /\ ~(repository.clean /\ repository.onBranch)
    /\ run' = [run EXCEPT !.pc = "done"]
    /\ UNCHANGED <<tree, repository, changes, verifying, command, receipt, witnessed, codes>>

\* runGateProcess.
StartCommand ==
    /\ At("start")
    /\ Spawn \/ SpawnNothing
    /\ run' = [run EXCEPT !.pc = "running"]
    /\ UNCHANGED <<repository, changes, verifying, command, receipt, witnessed, codes>>

\* terminate: SIGTERM, and SIGKILL after two seconds.
Terminated(c) ==
    IF c.force = "unset"
    THEN [c EXCEPT !.force = "set", !.uncleaned = @ \/ ~SignalSucceeds]
    ELSE c

Terminate(c) ==
    /\ At("running")
    /\ IF command.force = "unset" THEN Signal("SIGTERM") ELSE UNCHANGED tree
    /\ command' = Terminated(c)
    /\ UNCHANGED <<repository, changes, verifying, run, receipt, witnessed, codes>>

Timeout == ~command.timedOut /\ Terminate([command EXCEPT !.timedOut = TRUE])

\* abortSignal, which no caller of the command line passes.
Abort == ~command.aborted /\ Terminate([command EXCEPT !.aborted = TRUE])

ForceStop ==
    /\ At("running")
    /\ command.force = "set"
    /\ Signal("SIGKILL")
    /\ command' = [command EXCEPT !.force = "fired", !.uncleaned = @ \/ ~SignalSucceeds]
    /\ UNCHANGED <<repository, changes, verifying, run, receipt, witnessed, codes>>

\* The error event: there is no process.
OnError ==
    /\ At("running")
    /\ alive = {} /\ code = "none"
    /\ ~command.failed
    /\ command' = [command EXCEPT !.failed = TRUE]
    /\ UNCHANGED <<tree, repository, changes, verifying, run, receipt, witnessed, codes>>

ProcessResult(c, exit, streamed) ==
    IF c.uncleaned \/ ~streamed THEN "cleanup_failed"
    ELSE IF c.aborted THEN "aborted"
    ELSE IF c.timedOut THEN "timed_out"
    ELSE IF c.failed THEN "execution_error"
    ELSE IF exit = "zero" THEN "passed" ELSE "failed"

\* The close event clears every timer; streamed: both logs were written.
OnClose ==
    /\ At("running")
    /\ "leader" \notin alive /\ (command.failed \/ code # "none")
    /\ ~PipesOpen
    /\ \E streamed \in BOOLEAN :
          run' = [run EXCEPT !.pc = "observe", !.ended = ProcessResult(command, code, streamed)]
    /\ codes' = Append(codes, code)
    /\ command' = NoCommand
    /\ UNCHANGED <<tree, repository, changes, verifying, receipt, witnessed>>
-----------------------------------------------------------------------------
\* Slip: the index of the last step is off by one.
OfGateAfterAll == Len(run.steps) > SetupSteps

OfGate == Len(run.steps) = SetupSteps

\* A step that does not pass, or a repository that is not the same and clean,
\* stops the sequence.
MayContinue(result, before, after) ==
    /\ result = "passed"
    /\ after # NoObservation
    /\ after.clean
    /\ after.head = before.head

ObserveSetup ==
    /\ At("observe")
    /\ ~OfGate
    /\ \E after \in {repository, NoObservation} :
          /\ Observe(after)
          /\ run' = [run EXCEPT
                 !.pc = IF MayContinue(run.ended, run.observed, after) THEN "start" ELSE "conclude",
                 !.steps = Append(@, [result |-> run.ended, before |-> run.observed,
                                      after |-> after]),
                 !.observed = after]
    /\ ForgetTree
    /\ UNCHANGED <<repository, changes, verifying, command, receipt, codes>>

ObserveGate ==
    /\ At("observe")
    /\ OfGate
    /\ \E after \in {repository, NoObservation} :
          /\ Observe(after)
          /\ run' = [run EXCEPT !.pc = "conclude", !.gate = run.ended, !.observed = after]
    /\ ForgetTree
    /\ UNCHANGED <<repository, changes, verifying, command, receipt, codes>>

Stands(observation) ==
    /\ observation # NoObservation
    /\ observation.clean
    /\ observation.head = run.before.head

\* Slip: only the caller's last observation counts.
ExecutionNeverInvalidated == FALSE

\* gateExecutionWasInvalidated.
ExecutionWasInvalidated ==
    \/ ~Stands(run.observed)
    \/ \E i \in DOMAIN run.steps : ~Stands(run.steps[i].before) \/ ~Stands(run.steps[i].after)

\* Slip: what kept the gate command from running does not matter.
OutcomeOfCommand(invalidated) ==
    IF invalidated THEN "invalidated" ELSE IF run.gate = "none" THEN "execution_error" ELSE run.gate

\* classifyGateOutcome.
Outcome(invalidated) ==
    IF invalidated THEN "invalidated"
    ELSE IF \E i \in DOMAIN run.steps : run.steps[i].result # "passed" THEN "setup_failed"
    ELSE IF run.gate = "none" THEN "execution_error" ELSE run.gate

\* runSessionGate observes once more before it classifies.
Conclude ==
    /\ At("conclude")
    /\ \E after \in {repository, NoObservation} :
          /\ Observe(after)
          /\ LET invalidated ==
                    \/ ~Stands(after)
                    \/ ExecutionWasInvalidated
                    \/ after.onBranch # run.before.onBranch
             IN  run' = [run EXCEPT !.pc = "record", !.result = Outcome(invalidated),
                                       !.observed = after]
    /\ UNCHANGED <<tree, repository, changes, verifying, command, receipt, codes>>

\* appendGateReceipt; a session that has moved refuses it.
Record ==
    /\ At("record")
    /\ receipt' =
           IF verifying
           THEN LET after == IF run.observed = NoObservation
                             THEN [run.before EXCEPT !.clean = FALSE] ELSE run.observed
                IN  [result |-> run.result, head |-> run.before.head,
                     after |-> after.head, clean |-> after.clean,
                     setup |-> [i \in DOMAIN run.steps |-> run.steps[i].result]]
           ELSE receipt
    /\ run' = [run EXCEPT !.pc = "done"]
    /\ UNCHANGED <<tree, repository, changes, verifying, command, witnessed, codes>>
-----------------------------------------------------------------------------
\* recordedSetupViolation: a setup sequence that the declaration cannot have
\* produced with this result.
RecordedSetupViolation(setup, result) ==
    LET commandRan == result \notin {"setup_failed", "invalidated", "aborted"}
        nonPassing == {i \in DOMAIN setup : setup[i] # "passed"}
    IN  \/ Len(setup) > SetupSteps
        \/ result = "setup_failed" /\ nonPassing = {}
        \/ commandRan /\ (Len(setup) # SetupSteps \/ nonPassing # {})
        \/ ~(nonPassing \subseteq {Len(setup)})

\* evaluateProofEvidence, for a gate whose newest receipt this one is.
EvaluateReceipt(currentHead) ==
    IF RecordedSetupViolation(receipt.setup, receipt.result) THEN "corrupt"
    ELSE IF {receipt.head, receipt.after} # {currentHead} THEN "stale"
    ELSE IF receipt.result = "passed" /\ receipt.clean THEN "passed"
    ELSE IF receipt.result = "setup_failed" THEN "setup_failed" ELSE "failed"
-----------------------------------------------------------------------------
ChangeRepository ==
    /\ ~At("done")
    /\ changes < MaxChanges
    /\ changes' = changes + 1
    /\ repository' \in Repositories \ {repository}
    /\ UNCHANGED <<tree, verifying, command, run, receipt, witnessed, codes>>

MoveSession ==
    /\ ~At("done")
    /\ verifying
    /\ verifying' = FALSE
    /\ UNCHANGED <<tree, repository, changes, command, run, receipt, witnessed, codes>>

\* What a command leaves running is not followed.
EndMember ==
    /\ At("running")
    /\ \E member \in Members : Exit(member)
    /\ UNCHANGED <<repository, changes, verifying, command, run, receipt, witnessed, codes>>

Next ==
    \/ Preflight
    \/ RefuseGate
    \/ StartCommand
    \/ Timeout
    \/ Abort
    \/ ForceStop
    \/ OnError
    \/ OnClose
    \/ ObserveSetup
    \/ ObserveGate
    \/ Conclude
    \/ Record
    \/ ChangeRepository
    \/ MoveSession
    \/ EndMember

Spec == Init /\ [][Next]_vars
-----------------------------------------------------------------------------
Results == {"passed", "failed", "timed_out", "aborted", "execution_error", "cleanup_failed"}

TypeOK ==
    /\ repository \in Repositories
    /\ changes \in 0 .. MaxChanges
    /\ verifying \in BOOLEAN
    /\ run.pc \in {"preflight", "start", "running", "observe", "conclude", "record", "done"}
    /\ run.ended \in Results \cup {"none"}
    /\ run.gate \in Results \cup {"none"}
    /\ Len(run.steps) <= SetupSteps
    /\ receipt.result \in Results \cup {"setup_failed", "invalidated", "none"}
    /\ {receipt.head, receipt.after} \subseteq 0 .. 2
    /\ Len(codes) <= SetupSteps + 1

\* A passed receipt was earned by every declared command, each of which exited
\* with zero, on one clean commit: the one the receipt names, at every instant
\* at which the repository was observed.
PassedReceiptDescribesOneHead ==
    receipt.result = "passed" =>
        /\ Len(codes) = SetupSteps + 1
        /\ \A i \in DOMAIN codes : codes[i] = "zero"
        /\ \A i \in DOMAIN witnessed :
              witnessed[i].clean /\ witnessed[i].head = receipt.head

\* Whatever stopped the run, its receipt is one the evaluator accepts as written
\* by this program; passed holds for the receipt's own commit alone; and
\* setup_failed says that the gate command never ran (src/src/domain/proof.ts:291-293
\* keeps such receipts from selecting repair).
ReceiptsAreAccepted ==
    receipt.result # "none" =>
        \A head \in {1, 2} :
            /\ EvaluateReceipt(head) # "corrupt"
            /\ EvaluateReceipt(head) = "passed" <=> receipt.result = "passed" /\ head = receipt.head
            /\ EvaluateReceipt(head) = "setup_failed" =>
                  Len(codes) = Len(receipt.setup) /\ Len(codes) \in 1 .. SetupSteps

\* A command that was timed out or aborted has left nothing running in its
\* group (gate-runner.ts:232-234: "so a timeout or abort can terminate
\* everything it started").
TimeoutStopsEverything ==
    At("observe") /\ run.ended \in {"timed_out", "aborted"} => Group = {}
=============================================================================
