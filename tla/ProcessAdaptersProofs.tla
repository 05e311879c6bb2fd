------------------------ MODULE ProcessAdaptersProofs ------------------------
(***************************************************************************)
(* Proofs about ProcessAdapters, for every number of setup steps and every *)
(* bound: type correctness, what a passed receipt of a gate stands for,    *)
(* that the evaluator accepts every receipt, and that the process of the   *)
(* GAAP executor leaves nothing running that is not reported.              *)
(***************************************************************************)
EXTENDS ProcessAdapters, SequenceTheorems, TLAPS

Observations == Gate!Repositories \cup {NoObservation}
Step == [result : Gate!Results, before : Observations, after : Observations]
Outcomes == Gate!Results \cup {"setup_failed", "invalidated", "none"}

RunState == [pc : {"preflight", "start", "running", "observe", "conclude", "record", "done"},
             before : Observations, observed : Observations, steps : Seq(Step),
             ended : Gate!Results \cup {"none"}, gate : Gate!Results \cup {"none"},
             result : Outcomes]
Receipt == [result : Outcomes, head : 0 .. 2, after : 0 .. 2, clean : BOOLEAN,
            setup : Seq(Gate!Results)]

GateTyped ==
    /\ repository \in Gate!Repositories /\ changes \in 0 .. MaxChanges /\ verifying \in BOOLEAN
    /\ code \in Gate!ExitCodes
    /\ run \in RunState
    /\ receipt \in Receipt
    /\ witnessed \in Seq(Gate!Repositories)
    /\ codes \in Seq(Gate!ExitCodes)

\* At every observation so far the repository was clean and on the commit of the first.
AllStand == \A i \in DOMAIN witnessed : witnessed[i].clean /\ witnessed[i].head = run.before.head
AllPassed == \A i \in DOMAIN run.steps : run.steps[i].result = "passed"
AllZero == \A i \in DOMAIN codes : codes[i] = "zero"

\* While commands are run: those before have passed, on one clean commit.
Undisturbed ==
    /\ run.before \in Gate!Repositories
    /\ run.observed.clean /\ run.observed.head = run.before.head
    /\ AllStand /\ AllPassed
    /\ run.gate = "none" /\ Len(run.steps) <= SetupSteps

\* A setup step ended the sequence: it did not pass, or the repository is not as it was.
EndedBySetup ==
    /\ run.gate = "none"
    /\ Len(codes) = Len(run.steps) /\ Len(run.steps) \in 1 .. SetupSteps
    /\ \A i \in DOMAIN run.steps : i < Len(run.steps) => run.steps[i].result = "passed"
    /\ AllPassed => ~Gate!Stands(run.observed)

EndedByGate ==
    /\ run.gate # "none"
    /\ Len(codes) = SetupSteps + 1 /\ Len(run.steps) = SetupSteps
    /\ AllPassed
    /\ run.gate = "passed" => AllZero

\* What a classified run says of its commands and of the repository.
Classified ==
    /\ run.before \in Gate!Repositories
    /\ run.result # "none" /\ Len(run.steps) <= SetupSteps
    /\ \A i \in DOMAIN run.steps : i < Len(run.steps) => run.steps[i].result = "passed"
    /\ run.result = "passed" =>
          Len(codes) = SetupSteps + 1 /\ AllZero /\ AllStand /\ Gate!Stands(run.observed)
    /\ run.result = "setup_failed" =>
          Len(codes) = Len(run.steps) /\ Len(run.steps) \in 1 .. SetupSteps /\ ~AllPassed
    /\ run.result \notin {"setup_failed", "invalidated"} =>
          Len(run.steps) = SetupSteps /\ AllPassed

Progress ==
    /\ run.pc = "preflight" =>
          /\ run.steps = <<>> /\ run.gate = "none"
          /\ witnessed = <<>> /\ codes = <<>>
    /\ run.pc \in {"start", "running"} => Undisturbed /\ AllZero /\ Len(codes) = Len(run.steps)
    /\ run.pc = "observe" =>
          /\ Undisturbed
          /\ run.ended # "none" /\ Len(codes) = Len(run.steps) + 1
          /\ \A i \in DOMAIN codes : i < Len(codes) => codes[i] = "zero"
          /\ run.ended = "passed" => codes[Len(codes)] = "zero"
    /\ run.pc = "conclude" =>
          /\ run.before \in Gate!Repositories
          /\ Gate!Stands(run.observed) => AllStand
          /\ EndedBySetup \/ EndedByGate
    /\ run.pc = "record" => Classified
    /\ receipt.result = "none" \/ run.pc = "done"

\* A stored receipt is that of the classified run.
Receipted ==
    receipt.result # "none" =>
        /\ Classified
        /\ receipt.result = run.result /\ receipt.head = run.before.head
        /\ receipt.setup = [i \in DOMAIN run.steps |-> run.steps[i].result]
        /\ Gate!Stands(run.observed) =>
              receipt.after = run.observed.head /\ receipt.clean = run.observed.clean

\* No more commands are run than are declared.
Bounded == Len(run.steps) <= SetupSteps /\ Len(codes) <= SetupSteps + 1

GateInv == GateTyped /\ Progress /\ Receipted /\ Bounded

RunnerState == [pc : {"idle", "waiting", "finished"}, status : Gaap!Statuses,
                delivered : BOOLEAN, exited : BOOLEAN, uncleaned : BOOLEAN,
                force : {"unset", "set", "fired"}, drain : BOOLEAN]

\* Once the exit of the leader is seen and nothing went wrong, the group is gone.
GaapInv ==
    /\ Gaap!TypeOK
    /\ runner.pc = "idle" => alive = {} /\ ~runner.exited
    /\ runner.exited /\ ~runner.uncleaned => Gaap!Group = {}
    /\ StoppedUnlessReported

AdaptersInv ==
    /\ adapter \in {"gate", "gaap"}
    /\ adapter = "gate" => GateInv /\ runner.pc = "idle"
    /\ adapter = "gaap" => GaapInv /\ receipt.result = "none"
-----------------------------------------------------------------------------
\* The gate.

LEMMA GateInit == Gate!Init => GateInv
<1>. SUFFICES ASSUME Gate!Init PROVE GateInv
  OBVIOUS
<1>1. /\ repository \in Gate!Repositories /\ changes = 0 /\ verifying = TRUE
      /\ code = "none"
      /\ run = [pc |-> "preflight", before |-> NoObservation, observed |-> NoObservation,
                steps |-> <<>>, ended |-> "none", gate |-> "none", result |-> "none"]
      /\ receipt = [result |-> "none", head |-> 0, after |-> 0, clean |-> FALSE,
                    setup |-> <<>>]
      /\ witnessed = <<>> /\ codes = <<>>
  BY DEF Gate!Init, Gate!NoTree, Gate!NoRun, Gate!NoReceipt
<1>2. run \in RunState
  <2>1. <<>> \in Seq(Step) /\ NoObservation \in Observations
    BY DEF Observations
  <2>. HIDE DEF RunState
  <2>. QED  BY <1>1, <2>1 DEF RunState, Outcomes
<1>3. receipt \in Receipt
  <2>1. <<>> \in Seq(Gate!Results)
    OBVIOUS
  <2>. QED  BY <1>1, <2>1 DEF Receipt, Outcomes
<1>4. GateTyped
  BY <1>1, <1>2, <1>3, AdaptersAssumption DEF GateTyped, Gate!ExitCodes
<1>5. Progress /\ Receipted
  BY <1>1 DEF Progress, Receipted
<1>6. Bounded
  BY <1>1, AdaptersAssumption DEF Bounded
<1>. QED  BY <1>4, <1>5, <1>6 DEF GateInv

\* Steps that leave the run, its receipt and its history alone.
LEMMA GateSurroundings ==
    ASSUME GateInv, UNCHANGED <<run, receipt, witnessed, codes>>,
           repository' \in Gate!Repositories, changes' \in 0 .. MaxChanges,
           verifying' \in BOOLEAN, code' \in Gate!ExitCodes
    PROVE  GateInv'
<1>1. GateTyped'
  BY DEF GateInv, GateTyped
<1>2. Progress'
  BY DEF GateInv, Progress, Undisturbed, EndedBySetup, EndedByGate, Classified, AllStand, AllPassed,
         AllZero, Gate!Stands
<1>3. Receipted'
  BY DEF GateInv, Receipted, Classified, AllStand, AllPassed, AllZero, Gate!Stands
<1>4. Bounded'
  BY DEF GateInv, Bounded
<1>. QED  BY <1>1, <1>2, <1>3, <1>4 DEF GateInv

LEMMA TreeKeepsCode ==
    ASSUME code \in Gate!ExitCodes,
           \/ Gate!Spawn \/ Gate!SpawnNothing \/ Gate!ForgetTree
           \/ \E signal \in {"SIGTERM", "SIGKILL"} : Gate!Signal(signal)
           \/ \E member \in Gate!Members : Gate!Exit(member)
           \/ UNCHANGED Gate!tree
    PROVE  code' \in Gate!ExitCodes
BY DEF Gate!Spawn, Gate!SpawnNothing, Gate!ForgetTree, Gate!Signal, Gate!Exit, Gate!tree,
       Gate!ExitCodes

LEMMA GateSurroundingSteps ==
    ASSUME GateInv,
           \/ Gate!Timeout \/ Gate!Abort \/ Gate!ForceStop \/ Gate!OnError
           \/ Gate!ChangeRepository \/ Gate!MoveSession \/ Gate!EndMember
    PROVE  GateInv'
<1>1. /\ repository \in Gate!Repositories /\ changes \in 0 .. MaxChanges /\ verifying \in BOOLEAN
      /\ code \in Gate!ExitCodes
  BY DEF GateInv, GateTyped
<1>2. CASE Gate!Timeout \/ Gate!Abort \/ Gate!ForceStop \/ Gate!OnError \/ Gate!EndMember
  <2>1. /\ UNCHANGED <<repository, changes, verifying, run, receipt, witnessed, codes>>
        /\ \/ \E signal \in {"SIGTERM", "SIGKILL"} : Gate!Signal(signal)
           \/ \E member \in Gate!Members : Gate!Exit(member)
           \/ UNCHANGED Gate!tree
    BY <1>2 DEF Gate!Timeout, Gate!Abort, Gate!Terminate, Gate!ForceStop, Gate!OnError,
                Gate!EndMember
  <2>2. code' \in Gate!ExitCodes
    BY <1>1, <2>1, TreeKeepsCode
  <2>. QED  BY <1>1, <2>1, <2>2, GateSurroundings
<1>3. CASE Gate!ChangeRepository
  <2>1. /\ UNCHANGED <<run, receipt, witnessed, codes, verifying, code>>
        /\ repository' \in Gate!Repositories
        /\ changes < MaxChanges /\ changes' = changes + 1
    BY <1>3 DEF Gate!ChangeRepository, Gate!tree
  <2>2. changes' \in 0 .. MaxChanges
    BY <1>1, <2>1, AdaptersAssumption
  <2>. QED  BY <1>1, <2>1, <2>2, GateSurroundings
<1>4. CASE Gate!MoveSession
  <2>1. /\ UNCHANGED <<run, receipt, witnessed, codes, repository, changes, code>>
        /\ verifying' \in BOOLEAN
    BY <1>4 DEF Gate!MoveSession, Gate!tree
  <2>. QED  BY <1>1, <2>1, GateSurroundings
<1>. QED  BY <1>2, <1>3, <1>4

\* What a step that changes the run shows of its types.
LEMMA RunFields ==
    ASSUME run \in RunState
    PROVE  /\ run.before \in Observations /\ run.observed \in Observations
           /\ run.steps \in Seq(Step) /\ Len(run.steps) \in Nat
           /\ DOMAIN run.steps = 1 .. Len(run.steps)
           /\ run.ended \in Gate!Results \cup {"none"} /\ run.gate \in Gate!Results \cup {"none"}
           /\ run.result \in Outcomes
<1>1. run.steps \in Seq(Step)
  BY DEF RunState
<1>2. Len(run.steps) \in Nat /\ DOMAIN run.steps = 1 .. Len(run.steps)
  BY <1>1
<1>. QED  BY <1>1, <1>2 DEF RunState

LEMMA PreflightStep ==
    ASSUME GateInv, Gate!Preflight \/ Gate!RefuseGate
    PROVE  GateInv'
<1>1. /\ GateTyped /\ Progress /\ run \in RunState /\ run.pc = "preflight"
      /\ run.steps = <<>> /\ run.gate = "none" /\ witnessed = <<>> /\ codes = <<>>
      /\ receipt.result = "none" /\ repository \in Gate!Repositories
      /\ UNCHANGED <<code, repository, changes, verifying, receipt, codes>>
  BY DEF GateInv, GateTyped, Progress, Gate!Preflight, Gate!RefuseGate, Gate!At, Gate!tree
<1>2. CASE Gate!Preflight
  <2>1. /\ repository.clean
        /\ witnessed' = Append(witnessed, repository)
        /\ run' = [run EXCEPT !.pc = "start", !.before = repository, !.observed = repository]
    BY <1>2 DEF Gate!Preflight, Gate!Observe
  <2>2. witnessed' = <<repository>> /\ witnessed' \in Seq(Gate!Repositories)
    BY <1>1, <2>1
  <2>3. repository \in Observations
    BY <1>1 DEF Observations
  <2>4. run' \in RunState
    BY <1>1, <2>1, <2>3 DEF RunState
  <2>5. /\ run'.pc = "start" /\ run'.before = repository /\ run'.observed = repository
        /\ run'.steps = <<>> /\ run'.gate = "none"
    BY <1>1, <2>1 DEF RunState
  <2>6. GateTyped'
    BY <1>1, <2>2, <2>4 DEF GateTyped
  <2>7. Undisturbed'
    <3>1. AllStand'
      BY <2>1, <2>2, <2>5 DEF AllStand
    <3>2. AllPassed'
      BY <2>5 DEF AllPassed
    <3>. QED  BY <1>1, <2>1, <2>5, <3>1, <3>2, AdaptersAssumption DEF Undisturbed
  <2>8. Progress'
    BY <1>1, <2>5, <2>7 DEF Progress, AllZero
  <2>9. Bounded'
    BY <1>1, <2>5, AdaptersAssumption DEF Bounded
  <2>. QED  BY <1>1, <2>6, <2>8, <2>9 DEF GateInv, Receipted
<1>3. CASE Gate!RefuseGate
  <2>1. run' = [run EXCEPT !.pc = "done"] /\ witnessed' = witnessed
    BY <1>3 DEF Gate!RefuseGate
  <2>2. run' \in RunState /\ run'.pc = "done" /\ run'.steps = run.steps
    BY <1>1, <2>1 DEF RunState
  <2>3. GateTyped'
    BY <1>1, <2>1, <2>2 DEF GateTyped
  <2>4. Bounded'
    BY <1>1, <2>2 DEF GateInv, Bounded
  <2>. QED  BY <1>1, <2>2, <2>3, <2>4 DEF GateInv, Progress, Receipted
<1>. QED  BY <1>2, <1>3

LEMMA StartCommandStep ==
    ASSUME GateInv, Gate!StartCommand
    PROVE  GateInv'
<1>1. /\ GateTyped /\ Progress /\ run \in RunState /\ run.pc = "start"
      /\ run' = [run EXCEPT !.pc = "running"]
      /\ UNCHANGED <<repository, changes, verifying, receipt, witnessed, codes>>
      /\ code \in Gate!ExitCodes
  BY DEF GateInv, GateTyped, Gate!StartCommand, Gate!At
<1>2. code' \in Gate!ExitCodes
  BY <1>1, TreeKeepsCode DEF Gate!StartCommand
<1>3. /\ run' \in RunState /\ run'.pc = "running"
      /\ run'.before = run.before /\ run'.observed = run.observed /\ run'.steps = run.steps
      /\ run'.gate = run.gate
  BY <1>1 DEF RunState
<1>4. GateTyped'
  BY <1>1, <1>2, <1>3 DEF GateTyped
<1>5. Undisturbed' /\ AllZero' /\ Len(codes') = Len(run'.steps)
  BY <1>1, <1>3 DEF Progress, Undisturbed, AllStand, AllPassed, AllZero
<1>6. receipt.result = "none"
  BY <1>1 DEF Progress
<1>7. Bounded'
  BY <1>1, <1>3 DEF GateInv, Bounded
<1>. QED  BY <1>1, <1>3, <1>4, <1>5, <1>6, <1>7 DEF GateInv, Progress, Receipted

LEMMA CloseStep ==
    ASSUME GateInv, Gate!OnClose
    PROVE  GateInv'
<1>1. /\ GateTyped /\ Progress /\ run \in RunState /\ run.pc = "running"
      /\ codes' = Append(codes, code) /\ codes \in Seq(Gate!ExitCodes)
      /\ UNCHANGED <<code, repository, changes, verifying, receipt, witnessed>>
      /\ code \in Gate!ExitCodes
  BY DEF GateInv, GateTyped, Gate!OnClose, Gate!At, Gate!tree
<1>2. PICK streamed \in BOOLEAN :
        run' = [run EXCEPT !.pc = "observe", !.ended = Gate!ProcessResult(command, code, streamed)]
  BY DEF Gate!OnClose
<1>. DEFINE ended == Gate!ProcessResult(command, code, streamed)
<1>3. ended \in Gate!Results /\ ended # "none" /\ (ended = "passed" => code = "zero")
  BY DEF Gate!ProcessResult, Gate!Results
<1>4. run' = [run EXCEPT !.pc = "observe", !.ended = ended]
  BY <1>2
<1>. HIDE DEF ended
<1>5. /\ run' \in RunState /\ run'.pc = "observe" /\ run'.ended = ended
      /\ run'.before = run.before /\ run'.observed = run.observed /\ run'.steps = run.steps
      /\ run'.gate = run.gate
  BY <1>1, <1>3, <1>4 DEF RunState
<1>6. /\ codes' \in Seq(Gate!ExitCodes) /\ Len(codes') = Len(codes) + 1
      /\ DOMAIN codes' = 1 .. Len(codes) + 1 /\ DOMAIN codes = 1 .. Len(codes)
      /\ codes'[Len(codes')] = code
      /\ \A i \in 1 .. Len(codes) : codes'[i] = codes[i]
      /\ Len(codes) \in Nat
  BY <1>1
<1>7. GateTyped'
  BY <1>1, <1>5, <1>6 DEF GateTyped
<1>8. Undisturbed /\ AllZero /\ Len(codes) = Len(run.steps)
  BY <1>1 DEF Progress
<1>9. Undisturbed'
  BY <1>1, <1>5, <1>8 DEF Undisturbed, AllStand, AllPassed
<1>10. \A i \in DOMAIN codes' : i < Len(codes') => codes'[i] = "zero"
  BY <1>6, <1>8 DEF AllZero
<1>11. receipt.result = "none"
  BY <1>1 DEF Progress
<1>12. Len(codes') = Len(run'.steps) + 1
  BY <1>5, <1>6, <1>8
<1>13. run'.ended # "none" /\ (run'.ended = "passed" => codes'[Len(codes')] = "zero")
  BY <1>3, <1>5, <1>6
<1>14. Progress'
  BY <1>1, <1>5, <1>9, <1>10, <1>11, <1>12, <1>13 DEF Progress
<1>15. Bounded'
  BY <1>5, <1>6, <1>8, <1>9, AdaptersAssumption DEF Bounded, Undisturbed
<1>. QED  BY <1>1, <1>7, <1>11, <1>14, <1>15 DEF GateInv, Receipted

\* An observation that was made and stands keeps all of them standing.
LEMMA OneMoreObservation ==
    ASSUME witnessed \in Seq(Gate!Repositories), repository \in Gate!Repositories,
           NEW after \in {repository, NoObservation},
           witnessed' = Append(witnessed, repository), run'.before = run.before
    PROVE  /\ witnessed' \in Seq(Gate!Repositories) /\ after \in Observations
           /\ AllStand /\ after # NoObservation /\ after.clean /\ after.head = run.before.head
              => AllStand'
<1>1. witnessed' \in Seq(Gate!Repositories) /\ after \in Observations
  BY DEF Observations
<1>2. ASSUME AllStand, after # NoObservation, after.clean, after.head = run.before.head
      PROVE  AllStand'
  <2>1. after = repository
    BY <1>2
  <2>2. ASSUME NEW i \in DOMAIN witnessed'
        PROVE  \/ witnessed'[i] = repository
               \/ i \in DOMAIN witnessed /\ witnessed'[i] = witnessed[i]
    OBVIOUS
  <2>. QED  BY <1>2, <2>1, <2>2 DEF AllStand
<1>. QED  BY <1>1, <1>2

LEMMA ObserveSetupStep ==
    ASSUME GateInv, Gate!ObserveSetup
    PROVE  GateInv'
<1>1. /\ GateTyped /\ Progress /\ run \in RunState /\ run.pc = "observe"
      /\ Len(run.steps) # SetupSteps
      /\ UNCHANGED <<repository, changes, verifying, receipt, codes>>
      /\ repository \in Gate!Repositories
      /\ witnessed \in Seq(Gate!Repositories)
  BY DEF GateInv, GateTyped, Gate!ObserveSetup, Gate!At, Gate!OfGate
<1>2. PICK after \in {repository, NoObservation} :
        /\ Gate!Observe(after)
        /\ run' = [run EXCEPT
               !.pc = IF Gate!MayContinue(run.ended, run.observed, after)
                      THEN "start" ELSE "conclude",
               !.steps = Append(@, [result |-> run.ended, before |-> run.observed,
                                    after |-> after]),
               !.observed = after]
  BY DEF Gate!ObserveSetup
<1>. DEFINE pc == IF Gate!MayContinue(run.ended, run.observed, after) THEN "start" ELSE "conclude"
            step == [result |-> run.ended, before |-> run.observed, after |-> after]
<1>3. /\ Undisturbed
      /\ run.ended # "none" /\ Len(codes) = Len(run.steps) + 1
      /\ \A i \in DOMAIN codes : i < Len(codes) => codes[i] = "zero"
      /\ run.ended = "passed" => codes[Len(codes)] = "zero"
      /\ receipt.result = "none"
  BY <1>1 DEF Progress
<1>4. code' \in Gate!ExitCodes
  BY TreeKeepsCode DEF Gate!ObserveSetup, GateInv, GateTyped
<1>5. step \in Step
  <2>1. after \in Observations
    BY <1>1 DEF Observations
  <2>. QED  BY <1>1, <1>3, <2>1, RunFields DEF Step
<1>6. /\ run' \in RunState /\ run'.pc = pc
      /\ run'.before = run.before /\ run'.observed = after
      /\ run'.steps = Append(run.steps, step)
      /\ run'.gate = run.gate
  <2>1. Append(run.steps, step) \in Seq(Step)
    BY <1>1, <1>5, RunFields
  <2>2. after \in Observations /\ pc \in {"start", "conclude"}
    BY <1>1 DEF Observations
  <2>3. run' = [run EXCEPT !.pc = pc, !.steps = Append(run.steps, step), !.observed = after]
    BY <1>1, <1>2 DEF RunState
  <2>. HIDE DEF pc, step
  <2>. QED  BY <1>1, <2>1, <2>2, <2>3 DEF RunState
<1>7. step.result = run.ended
  OBVIOUS
<1>8. (pc = "start") = Gate!MayContinue(run.ended, run.observed, after)
  BY DEF Gate!MayContinue
<1>9. pc \in {"start", "conclude"}
  OBVIOUS
<1>. HIDE DEF pc, step
<1>10. /\ Len(run'.steps) = Len(run.steps) + 1 /\ Len(run.steps) \in Nat
       /\ DOMAIN run'.steps = 1 .. Len(run.steps) + 1
       /\ DOMAIN run.steps = 1 .. Len(run.steps)
       /\ \A i \in 1 .. Len(run.steps) : run'.steps[i] = run.steps[i]
       /\ run'.steps[Len(run.steps) + 1] = step
  BY <1>1, <1>5, <1>6, RunFields
<1>11. witnessed' \in Seq(Gate!Repositories)
  BY <1>1, <1>2, <1>6, OneMoreObservation DEF Gate!Observe
<1>12. AllStand /\ after # NoObservation /\ after.clean /\ after.head = run.before.head => AllStand'
  BY <1>1, <1>2, <1>6, OneMoreObservation DEF Gate!Observe
<1>13. GateTyped'
  BY <1>1, <1>4, <1>6, <1>11 DEF GateTyped
<1>14. Len(run'.steps) \in 1 .. SetupSteps /\ Len(codes') = Len(run'.steps)
  BY <1>1, <1>3, <1>10, AdaptersAssumption DEF Undisturbed
<1>15. \A i \in DOMAIN run'.steps : i < Len(run'.steps) => run'.steps[i].result = "passed"
  BY <1>3, <1>10 DEF Undisturbed, AllPassed
<1>16. Bounded'
  BY <1>14, AdaptersAssumption DEF Bounded
<1>17. CASE pc = "start"
  <2>1. run.ended = "passed" /\ after # NoObservation /\ after.clean
        /\ after.head = run.before.head
    BY <1>3, <1>8, <1>17 DEF Gate!MayContinue, Undisturbed
  <2>2. AllPassed'
    BY <1>7, <1>10, <1>15, <2>1 DEF AllPassed
  <2>3. Undisturbed'
    BY <1>3, <1>6, <1>12, <1>14, <2>1, <2>2, AdaptersAssumption DEF Undisturbed
  <2>4. AllZero'
    <3>1. DOMAIN codes = 1 .. Len(codes) /\ Len(codes) \in Nat
      BY DEF GateInv, GateTyped
    <3>2. \A i \in DOMAIN codes : codes[i] = "zero"
      BY <1>3, <2>1, <3>1
    <3>. QED  BY <1>1, <3>2 DEF AllZero
  <2>5. Progress'
    BY <1>1, <1>3, <1>6, <1>14, <1>17, <2>3, <2>4 DEF Progress
  <2>. QED  BY <1>1, <1>3, <1>13, <1>16, <2>5 DEF GateInv, Receipted
<1>18. CASE pc = "conclude"
  <2>1. ~Gate!MayContinue(run.ended, run.observed, after)
    BY <1>8, <1>18
  <2>2. Gate!Stands(run.observed)'
           => after # NoObservation /\ after.clean /\ after.head = run.before.head
    BY <1>6 DEF Gate!Stands
  <2>3. AllPassed' => run.ended = "passed"
    BY <1>7, <1>10 DEF AllPassed
  <2>4. AllPassed' => ~Gate!Stands(run.observed)'
    BY <1>3, <2>1, <2>2, <2>3 DEF Gate!MayContinue, Undisturbed
  <2>5. EndedBySetup'
    BY <1>3, <1>6, <1>14, <1>15, <2>4 DEF EndedBySetup, Undisturbed
  <2>6. Gate!Stands(run.observed)' => AllStand'
    BY <1>3, <1>12, <2>2 DEF Undisturbed
  <2>7. run'.before \in Gate!Repositories
    BY <1>3, <1>6 DEF Undisturbed
  <2>8. Progress'
    BY <1>1, <1>3, <1>6, <1>18, <2>5, <2>6, <2>7 DEF Progress
  <2>. QED  BY <1>1, <1>3, <1>13, <1>16, <2>8 DEF GateInv, Receipted
<1>. QED  BY <1>9, <1>17, <1>18

LEMMA ObserveGateStep ==
    ASSUME GateInv, Gate!ObserveGate
    PROVE  GateInv'
<1>1. /\ GateTyped /\ Progress /\ run \in RunState /\ run.pc = "observe"
      /\ Len(run.steps) = SetupSteps
      /\ UNCHANGED <<repository, changes, verifying, receipt, codes>>
      /\ repository \in Gate!Repositories
      /\ witnessed \in Seq(Gate!Repositories) /\ codes \in Seq(Gate!ExitCodes)
  BY DEF GateInv, GateTyped, Gate!ObserveGate, Gate!At, Gate!OfGate
<1>2. PICK after \in {repository, NoObservation} :
        /\ Gate!Observe(after)
        /\ run' = [run EXCEPT !.pc = "conclude", !.gate = run.ended, !.observed = after]
  BY DEF Gate!ObserveGate
<1>3. /\ Undisturbed
      /\ run.ended # "none" /\ Len(codes) = Len(run.steps) + 1
      /\ \A i \in DOMAIN codes : i < Len(codes) => codes[i] = "zero"
      /\ run.ended = "passed" => codes[Len(codes)] = "zero"
      /\ receipt.result = "none"
  BY <1>1 DEF Progress
<1>4. code' \in Gate!ExitCodes
  BY TreeKeepsCode DEF Gate!ObserveGate, GateInv, GateTyped
<1>5. /\ run' \in RunState /\ run'.pc = "conclude"
      /\ run'.before = run.before /\ run'.observed = after
      /\ run'.steps = run.steps /\ run'.gate = run.ended
  <2>1. after \in Observations
    BY <1>1 DEF Observations
  <2>. QED  BY <1>1, <1>2, <2>1 DEF RunState
<1>6. /\ witnessed' \in Seq(Gate!Repositories)
      /\ AllStand /\ after # NoObservation /\ after.clean /\ after.head = run.before.head
         => AllStand'
  BY <1>1, <1>2, <1>5, OneMoreObservation DEF Gate!Observe
<1>7. GateTyped'
  BY <1>1, <1>4, <1>5, <1>6 DEF GateTyped
<1>8. Gate!Stands(run.observed)'
         => after # NoObservation /\ after.clean /\ after.head = run.before.head
  BY <1>5 DEF Gate!Stands
<1>9. EndedByGate'
  <2>1. AllPassed'
    BY <1>3, <1>5 DEF Undisturbed, AllPassed
  <2>2. run.ended = "passed" => AllZero'
    <3>1. DOMAIN codes = 1 .. Len(codes) /\ Len(codes) \in Nat
      BY <1>1
    <3>. QED  BY <1>1, <1>3, <3>1 DEF AllZero
  <2>. QED  BY <1>1, <1>3, <1>5, <2>1, <2>2 DEF EndedByGate
<1>10. Gate!Stands(run.observed)' => AllStand'
  BY <1>3, <1>6, <1>8 DEF Undisturbed
<1>11. run'.before \in Gate!Repositories
  BY <1>3, <1>5 DEF Undisturbed
<1>12. Progress'
  BY <1>1, <1>3, <1>5, <1>9, <1>10, <1>11 DEF Progress
<1>13. Bounded'
  BY <1>1, <1>5, <1>9 DEF GateInv, Bounded, EndedByGate
<1>. QED  BY <1>1, <1>3, <1>7, <1>12, <1>13 DEF GateInv, Receipted

LEMMA ConcludeStep ==
    ASSUME GateInv, Gate!Conclude
    PROVE  GateInv'
<1>1. /\ GateTyped /\ Progress /\ run \in RunState /\ run.pc = "conclude"
      /\ UNCHANGED <<code, repository, changes, verifying, receipt, codes>>
      /\ repository \in Gate!Repositories
      /\ witnessed \in Seq(Gate!Repositories)
  BY DEF GateInv, GateTyped, Gate!Conclude, Gate!At, Gate!tree
<1>2. PICK after \in {repository, NoObservation} :
        /\ Gate!Observe(after)
        /\ LET invalidated ==
                  \/ ~Gate!Stands(after)
                  \/ Gate!ExecutionWasInvalidated
                  \/ after.onBranch # run.before.onBranch
           IN  run' = [run EXCEPT !.pc = "record", !.result = Gate!Outcome(invalidated),
                                     !.observed = after]
  BY DEF Gate!Conclude
<1>. DEFINE invalidated ==
                  \/ ~Gate!Stands(after)
                  \/ Gate!ExecutionWasInvalidated
                  \/ after.onBranch # run.before.onBranch
            result == Gate!Outcome(invalidated)
<1>3. /\ run.before \in Gate!Repositories
      /\ Gate!Stands(run.observed) => AllStand
      /\ EndedBySetup \/ EndedByGate
      /\ receipt.result = "none"
  BY <1>1 DEF Progress
<1>4. ~invalidated => Gate!Stands(after) /\ Gate!Stands(run.observed)
  BY DEF Gate!ExecutionWasInvalidated
<1>5. /\ invalidated => result = "invalidated"
      /\ ~invalidated /\ ~AllPassed => result = "setup_failed"
      /\ ~invalidated /\ AllPassed =>
            result = IF run.gate = "none" THEN "execution_error" ELSE run.gate
  BY DEF Gate!Outcome, AllPassed
<1>6. result \in Outcomes /\ result # "none"
  BY <1>1, <1>5, RunFields DEF Outcomes, Gate!Results
<1>7. run' = [run EXCEPT !.pc = "record", !.result = result, !.observed = after]
  BY <1>2
<1>. HIDE DEF invalidated, result
<1>8. /\ run' \in RunState /\ run'.pc = "record"
      /\ run'.before = run.before /\ run'.observed = after
      /\ run'.steps = run.steps /\ run'.gate = run.gate /\ run'.result = result
  <2>1. after \in Observations
    BY <1>1 DEF Observations
  <2>. QED  BY <1>1, <1>6, <1>7, <2>1 DEF RunState
<1>9. /\ witnessed' \in Seq(Gate!Repositories)
      /\ AllStand /\ after # NoObservation /\ after.clean /\ after.head = run.before.head
         => AllStand'
  BY <1>1, <1>2, <1>8, OneMoreObservation DEF Gate!Observe
<1>10. GateTyped'
  BY <1>1, <1>8, <1>9 DEF GateTyped
<1>11. (AllPassed' <=> AllPassed) /\ (AllZero' <=> AllZero)
  BY <1>1, <1>8 DEF AllPassed, AllZero
<1>12. Gate!Stands(after) => Gate!Stands(run.observed)'
  BY <1>8 DEF Gate!Stands
<1>13. ~invalidated /\ AllPassed => EndedByGate
  BY <1>3, <1>4 DEF EndedBySetup
<1>14. Classified'
  <2>1. Len(run.steps) <= SetupSteps
    BY <1>1, <1>3, RunFields, AdaptersAssumption DEF EndedBySetup, EndedByGate
  <2>2. \A i \in DOMAIN run.steps : i < Len(run.steps) => run.steps[i].result = "passed"
    BY <1>3 DEF EndedBySetup, EndedByGate, AllPassed
  <2>3. ASSUME result = "passed"
        PROVE  Len(codes') = SetupSteps + 1 /\ AllZero' /\ AllStand' /\ Gate!Stands(run.observed)'
    <3>1. ~invalidated /\ AllPassed /\ EndedByGate
      BY <1>5, <1>13, <2>3
    <3>2. run.gate = "passed"
      BY <1>5, <2>3, <3>1
    <3>3. AllStand'
      BY <1>3, <1>4, <1>9, <3>1 DEF Gate!Stands
    <3>. QED  BY <1>1, <1>4, <1>11, <1>12, <3>1, <3>2, <3>3 DEF EndedByGate
  <2>4. ASSUME result = "setup_failed"
        PROVE  Len(codes') = Len(run.steps) /\ Len(run.steps) \in 1 .. SetupSteps /\ ~AllPassed'
    <3>1. ~AllPassed
      <4>1. run.gate # "setup_failed"
        BY <1>1, RunFields DEF Gate!Results
      <4>. QED  BY <1>5, <2>4, <4>1
    <3>. QED  BY <1>1, <1>3, <1>11, <3>1 DEF EndedBySetup, EndedByGate
  <2>5. ASSUME result \notin {"setup_failed", "invalidated"}
        PROVE  Len(run.steps) = SetupSteps /\ AllPassed'
    BY <1>5, <1>11, <1>13, <2>5 DEF EndedByGate
  <2>. QED  BY <1>3, <1>6, <1>8, <2>1, <2>2, <2>3, <2>4, <2>5 DEF Classified
<1>15. Progress'
  BY <1>1, <1>3, <1>8, <1>14 DEF Progress
<1>16. Bounded'
  BY <1>1, <1>8 DEF GateInv, Bounded
<1>. QED  BY <1>1, <1>3, <1>10, <1>15, <1>16 DEF GateInv, Receipted

LEMMA FunctionIsSequence ==
    ASSUME NEW S, NEW n \in Nat, NEW f \in [1 .. n -> S]
    PROVE  f \in Seq(S) /\ Len(f) = n
OBVIOUS

LEMMA RecordStep ==
    ASSUME GateInv, Gate!Record
    PROVE  GateInv'
<1>1. /\ GateTyped /\ Progress /\ run \in RunState /\ run.pc = "record"
      /\ run' = [run EXCEPT !.pc = "done"]
      /\ UNCHANGED <<code, repository, changes, verifying, witnessed, codes>>
      /\ Classified /\ receipt \in Receipt /\ receipt.result = "none"
  BY DEF GateInv, GateTyped, Progress, Gate!Record, Gate!At, Gate!tree
<1>2. /\ run' \in RunState /\ run'.pc = "done"
      /\ run'.before = run.before /\ run'.observed = run.observed
      /\ run'.steps = run.steps /\ run'.result = run.result
  BY <1>1 DEF RunState
<1>3. Classified'
  BY <1>1, <1>2 DEF Classified, AllPassed, AllStand, AllZero, Gate!Stands
<1>. DEFINE after == IF run.observed = NoObservation
                     THEN [run.before EXCEPT !.clean = FALSE] ELSE run.observed
            setup == [i \in DOMAIN run.steps |-> run.steps[i].result]
            recorded == [result |-> run.result, head |-> run.before.head,
                         after |-> after.head, clean |-> after.clean, setup |-> setup]
<1>4. receipt' = IF verifying THEN recorded ELSE receipt
  BY DEF Gate!Record
<1>5. /\ run.before.head \in 0 .. 2 /\ after.head \in 0 .. 2 /\ after.clean \in BOOLEAN
  <2>1. run.before \in Gate!Repositories /\ run.observed \in Observations
    BY <1>1, RunFields DEF Classified
  <2>2. [run.before EXCEPT !.clean = FALSE] \in Gate!Repositories
    BY <2>1 DEF Gate!Repositories
  <2>3. after \in Gate!Repositories
    BY <2>1, <2>2 DEF Observations
  <2>4. \A r \in Gate!Repositories : r.head \in 0 .. 2 /\ r.clean \in BOOLEAN
    BY DEF Gate!Repositories
  <2>. HIDE DEF after
  <2>. QED  BY <2>1, <2>3, <2>4
<1>6. setup \in Seq(Gate!Results)
  <2>1. \A i \in 1 .. Len(run.steps) : run.steps[i] \in Step
    BY <1>1, RunFields
  <2>2. setup \in [1 .. Len(run.steps) -> Gate!Results]
    BY <1>1, <2>1, RunFields DEF Step
  <2>. HIDE DEF setup
  <2>. QED  BY <1>1, <2>2, FunctionIsSequence, RunFields
<1>7. Gate!Stands(run.observed) => after = run.observed
  BY DEF Gate!Stands
<1>8. recorded \in Receipt
  <2>1. run.result \in Outcomes
    BY <1>1, RunFields
  <2>. HIDE DEF after, setup
  <2>. QED  BY <1>5, <1>6, <2>1 DEF Receipt
<1>9. /\ recorded.result = run.result /\ recorded.head = run.before.head
      /\ recorded.after = after.head /\ recorded.clean = after.clean /\ recorded.setup = setup
  OBVIOUS
<1>10. setup' = setup /\ (Gate!Stands(run.observed)' => Gate!Stands(run.observed))
  BY <1>2 DEF Gate!Stands
<1>. HIDE DEF recorded, after
<1>11. GateTyped'
  BY <1>1, <1>2, <1>4, <1>8 DEF GateTyped
<1>12. Receipted'
  BY <1>1, <1>2, <1>3, <1>4, <1>7, <1>9, <1>10 DEF Receipted
<1>13. Bounded'
  BY <1>1, <1>2 DEF GateInv, Bounded
<1>. QED  BY <1>2, <1>11, <1>12, <1>13 DEF GateInv, Progress

LEMMA GateNext == GateInv /\ Gate!Next => GateInv'
BY GateSurroundingSteps, PreflightStep, StartCommandStep, CloseStep, ObserveSetupStep,
   ObserveGateStep, ConcludeStep, RecordStep DEF Gate!Next
-----------------------------------------------------------------------------
\* The process of the GAAP executor.

LEMMA GaapInit == Gaap!Init => GaapInv
<1>. SUFFICES ASSUME Gaap!Init PROVE GaapInv
  OBVIOUS
<1>1. /\ alive = {} /\ immune = FALSE /\ code = "none"
      /\ traits = [stubborn |-> {}, holding |-> {}, outside |-> {}]
      /\ runner = [pc |-> "idle", status |-> "ok", delivered |-> FALSE, exited |-> FALSE,
                   uncleaned |-> FALSE, force |-> "unset", drain |-> FALSE]
  BY DEF Gaap!Init, Gaap!NoTree, Gaap!NoTraits, Gaap!Unset
<1>2. traits \in Gaap!Traits
  BY <1>1 DEF Gaap!Traits
<1>3. runner \in RunnerState
  BY <1>1 DEF RunnerState, Gaap!Statuses
<1>4. Gaap!TypeOK
  BY <1>1, <1>2, <1>3 DEF Gaap!TypeOK, Gaap!ExitCodes, RunnerState
<1>. QED  BY <1>1, <1>4 DEF GaapInv, StoppedUnlessReported, Gaap!StoppedUnlessReported

\* A signal ends only members of the group, all of them when SIGKILL succeeds.
LEMMA SignalStep ==
    ASSUME Gaap!TypeOK, NEW signal \in {"SIGTERM", "SIGKILL"}, Gaap!Signal(signal)
    PROVE  /\ alive' \subseteq alive /\ traits' = traits /\ immune' = immune
           /\ code' \in Gaap!ExitCodes
           /\ signal = "SIGKILL" /\ Gaap!SignalSucceeds => (Gaap!Group)' = {}
BY DEF Gaap!TypeOK, Gaap!Signal, Gaap!Survivors, Gaap!SignalSucceeds, Gaap!Group, Gaap!ExitCodes

\* What the steps of a runner that waits have in common.
LEMMA WaitingStep ==
    ASSUME GaapInv, runner.pc = "waiting",
           alive' \subseteq alive, traits' = traits, immune' \in BOOLEAN,
           code' \in Gaap!ExitCodes, runner' \in RunnerState, runner'.pc # "idle",
           runner'.exited /\ ~runner'.uncleaned =>
               (runner.exited /\ ~runner.uncleaned) \/ (Gaap!Group)' = {},
           runner'.pc = "finished" /\ runner'.status # "cleanup_failed" =>
               runner.exited /\ ~runner.uncleaned
    PROVE  GaapInv'
<1>1. Gaap!TypeOK'
  BY DEF GaapInv, Gaap!TypeOK, RunnerState
<1>2. Gaap!Group = {} => (Gaap!Group)' = {}
  BY DEF Gaap!Group
<1>. QED  BY <1>1, <1>2 DEF GaapInv, StoppedUnlessReported, Gaap!StoppedUnlessReported

LEMMA GaapNext == GaapInv /\ Gaap!Next => GaapInv'
<1>. SUFFICES ASSUME GaapInv, Gaap!Next PROVE GaapInv'
  OBVIOUS
<1>1. /\ Gaap!TypeOK /\ runner \in RunnerState
      /\ alive \subseteq Gaap!Members /\ traits \in Gaap!Traits /\ immune \in BOOLEAN
      /\ code \in Gaap!ExitCodes
  BY DEF GaapInv, Gaap!TypeOK, RunnerState
<1>2. CASE Gaap!RefuseLaunch
  <2>1. PICK status \in {"cancelled", "timeout", "spawn_failed"} :
           runner' = [runner EXCEPT !.pc = "finished", !.status = status]
    BY <1>2 DEF Gaap!RefuseLaunch
  <2>2. runner.pc = "idle" /\ UNCHANGED <<alive, traits, immune, code>>
    BY <1>2 DEF Gaap!RefuseLaunch, Gaap!tree
  <2>3. runner' \in RunnerState /\ runner'.pc = "finished" /\ runner'.exited = runner.exited
    BY <1>1, <2>1 DEF RunnerState, Gaap!Statuses
  <2>4. Gaap!TypeOK'
    BY <1>1, <2>2, <2>3 DEF Gaap!TypeOK, RunnerState
  <2>. QED  BY <2>2, <2>3, <2>4
            DEF GaapInv, Gaap!Group, StoppedUnlessReported, Gaap!StoppedUnlessReported
<1>3. CASE Gaap!Launch
  <2>1. /\ runner.pc = "idle" /\ runner' = [runner EXCEPT !.pc = "waiting"]
        /\ Gaap!Spawn \/ Gaap!SpawnNothing
    BY <1>3 DEF Gaap!Launch
  <2>2. /\ runner' \in RunnerState /\ runner'.pc = "waiting" /\ runner'.exited = runner.exited
    BY <1>1, <2>1 DEF RunnerState
  <2>3. alive' \subseteq Gaap!Members /\ immune' \in BOOLEAN /\ code' \in Gaap!ExitCodes
    BY <2>1 DEF Gaap!Spawn, Gaap!SpawnNothing, Gaap!ForgetTree, Gaap!Members, Gaap!ExitCodes
  <2>4. traits' \in Gaap!Traits
    <3>1. CASE Gaap!Spawn
      <4>1. alive' \ {"leader"} \subseteq {"descendant"}
        BY <2>3 DEF Gaap!Members
      <4>2. traits' \in [stubborn : SUBSET alive', holding : SUBSET (alive' \ {"leader"}),
                         outside : SUBSET (alive' \ {"leader"})]
        BY <3>1 DEF Gaap!Spawn
      <4>. QED  BY <2>3, <4>1, <4>2 DEF Gaap!Traits
    <3>2. CASE Gaap!SpawnNothing
      BY <3>2 DEF Gaap!SpawnNothing, Gaap!ForgetTree, Gaap!NoTraits, Gaap!Traits
    <3>. QED  BY <2>1, <3>1, <3>2
  <2>5. Gaap!TypeOK'
    BY <2>2, <2>3, <2>4 DEF Gaap!TypeOK, RunnerState
  <2>6. ~runner.exited
    BY <2>1 DEF GaapInv
  <2>. QED  BY <2>2, <2>5, <2>6 DEF GaapInv, StoppedUnlessReported, Gaap!StoppedUnlessReported
<1>4. CASE Gaap!Deliver
  <2>1. /\ runner.pc = "waiting" /\ runner' = [runner EXCEPT !.delivered = TRUE]
        /\ UNCHANGED <<alive, traits, immune, code>>
    BY <1>4 DEF Gaap!Deliver, Gaap!Waiting, Gaap!tree
  <2>2. /\ runner' \in RunnerState /\ runner'.pc = "waiting"
        /\ runner'.exited = runner.exited /\ runner'.uncleaned = runner.uncleaned
    BY <1>1, <2>1 DEF RunnerState
  <2>. QED  BY <1>1, <2>1, <2>2, WaitingStep
<1>5. ASSUME NEW reason \in {"timeout", "cancelled", "output_limit", "io_failed", "input_failed"},
             Gaap!Terminate(reason)
      PROVE  GaapInv'
  <2>. DEFINE status == IF runner.status = "ok" THEN reason ELSE runner.status
              uncleaned == runner.uncleaned \/ ~Gaap!SignalSucceeds
              force == IF runner.force = "unset" THEN "set" ELSE runner.force
  <2>1. /\ runner.pc = "waiting" /\ Gaap!Signal("SIGTERM")
        /\ runner' = [[runner EXCEPT !.status = status, !.uncleaned = uncleaned, !.force = force]
                         EXCEPT !.drain = TRUE]
    BY <1>1, <1>5 DEF Gaap!Terminate, Gaap!Waiting, Gaap!WithDrain, RunnerState
  <2>2. status \in Gaap!Statuses /\ force \in {"unset", "set", "fired"}
    BY <1>1 DEF RunnerState, Gaap!Statuses
  <2>3. uncleaned \in BOOLEAN /\ (runner.uncleaned => uncleaned)
    BY <1>1 DEF RunnerState
  <2>. HIDE DEF status, uncleaned, force
  <2>4. /\ runner' \in RunnerState /\ runner'.pc = "waiting"
        /\ runner'.exited = runner.exited /\ runner'.uncleaned = uncleaned
    BY <1>1, <2>1, <2>2, <2>3 DEF RunnerState
  <2>. QED  BY <1>1, <2>1, <2>3, <2>4, SignalStep, WaitingStep
<1>6. CASE Gaap!Timeout \/ Gaap!Interrupt
  BY <1>5, <1>6 DEF Gaap!Timeout, Gaap!Interrupt
<1>7. CASE Gaap!ForceStop
  <2>. DEFINE uncleaned == runner.uncleaned \/ ~Gaap!SignalSucceeds
  <2>1. /\ runner.pc = "waiting" /\ Gaap!Signal("SIGKILL")
        /\ runner' = [runner EXCEPT !.force = "fired", !.uncleaned = uncleaned]
    BY <1>1, <1>7 DEF Gaap!ForceStop, Gaap!Waiting, RunnerState
  <2>2. uncleaned \in BOOLEAN /\ (runner.uncleaned => uncleaned)
    BY <1>1 DEF RunnerState
  <2>. HIDE DEF uncleaned
  <2>3. /\ runner' \in RunnerState /\ runner'.pc = "waiting"
        /\ runner'.exited = runner.exited /\ runner'.uncleaned = uncleaned
    BY <1>1, <2>1, <2>2 DEF RunnerState
  <2>. QED  BY <1>1, <2>1, <2>2, <2>3, SignalStep, WaitingStep
<1>8. CASE Gaap!OnError
  <2>. DEFINE status == IF runner.status = "ok" THEN "spawn_failed" ELSE runner.status
  <2>1. /\ runner.pc = "waiting" /\ alive = {} /\ UNCHANGED <<alive, traits, immune, code>>
        /\ runner' = [[runner EXCEPT !.exited = TRUE, !.status = status] EXCEPT !.drain = TRUE]
    BY <1>1, <1>8 DEF Gaap!OnError, Gaap!Waiting, Gaap!WithDrain, Gaap!tree, RunnerState
  <2>2. status \in Gaap!Statuses
    BY <1>1 DEF RunnerState, Gaap!Statuses
  <2>. HIDE DEF status
  <2>3. runner' \in RunnerState /\ runner'.pc = "waiting"
    BY <1>1, <2>1, <2>2 DEF RunnerState
  <2>4. (Gaap!Group)' = {}
    BY <2>1 DEF Gaap!Group
  <2>. QED  BY <1>1, <2>1, <2>3, <2>4, WaitingStep
<1>9. CASE Gaap!OnExit
  <2>. DEFINE uncleaned == ~Gaap!SignalSucceeds
  <2>1. /\ runner.pc = "waiting" /\ Gaap!Signal("SIGKILL")
        /\ runner' = [[runner EXCEPT !.exited = TRUE, !.uncleaned = uncleaned]
                         EXCEPT !.drain = TRUE]
    BY <1>9 DEF Gaap!OnExit, Gaap!Waiting, Gaap!WithDrain, Gaap!StopDescendants
  <2>2. uncleaned \in BOOLEAN
    OBVIOUS
  <2>3. ~uncleaned => (Gaap!Group)' = {}
    BY <1>1, <2>1, SignalStep
  <2>. HIDE DEF uncleaned
  <2>4. runner' \in RunnerState /\ runner'.pc = "waiting" /\ runner'.uncleaned = uncleaned
    BY <1>1, <2>1, <2>2 DEF RunnerState
  <2>. QED  BY <1>1, <2>1, <2>3, <2>4, SignalStep, WaitingStep
<1>10. CASE Gaap!OnClose
  <2>. DEFINE status == Gaap!FinalStatus(runner, code)
  <2>1. /\ runner.pc = "waiting" /\ runner.exited /\ UNCHANGED <<alive, traits, immune, code>>
        /\ runner' = [runner EXCEPT !.pc = "finished", !.status = status]
    BY <1>10 DEF Gaap!OnClose, Gaap!Waiting, Gaap!Finished, Gaap!tree
  <2>2. /\ status \in Gaap!Statuses
        /\ runner.uncleaned => status = "cleanup_failed"
    BY <1>1 DEF Gaap!FinalStatus, RunnerState, Gaap!Statuses
  <2>. HIDE DEF status
  <2>3. /\ runner' \in RunnerState /\ runner'.pc = "finished" /\ runner'.status = status
        /\ runner'.exited = runner.exited /\ runner'.uncleaned = runner.uncleaned
    BY <1>1, <2>1, <2>2 DEF RunnerState
  <2>. QED  BY <1>1, <2>1, <2>2, <2>3, WaitingStep
<1>11. CASE Gaap!Drain
  <2>. DEFINE status == Gaap!FinalStatus(runner, code)
  <2>1. /\ runner.pc = "waiting" /\ Gaap!Signal("SIGKILL")
        /\ runner' = [[runner EXCEPT !.pc = "finished", !.status = status]
                         EXCEPT !.status = "cleanup_failed"]
    BY <1>11 DEF Gaap!Drain, Gaap!Waiting, Gaap!Finished
  <2>. HIDE DEF status
  <2>2. /\ runner' \in RunnerState /\ runner'.pc = "finished"
        /\ runner'.status = "cleanup_failed"
        /\ runner'.exited = runner.exited /\ runner'.uncleaned = runner.uncleaned
    BY <1>1, <2>1 DEF RunnerState, Gaap!Statuses
  <2>. QED  BY <1>1, <2>1, <2>2, SignalStep, WaitingStep
<1>12. CASE Gaap!World
  <2>1. /\ runner.pc # "idle" /\ runner' = runner /\ alive' \subseteq alive /\ traits' = traits
        /\ immune' \in BOOLEAN /\ code' \in Gaap!ExitCodes
    BY <1>1, <1>12 DEF Gaap!World, Gaap!Exit, Gaap!Settle, Gaap!ExitCodes
  <2>2. Gaap!TypeOK'
    BY <1>1, <2>1 DEF Gaap!TypeOK
  <2>3. Gaap!Group = {} => (Gaap!Group)' = {}
    BY <2>1 DEF Gaap!Group
  <2>. QED  BY <2>1, <2>2, <2>3 DEF GaapInv, StoppedUnlessReported, Gaap!StoppedUnlessReported
<1>. QED  BY <1>2, <1>3, <1>4, <1>6, <1>7, <1>8, <1>9, <1>10, <1>11, <1>12 DEF Gaap!Next
-----------------------------------------------------------------------------
\* Each adapter's steps are its own.
LEMMA AdaptersInvHolds == Spec => []AdaptersInv
<1>1. Init => AdaptersInv
  <2>1. Gate!Init => receipt.result = "none"
    BY DEF Gate!Init, Gate!NoReceipt
  <2>2. Gaap!Init => runner.pc = "idle"
    BY DEF Gaap!Init, Gaap!Unset
  <2>. QED  BY <2>1, <2>2, GateInit, GaapInit DEF Init, AdaptersInv
<1>2. AdaptersInv /\ [Next]_vars => AdaptersInv'
  <2>. SUFFICES ASSUME AdaptersInv, [Next]_vars PROVE AdaptersInv'
    OBVIOUS
  <2>1. CASE adapter = "gate" /\ Gate!Next /\ UNCHANGED <<adapter, runner>>
    BY <2>1, GateNext DEF AdaptersInv
  <2>2. CASE adapter = "gaap" /\ Gaap!Next /\ UNCHANGED <<adapter, gateOnly>>
    BY <2>2, GaapNext DEF AdaptersInv, gateOnly
  <2>3. CASE UNCHANGED vars
    <3>1. UNCHANGED <<adapter, alive, traits, immune, code, repository, changes, verifying, run,
                      receipt, witnessed, codes, runner>>
      BY <2>3 DEF vars, gateOnly
    <3>2. adapter = "gate" => GateInv'
      BY <3>1, GateSurroundings DEF AdaptersInv, GateInv, GateTyped
    <3>3. adapter = "gaap" => GaapInv'
      <4>1. GaapInv => GaapInv'
        BY <3>1 DEF GaapInv, Gaap!TypeOK, Gaap!Group, StoppedUnlessReported,
                    Gaap!StoppedUnlessReported
      <4>. QED  BY <4>1 DEF AdaptersInv
    <3>. QED  BY <3>1, <3>2, <3>3 DEF AdaptersInv
  <2>. QED  BY <2>1, <2>2, <2>3 DEF Next
<1>. QED  BY <1>1, <1>2, PTL DEF Spec

\* Both adapters keep their variables in shape; a gate runs no more commands than
\* are declared.
THEOREM AdaptersTypeCorrect == Spec => []TypeOK
<1>1. AdaptersInv => TypeOK
  <2>. SUFFICES ASSUME AdaptersInv PROVE TypeOK
    OBVIOUS
  <2>1. CASE adapter = "gate"
    <3>1. GateTyped /\ Bounded
      BY <2>1 DEF AdaptersInv, GateInv
    <3>2. run \in RunState /\ receipt \in Receipt
      BY <3>1 DEF GateTyped
    <3>3. /\ run.pc \in {"preflight", "start", "running", "observe", "conclude", "record", "done"}
          /\ run.ended \in Gate!Results \cup {"none"} /\ run.gate \in Gate!Results \cup {"none"}
      BY <3>2 DEF RunState
    <3>4. receipt.result \in Outcomes /\ receipt.head \in 0 .. 2 /\ receipt.after \in 0 .. 2
      BY <3>2 DEF Receipt
    <3>5. Gate!TypeOK
      BY <3>1, <3>3, <3>4 DEF Gate!TypeOK, GateTyped, Bounded, Outcomes
    <3>. QED  BY <2>1, <3>5 DEF TypeOK
  <2>2. CASE adapter = "gaap"
    BY <2>2 DEF AdaptersInv, GaapInv, TypeOK
  <2>. QED  BY <2>1, <2>2 DEF AdaptersInv
<1>. QED  BY <1>1, AdaptersInvHolds, PTL

\* A passed receipt was earned by every declared command on one clean commit, at
\* every instant at which the repository was observed.
THEOREM PassedMeansOneHead == Spec => []PassedReceiptDescribesOneHead
<1>1. AdaptersInv => PassedReceiptDescribesOneHead
  <2>. SUFFICES ASSUME AdaptersInv, receipt.result = "passed"
                PROVE  /\ Len(codes) = SetupSteps + 1
                       /\ \A i \in DOMAIN codes : codes[i] = "zero"
                       /\ \A i \in DOMAIN witnessed :
                             witnessed[i].clean /\ witnessed[i].head = receipt.head
    BY DEF PassedReceiptDescribesOneHead, Gate!PassedReceiptDescribesOneHead
  <2>1. Receipted
    BY DEF AdaptersInv, GateInv
  <2>2. Len(codes) = SetupSteps + 1 /\ AllZero /\ AllStand /\ receipt.head = run.before.head
    BY <2>1 DEF Receipted, Classified
  <2>. QED  BY <2>2 DEF AllZero, AllStand
<1>. QED  BY <1>1, AdaptersInvHolds, PTL

\* The evaluator takes every receipt the program writes for what it is.
THEOREM ReceiptsAreUnderstood == Spec => []ReceiptsAreAccepted
<1>1. AdaptersInv => ReceiptsAreAccepted
  <2>. SUFFICES ASSUME AdaptersInv, receipt.result # "none", NEW head \in {1, 2}
                PROVE  /\ Gate!EvaluateReceipt(head) # "corrupt"
                       /\ Gate!EvaluateReceipt(head) = "passed"
                             <=> receipt.result = "passed" /\ head = receipt.head
                       /\ Gate!EvaluateReceipt(head) = "setup_failed" =>
                             Len(codes) = Len(receipt.setup) /\ Len(codes) \in 1 .. SetupSteps
    BY DEF ReceiptsAreAccepted, Gate!ReceiptsAreAccepted
  <2>1. /\ Classified /\ GateTyped
        /\ receipt.result = run.result /\ receipt.head = run.before.head
        /\ receipt.setup = [i \in DOMAIN run.steps |-> run.steps[i].result]
        /\ Gate!Stands(run.observed) =>
              receipt.after = run.observed.head /\ receipt.clean = run.observed.clean
    BY DEF AdaptersInv, GateInv, Receipted
  <2>2. /\ run \in RunState /\ Len(run.steps) \in Nat /\ DOMAIN run.steps = 1 .. Len(run.steps)
        /\ receipt.setup \in Seq(Gate!Results)
    BY <2>1, RunFields DEF GateTyped, Receipt
  <2>3. DOMAIN receipt.setup = 1 .. Len(run.steps)
    BY <2>1, <2>2
  <2>4. Len(receipt.setup) = Len(run.steps)
    BY <2>2, <2>3
  <2>5. \A i \in 1 .. Len(run.steps) : receipt.setup[i] = run.steps[i].result
    BY <2>1, <2>2
  <2>6. ~Gate!RecordedSetupViolation(receipt.setup, receipt.result)
    <3>. DEFINE nonPassing == {i \in DOMAIN receipt.setup : receipt.setup[i] # "passed"}
    <3>1. nonPassing \subseteq {Len(receipt.setup)}
      BY <2>1, <2>2, <2>3, <2>4, <2>5 DEF Classified
    <3>2. AllPassed <=> nonPassing = {}
      BY <2>2, <2>3, <2>5 DEF AllPassed
    <3>3. Len(receipt.setup) <= SetupSteps
      BY <2>1, <2>4 DEF Classified
    <3>4. receipt.result = "setup_failed" => nonPassing # {}
      BY <2>1, <3>2 DEF Classified
    <3>5. receipt.result \notin {"setup_failed", "invalidated"}
            => Len(receipt.setup) = SetupSteps /\ nonPassing = {}
      BY <2>1, <2>4, <3>2 DEF Classified
    <3>6. Len(receipt.setup) \in Nat /\ SetupSteps \in Nat
      BY <2>2, <2>4, AdaptersAssumption
    <3>7. Gate!RecordedSetupViolation(receipt.setup, receipt.result) <=>
            LET commandRan == receipt.result \notin {"setup_failed", "invalidated", "aborted"}
            IN  \/ Len(receipt.setup) > SetupSteps
                \/ receipt.result = "setup_failed" /\ nonPassing = {}
                \/ commandRan /\ (Len(receipt.setup) # SetupSteps \/ nonPassing # {})
                \/ ~(nonPassing \subseteq {Len(receipt.setup)})
      BY DEF Gate!RecordedSetupViolation
    <3>. HIDE DEF nonPassing
    <3>. QED  BY <3>1, <3>3, <3>4, <3>5, <3>6, <3>7
  <2>7. receipt.result = "passed" =>
           receipt.after = receipt.head /\ receipt.clean
    BY <2>1 DEF Classified, Gate!Stands
  <2>8. Gate!EvaluateReceipt(head) = "setup_failed" => receipt.result = "setup_failed"
    BY <2>6 DEF Gate!EvaluateReceipt
  <2>9. receipt.result = "setup_failed" =>
           Len(codes) = Len(receipt.setup) /\ Len(codes) \in 1 .. SetupSteps
    BY <2>1, <2>4 DEF Classified
  <2>10. Gate!EvaluateReceipt(head) # "corrupt"
    BY <2>6 DEF Gate!EvaluateReceipt
  <2>11. Gate!EvaluateReceipt(head) = "passed"
            <=> receipt.result = "passed" /\ head = receipt.head
    BY <2>6, <2>7 DEF Gate!EvaluateReceipt
  <2>. QED  BY <2>8, <2>9, <2>10, <2>11
<1>. QED  BY <1>1, AdaptersInvHolds, PTL

\* What a finished executor process has left running in its group is reported.
THEOREM LeftoversAreReported == Spec => []StoppedUnlessReported
<1>1. AdaptersInv => StoppedUnlessReported
  BY DEF AdaptersInv, GaapInv, StoppedUnlessReported, Gaap!StoppedUnlessReported
<1>. QED  BY <1>1, AdaptersInvHolds, PTL
=============================================================================
