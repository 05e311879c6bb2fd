----------------------------- MODULE GaapExecutor -----------------------------
(***************************************************************************)
(* One registered Attempt of the GAAP executor (src/src/services/gaap-     *)
(* executor.ts): the processes that run it, admit its output and           *)
(* reevaluate the controller, over the state database, the output          *)
(* directories and the workspace.                                          *)
(*                                                                         *)
(* A mutation of the database is one step with the answers FencedRegister  *)
(* promises: "ok", "warning" and "uncertain" for one that took effect,     *)
(* "failed" and "uncertain" for one that did not.  Verification of signed  *)
(* evidence is a predicate of the envelope (valid); the workspace is a     *)
(* number, its subject, that anyone may change.                            *)
(***************************************************************************)
EXTENDS Naturals, Sequences, FiniteSets

CONSTANTS
    Processes,
    MaxSubject,         \* bound: changes of the workspace
    MaxRuns,            \* bound: output directories made
    MaxRevision         \* bound: no evaluation starts from a later revision

VARIABLES
    faults,         \* what may go wrong in this behaviour
    subject,        \* the physical workspace; the request was made on subject 0
    leased,         \* the claim has not expired
    root,           \* [revision, attempt] of the stored root and its journal
    launch,         \* the directory in the launch row, or NoDirectory
    observations,   \* retained transport observations
    accepted,       \* observations in the accepted table
    evaluations,    \* whether each stored evaluation knew of an admission
    overtaken,      \* history: an evaluation was stored between the read and the
                    \* mutation that retain what an executor process answered
    directories,    \* output directories that exist
    made,           \* output directories ever made; mkdtemp repeats no name
    spawned,        \* directories handed to executor processes, in order
    process         \* what each process has in memory

state == <<root, launch, observations, accepted, evaluations, overtaken>>
vars == <<faults, subject, leased, state, directories, made, spawned, process>>

\* A COMMIT fails or its outcome is lost; a process dies.
Faults == {"commit", "crash"}

NoDirectory == 0
NoEnvelope == [valid |-> FALSE, subject |-> 0]
NoResponse == [status |-> "none", envelope |-> NoEnvelope]

Idle == [pc |-> "idle", revision |-> 0, directory |-> NoDirectory, response |-> NoResponse,
         observation |-> 0, admitted |-> FALSE]

Init ==
    /\ faults \in SUBSET Faults
    /\ subject = 0
    /\ leased = TRUE
    /\ root = [revision |-> 0, attempt |-> "pending"]
    /\ launch = NoDirectory
    /\ observations = <<>>
    /\ accepted = {}
    /\ evaluations = <<>>
    /\ overtaken = FALSE
    /\ directories = {}
    /\ made = 0
    /\ spawned = <<>>
    /\ process = [p \in Processes |-> Idle]

Stop(p) == process' = [process EXCEPT ![p] = Idle]
Continue(p, step) == process' = [process EXCEPT ![p].pc = step]

\* A committed mutation bumps the revision and is fenced by it.
Fenced(p) == root.revision # process[p].revision
CommitAnswers == IF "commit" \in faults THEN {"ok", "warning", "uncertain"} ELSE {"ok"}
FailureAnswers == IF "commit" \in faults THEN {"failed", "uncertain"} ELSE {}

\* Slip: only a change of the journal is a new revision.
BumpedByJournal(attempt) ==
    [revision |-> IF attempt = root.attempt THEN root.revision ELSE root.revision + 1,
     attempt |-> attempt]

Bumped(attempt) == [revision |-> root.revision + 1, attempt |-> attempt]
-----------------------------------------------------------------------------
\* executor run.

\* runGaapExecutor up to its first mutation; an Attempt that is not pending is
\* refused without effect.
StartRun(p) ==
    /\ process[p].pc = "idle"
    /\ root.attempt = "pending"
    /\ made < MaxRuns
    /\ made' = made + 1
    /\ directories' = directories \cup {made + 1}
    /\ process' = [process EXCEPT ![p] =
           [Idle EXCEPT !.pc = "launch", !.revision = root.revision, !.directory = made + 1]]
    /\ UNCHANGED <<faults, subject, leased, state, spawned>>

MayStart == root.attempt = "pending" /\ subject = 0 /\ leased

\* Slip: only a failure known for certain keeps the process from spawning.
SpawnsUnlessFailed(answer) == answer # "failed"

Spawns(answer) == answer = "ok"

\* Slip: every error removes the directory.
RemovesAlways(answer) == TRUE

RemovesDirectory(answer) == answer = "failed"

DirectoriesAfter(p, answer) ==
    IF RemovesDirectory(answer) THEN directories \ {process[p].directory} ELSE directories

\* After the mutation that launches, an error ends the command.
AfterLaunch(p, answer) ==
    IF Spawns(answer)
    THEN /\ Continue(p, "spawn")
         /\ UNCHANGED directories
    ELSE /\ Stop(p)
         /\ directories' = DirectoriesAfter(p, answer)

\* Launch intent and started journal commit together.
Launch(p) ==
    /\ process[p].pc = "launch"
    /\ ~Fenced(p)
    /\ MayStart
    /\ root' = Bumped("running")
    /\ launch' = process[p].directory
    /\ \E answer \in CommitAnswers : AfterLaunch(p, answer)
    /\ UNCHANGED <<faults, subject, leased, observations, accepted, evaluations, overtaken, made,
                   spawned>>

\* The mutation is fenced, refused, or fails.
FailToLaunch(p) ==
    /\ process[p].pc = "launch"
    /\ \/ (Fenced(p) \/ ~MayStart) /\ AfterLaunch(p, "failed")
       \/ \E answer \in FailureAnswers : AfterLaunch(p, answer)
    /\ UNCHANGED <<faults, subject, leased, state, made, spawned>>

\* runGaapProcess.  A lease that has run out cancels before the spawn.
Spawn(p) ==
    /\ process[p].pc = "spawn"
    /\ leased
    /\ spawned' = Append(spawned, process[p].directory)
    /\ Continue(p, "running")
    /\ UNCHANGED <<faults, subject, leased, state, directories, made>>

CancelSpawn(p) ==
    /\ process[p].pc = "spawn"
    /\ ~leased
    /\ process' = [process EXCEPT ![p].pc = "retain", ![p].response.status = "cancelled"]
    /\ UNCHANGED <<faults, subject, leased, state, directories, made, spawned>>

\* The executor process has ended, in success or not, and has left an envelope
\* or none.  One that verifies names the subject its producer observed.
Respond(p) ==
    /\ process[p].pc = "running"
    /\ \E status \in {"ok", "timeout"}, valid \in BOOLEAN :
          process' = [process EXCEPT ![p].pc = "retain",
              ![p].response = [status |-> status,
                               envelope |-> [valid |-> valid, subject |-> subject]]]
    /\ UNCHANGED <<faults, subject, leased, state, directories, made, spawned>>

\* Slip: the revision that the launch made is the fence.
RevisionLaunched(p) == process[p].revision + 1

RevisionRead(p) == root.revision

\* store.read() for the revision, ahead of the mutation that retains.
ReadForRetention(p) ==
    /\ process[p].pc = "retain"
    /\ process' = [process EXCEPT ![p].pc = "append", ![p].revision = RevisionRead(p)]
    /\ UNCHANGED <<faults, subject, leased, state, directories, made, spawned>>

RetainObservation(p) ==
    LET response == process[p].response
        admits(answer) == answer = "ok" /\ response.status = "ok"
    IN  /\ process[p].pc = "append"
        /\ ~Fenced(p)
        /\ observations' = Append(observations,
               [status |-> response.status, envelope |-> response.envelope,
                directory |-> process[p].directory])
        /\ root' = Bumped(root.attempt)
        /\ \E answer \in CommitAnswers :
              IF admits(answer)
              THEN process' = [process EXCEPT ![p] =
                       [Idle EXCEPT !.pc = "inspect", !.observation = Len(observations) + 1]]
              ELSE Stop(p)
        /\ UNCHANGED <<faults, subject, leased, launch, accepted, evaluations, overtaken,
                       directories, made, spawned>>

\* The error of a mutation that is fenced or fails ends the command.
FailToRetain(p) ==
    /\ process[p].pc = "append"
    /\ Fenced(p) \/ FailureAnswers # {}
    /\ Stop(p)
    /\ UNCHANGED <<faults, subject, leased, state, directories, made, spawned>>
-----------------------------------------------------------------------------
\* executor admit, and the end of a successful run.

StartAdmission(p) ==
    /\ process[p].pc = "idle"
    /\ \E i \in DOMAIN observations :
          process' = [process EXCEPT ![p] = [Idle EXCEPT !.pc = "inspect", !.observation = i]]
    /\ UNCHANGED <<faults, subject, leased, state, directories, made, spawned>>

\* admitGaapOutput reads the whole state once, before it verifies.
Inspect(p) ==
    LET i == process[p].observation
    IN  /\ process[p].pc = "inspect"
        /\ observations[i].status = "ok"
        /\ observations[i].directory = launch
        /\ process' = [process EXCEPT ![p].pc = "verify", ![p].revision = root.revision,
                                      ![p].admitted = i \in accepted]
        /\ UNCHANGED <<faults, subject, leased, state, directories, made, spawned>>

\* The physical workspace is the one the signed statement observed.
WorkspaceMatches(p) == observations[process[p].observation].envelope.subject = subject

\* The verified result is new: admission is prepared.
Verify(p) ==
    /\ process[p].pc = "verify"
    /\ observations[process[p].observation].envelope.valid
    /\ WorkspaceMatches(p)
    /\ ~process[p].admitted
    /\ Continue(p, "admit")
    /\ UNCHANGED <<faults, subject, leased, state, directories, made, spawned>>

\* The observation is refused, or its result was admitted before.
EndAdmission(p) ==
    LET observation == observations[process[p].observation]
    IN  /\ \/ /\ process[p].pc = "inspect"
              /\ observation.status # "ok" \/ observation.directory # launch
           \/ /\ process[p].pc = "verify"
              /\ \/ ~observation.envelope.valid
                 \/ ~WorkspaceMatches(p)
                 \/ process[p].admitted
        /\ Stop(p)
        /\ UNCHANGED <<faults, subject, leased, state, directories, made, spawned>>

\* validateExecutorContext: the claim holds and its Attempt is the started one.
MayAdmit == root.attempt = "running" /\ leased

\* Blobs, result, admission and the journal's receipt commit together.
Admit(p) ==
    /\ process[p].pc = "admit"
    /\ ~Fenced(p)
    /\ WorkspaceMatches(p)
    /\ MayAdmit
    /\ accepted' = accepted \cup {process[p].observation}
    /\ root' = Bumped("finished")
    /\ \E answer \in CommitAnswers : IF answer = "ok" THEN Continue(p, "evaluate") ELSE Stop(p)
    /\ UNCHANGED <<faults, subject, leased, launch, observations, evaluations, overtaken,
                   directories, made, spawned>>

FailToAdmit(p) ==
    /\ process[p].pc = "admit"
    /\ Fenced(p) \/ ~WorkspaceMatches(p) \/ ~MayAdmit \/ FailureAnswers # {}
    /\ Stop(p)
    /\ UNCHANGED <<faults, subject, leased, state, directories, made, spawned>>
-----------------------------------------------------------------------------
\* executor evaluate, and the end of an admission.

\* evaluateGaapController up to its mutation; only what it found of the Attempt
\* is kept.
ReadForEvaluation(p) ==
    /\ process[p].pc \in {"idle", "evaluate"}
    /\ root.revision <= MaxRevision
    /\ process' = [process EXCEPT ![p] =
           [Idle EXCEPT !.pc = "evaluating", !.revision = root.revision,
                        !.admitted = accepted # {}]]
    /\ UNCHANGED <<faults, subject, leased, state, directories, made, spawned>>

\* Slip: the evaluation is stored whatever has been committed since.
StillCurrent(p) == TRUE

EvaluatesCurrent(p) == ~Fenced(p)

StoreEvaluation(p) ==
    /\ process[p].pc = "evaluating"
    /\ EvaluatesCurrent(p)
    /\ evaluations' = Append(evaluations, process[p].admitted)
    /\ overtaken' = (overtaken \/ \E q \in Processes : process[q].pc = "append")
    /\ root' = Bumped(root.attempt)
    /\ Stop(p)
    /\ UNCHANGED <<faults, subject, leased, launch, observations, accepted, directories, made,
                   spawned>>

FailToEvaluate(p) ==
    /\ process[p].pc = "evaluating"
    /\ Fenced(p) \/ FailureAnswers # {}
    /\ Stop(p)
    /\ UNCHANGED <<faults, subject, leased, state, directories, made, spawned>>
-----------------------------------------------------------------------------
\* The world.

\* The executor process, or anyone else, changes the workspace.
ChangeWorkspace ==
    /\ subject < MaxSubject
    /\ subject' = subject + 1
    /\ UNCHANGED <<faults, leased, state, directories, made, spawned, process>>

ExpireLease ==
    /\ leased
    /\ leased' = FALSE
    /\ UNCHANGED <<faults, subject, state, directories, made, spawned, process>>

Crash(p) ==
    /\ "crash" \in faults
    /\ process[p].pc # "idle"
    /\ Stop(p)
    /\ UNCHANGED <<faults, subject, leased, state, directories, made, spawned>>

Run(p) ==
    \/ StartRun(p)
    \/ Launch(p)
    \/ FailToLaunch(p)
    \/ Spawn(p)
    \/ CancelSpawn(p)
    \/ Respond(p)
    \/ ReadForRetention(p)
    \/ RetainObservation(p)
    \/ FailToRetain(p)

Admission(p) ==
    \/ StartAdmission(p)
    \/ Inspect(p)
    \/ Verify(p)
    \/ EndAdmission(p)
    \/ Admit(p)
    \/ FailToAdmit(p)

Evaluation(p) ==
    \/ ReadForEvaluation(p)
    \/ StoreEvaluation(p)
    \/ FailToEvaluate(p)

Next ==
    \/ \E p \in Processes : Run(p) \/ Admission(p) \/ Evaluation(p) \/ Crash(p)
    \/ ChangeWorkspace
    \/ ExpireLease

Spec == Init /\ [][Next]_vars
-----------------------------------------------------------------------------
Envelope == [valid : BOOLEAN, subject : Nat]
Response == [status : {"none", "ok", "timeout", "cancelled"}, envelope : Envelope]
Memory == [pc : {"idle", "launch", "spawn", "running", "retain", "append", "inspect", "verify",
                 "admit", "evaluate", "evaluating"},
           revision : Nat, directory : Nat, response : Response, observation : Nat,
           admitted : BOOLEAN]

\* The variables have their shapes, and every commit is a revision of its own.
TypeOK ==
    /\ faults \subseteq Faults
    /\ subject \in Nat
    /\ leased \in BOOLEAN
    /\ root \in [revision : Nat, attempt : {"pending", "running", "finished"}]
    /\ launch \in Nat
    /\ observations \in Seq([status : {"ok", "timeout", "cancelled"}, envelope : Envelope,
                             directory : Nat])
    /\ accepted \subseteq DOMAIN observations
    /\ evaluations \in Seq(BOOLEAN)
    /\ overtaken \in BOOLEAN
    /\ directories \subseteq Nat
    /\ made \in Nat
    /\ spawned \in Seq(Nat)
    /\ process \in [Processes -> Memory]
    /\ root.revision = Cardinality({launch} \ {NoDirectory}) + Len(observations)
                       + Cardinality(accepted) + Len(evaluations)

\* However processes race, die and lose answers, an executor process is spawned
\* once at most, in the directory the durable launch intent names, and what is
\* retained and admitted came from it.
LaunchedOnce ==
    /\ Len(spawned) <= 1
    /\ \A i \in DOMAIN spawned : spawned[i] = launch
    /\ Len(observations) <= 1
    /\ \A i \in DOMAIN observations : observations[i].directory = launch
    /\ accepted # {} <=> root.attempt = "finished"

\* A launched directory is never removed, not even when the answer of its commit
\* was lost; without faults a run that was refused leaves no directory.
OutputDirectoriesMatchLaunch ==
    /\ launch # NoDirectory => launch \in directories
    /\ faults = {} =>
          \A d \in directories :
              \/ d = launch
              \/ \E p \in Processes : process[p].pc = "launch" /\ process[p].directory = d

\* Evaluations are stored in the order of what they saw: one that knows of the
\* admission is not followed by one that does not.
EvaluationsNeverRegress ==
    \A i, j \in DOMAIN evaluations :
        i < j => (evaluations[i] => evaluations[j])

ResponseIsKept(directory) ==
    \/ \E i \in DOMAIN observations : observations[i].directory = directory
    \/ \E p \in Processes :
          /\ process[p].pc \in {"running", "retain", "append"}
          /\ process[p].directory = directory

\* What an executor process answered is retained, rejected or not, as
\* docs/gaap-executor.md:54-55 says; here for behaviours without faults.
ResponsesAreRetained == faults = {} => \A i \in DOMAIN spawned : ResponseIsKept(spawned[i])

\* Without faults an answer is thrown away in one case only: an evaluation is
\* stored between the read of the revision and the mutation that it fences.
\* Evaluations stored while the process runs, or before the read, lose nothing.
OnlyOvertakenResponsesAreLost == overtaken \/ ResponsesAreRetained
=============================================================================
