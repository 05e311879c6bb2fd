# Formal model of threadloop

threadloop keeps a *governed session* per pull request: a fixed lifecycle from
`queued` to `completed` that a caller may advance only with evidence (gate
receipts, signed CI and review packages, the state of the checkout). The state
lives in one SQLite database that any number of short-lived `threadloop`
processes open at once; receipts and packages are also files beside it. This
directory models that core in TLA+, checks it with TLC and proves the safety of
it with TLAPS.

`PROJECT.json` lists every run, the source lines each definition models, the
hazards and the findings. Source paths below are relative to the repository.

## Inventory

| Component | State | Operations | What makes it correct | Modelled in |
|---|---|---|---|---|
| Lifecycle rules (`src/domain/lifecycle.ts`) | none | evaluate a transition, derive the phase, repair entry | pre-PR work never happens after the PR exists and vice versa; blocked resumes where it was; completed is final | `Lifecycle`, promise in `GovernedLifecycle`, `SessionEvidenceProofs` |
| Transition guards and planner (`src/domain/session-transition.ts`) | none | which evidence an edge needs, whether it is there, what `session next` proposes | the planner never proposes what the transaction refuses | `TransitionGuards`, `SessionControllerProofs` |
| Session transition protocol (`src/services/session-service.ts`, `src/adapters/fs/sqlite-store.ts`) | task row, transition rows, idempotency rows and conflicts, audit events | transition, replay, conflict, retry | evidence read outside the transaction is still the newest when it commits; one decision per key; a repair budget counted outside the transaction holds; the history stays readable | `SessionController`, `SessionProperties`, `SessionControllerProofs`, `SessionEvidenceProofs` |
| Evidence evaluation (`src/domain/proof.ts`, `attestation.ts`, `review.ts`) | receipts (append-only) | status of a receipt against a HEAD, aggregate, work and repair basis | the basis of a repair does not move; the newest receipt counts | `SessionController`, `SessionEvidenceProofs`; acceptance of a fresh receipt in `GateRun` |
| Signed import (`src/services/signed-receipt-import.ts`) | receipt tables, package files | import, promote, clean up | one row per receipt; table and files agree; snapshots ordered by observation | `SignedImport`, `SignedImportProofs` |
| Gate runner (`src/adapters/process/gate-runner.ts`, `runSessionGate`) | process group, timers, receipt | run setup and gate, observe the checkout between steps, time out, abort | a receipt that says `passed` describes one clean HEAD; every run ends; no descendant survives a timeout | `GateRun`, `ProcessTree`, `ProcessAdapters`, `ProcessAdaptersProofs` |
| Audit ledger (`src/domain/audit.ts`, `sqlite-store.ts`, `src/adapters/fs/audit-export.ts`) | hash-linked events, exports | append, verify, export | damage is never hidden by what is appended later; nothing is written on a ledger that does not verify | `AuditLedger`, `StateDatabase`, `StateCommandsProofs` |
| Schema and migration (`sqlite-store.ts` 1391-1444, 1746-1834) | schema version, renamed tables | migrate once among concurrent openers | a newer schema is never touched; rows survive | version in `StateDatabase`; rebuild of the receipt table not modelled |
| GAAP executor state (`src/adapters/fs/gaap-state.ts`) | a root with a revision, a commit marker | register, read, mutate, read back | a commit is fenced by what was read; an answer never misreports it | `GaapState`, promise in `FencedRegister`, `GaapStateProofs` |
| GAAP executor (`src/services/gaap-executor.ts`) | the Attempt's journal, launch intent, observations, admissions, evaluations, output directories | run, admit, evaluate | an Attempt is launched at most once; its answer is retained unless an evaluation overtakes it; evaluations do not regress | `GaapExecutor`, `ExecutorLayers`, `ExecutorProofs` |
| GAAP process runner (`src/adapters/process/gaap-runner.ts`) | process group, timers | launch, deadline, cancellation, exit, drain | resolves once; never reports success over a running descendant | `GaapProcess`, `ProcessTree`, `ProcessAdapters`, `ProcessAdaptersProofs` |
| Session registry (`startTask`, `heartbeatSession`, `captureEntry`, `reconcileSession`, `generateArtifact`) | sessions, heartbeats, entries, repository snapshots, artifact rows and files | start, refresh, annotate, reconcile, describe | a read of several tables is not torn; what a completed session has is left alone | `SessionRegistry`, `StateCommands`, `StateCommandsProofs` |
| GitHub review sensor (`src/adapters/github/review-sensor.ts` and its workflow) | what it has read so far | read reviews and threads page by page, sign | a snapshot shows what GitHub said while it was collected; the newest one hides no blocker | `ReviewSensor`, `ReviewIntake`, `ReviewIntakeProofs` |
| Git, effect inventory, Sigstore, canonical JSON, CLI, contracts | none, or external | observe, verify, encode, parse | | not modelled, see below |

Interaction: a command calls a service, which reads the database without a lock
(a deferred read transaction each), observes the repository with git, reads
artifact files, and then performs one `BEGIN IMMEDIATE` transaction. Nothing is
held between those steps. Everything hard about the system lives there: a
transition can be decided on state that moved; a retry can repeat what was
already done; a file operation is not covered by the database's rollback.

## Modules

| Module | Content |
|---|---|
| `Lifecycle` | `evaluateLifecycleTransition`, `deriveLifecyclePhase` and their tables, as operators |
| `TransitionGuards` | the guard layer over an abstract guard context, and the planner |
| `GovernedLifecycle` | abstract specification: state, resumption, phase and number of repairs, nothing else |
| `SessionController` | one session, its receipts and concurrent clients |
| `SessionProperties` | the properties of `SessionController` and the refinement mapping to `GovernedLifecycle` |
| `SessionControllerProofs` | theorems about it: types, budget, history, keys, planner |
| `SessionEvidenceProofs` | theorems about it: evidence, bases, the refinement |
| `SessionRequests` | what clients ask for, observe and import in its TLC instances |
| `MC_SessionController`, `MC_SessionLifecycle`, `MC_SessionScenarios` | its TLC instances: one at a time, and twice two in one run, each in behaviours of its own |
| `SignedImport` | concurrent import of signed packages: tables against files |
| `SignedImportProofs` | theorems about it |
| `ReviewSensor` | runs of the review sensor over a pull request that people change |
| `ReviewIntake` | the import fed by the sensor: what it signs is what can be imported |
| `ReviewIntakeProofs` | theorems about the sensor and what is imported of it |
| `MC_SignedImport`, `MC_ReviewIntake` | their TLC instances |
| `FencedRegister` | abstract specification: a register that is compared and set, with honest answers |
| `GaapState` | the executor's SQLite state with failing COMMITs, mapped to `FencedRegister` |
| `GaapStateProofs` | theorems about it, the refinement included |
| `GaapExecutor` | processes that run, admit and evaluate one Attempt over the answers `FencedRegister` promises |
| `ExecutorLayers`, `MC_ExecutorLayers` | the two of them as one specification, each in behaviours of its own, and its TLC instance |
| `ExecutorProofs` | theorems about both layers |
| `ProcessTree` | operating system: a spawned leader, a descendant, their group, signals and pipes |
| `GateRun` | `runSessionGate` and `runGateProcess` over it |
| `GaapProcess` | `runGaapProcess` over it |
| `ProcessAdapters` | the two adapters as one specification with their fairness |
| `ProcessAdaptersProofs` | theorems about it |
| `AuditLedger` | audit events, their links and verification, as operators |
| `StateDatabase` | migration, writes and exports against damage and newer builds |
| `SessionRegistry` | the commands that start, refresh, annotate, reconcile and describe sessions |
| `StateCommands`, `MC_StateCommands` | the two of them as one specification, each in behaviours of its own, and its TLC instance |
| `StateCommandsProofs` | theorems about it |

Operators whose comment starts with "Slip:" are not part of any specification:
each deviates from the operator after it the way a coding mistake would, and
substituting it must break the property that `PROJECT.json` pairs it with.

### SessionController

A client handles a request in the steps of `transitionSession`: `Begin` reads
the lifecycle, `ReadWatermark` and `ReadEvidence` (or `PreparePlan`, when a
proof plan is to be bound) gather evidence, and one of five actions is the write
transaction of `applySessionTransition`: `Replay`, `RecordConflict`,
`RejectTransition`, `ReportEvidenceChanged` or `ApplyTransition`. `Retry` is the
caller repeating the identical request after `STATE_BUSY`; `Abandon` is a dead
process or a lost answer. Between any two steps other clients act, receipts are
appended and artifacts are lost.

| Variable | Code |
|---|---|
| `task` | row of `tasks`: `status`, `state_version`, `blocked_from_state`, and whether the active projection has ended |
| `history`, `genesis` | `session_transitions` rows and the state bound by the first audit event |
| `ledger`, `conflicts` | `transition_idempotency` and its conflicts |
| `audit` | number of audit events per kind |
| `gateReceipts`, `ciReceipts`, `reviewReceipts`, `plan` | the receipt tables and the proof plan |
| `lost` | receipts whose artifact or package no longer has its digest |
| `client` | what a process holds in memory while it works |

Abstractions, all of data:

- The repository is not controlled by threadloop and is observed anew each time,
  so it has no variable. Every read returns any member of `Observations`. This
  allows more than a real checkout does, except that one observation is one
  step: HEAD, branch and cleanliness come from several git commands.
- Commits are model values; `Descends` says which has a committed change after
  which. Evidence objects in a request are kinds (`InputKinds`).
- A gate run or an import collapses to its append. The append re-checks, in its
  own transaction, the state and version the run started from, so every
  session-visible effect of a run is at that point. `SignedImport` opens the
  import up, `GateRun` the run.
- Artifacts are either intact or lost, and a lost one stays lost.
- A history row keeps the HEAD its guards saw (`head`). The code does not store
  it; the model needs it to state what a transition rested on. No guard reads it.
- A client reads history once with the lifecycle, but receipts and the repair
  count later, as the code does; that is why `ReadEvidence` takes a prefix.
- Genesis states `verifying` and `reviewing` stand for a session whose audit
  ledger was activated by the upgrade to schema v6 (`audit_activated`), with
  versions counted from that floor and no repair before it.

### GovernedLifecycle

What the outside relies on: work before the pull request, its opening, work on
it, repairs within the budget, block and resume to the same state.
`ImplementsGovernedLifecycle` maps `task.status`, `task.blockedFrom`, the phase
derived from the history and the number of repair entries in the history to its
variables. `FinishRepair` is open to either phase: a session may be governed from
`repairing`, before any recorded row says that its pull request exists. The phase rule is the interesting half: the code derives the phase
from stored rows, some guards use the phase a client derived earlier, and the
refinement says that the two never disagree where it matters.

### SignedImport

`importSignedPackage` up to its write transaction is `Prepare`; the transaction
is `InsertRow`, `PromotePackage`, `Commit`, with `FindImported`, `RefuseImport`
and `FailToPromote` for its early ends, `FailToCommit` for its rollback, and
`Cleanup` for the `finally` block that runs after the lock is gone. `Crash` can
hit any step, `faults` says whether commits fail and processes die at all,
`MoveSession` is another process's transition. The staging file has a random name and is never read by another process, so it is left out.
Verification is not modelled: `Packages` are packages that pass it.

### ReviewSensor and ReviewIntake

A run of the sensor takes `observed_at` and then reads two connections, reviews
and threads, page after page (`ReadPage`, `ReadLastPage`). Each query also returns
the facts of the pull request (head, merge, decision), which must be those of the
query before; a cursor must not come back. `RefusePage` and `FailToCollect` end a
run, `Sign` signs its report. Between two queries people push, merge, approve,
dismiss, open threads, settle them and open them again.

| Variable | Code |
|---|---|
| `past` | history: the pull request at each instant. GitHub, so external; queries see its last element only |
| `collector` | the locals of `collectReviewSnapshot`, and (history) the instants of its queries |

Every property about a report compares it with `past`: an item read on an early
page may have changed before the last one was read, so a report is never a
snapshot of one instant, and `SnapshotsAreSound` says what it is instead. An item
keeps its place in its connection, as GitHub's ascending order has it.

`ReviewIntake` has two kinds of behaviours, told apart by `origin`: in `"given"`
the packages are those of `MC_SignedImport`, and importers run together, fail and
die; in `"sensor"` they are the reports signed so far, imported in any order.
`Overlap` says whether two runs of the sensor may collect at the same time.

### FencedRegister and GaapState

`GaapState` follows `GaapState.initialize`, `read` and `mutate`: the file is
created exclusively (`CreateFile`), a caller works on what it has read (`Read`),
`Begin` is `BEGIN IMMEDIATE` with the comparison of revisions inside it, then
`Commit` (which takes effect whether or not the process learns of it),
`LoseCommit` (COMMIT and ROLLBACK both fail), `Report`, and `ReadBack`, which asks
over a new connection whether the marker drawn for this operation is stored.
`Fail` is every ordinary error; it removes the file only for a registration.
`Crash` may hit any step.

| Variable | Code |
|---|---|
| `file`, `revision`, `marker` | `executor.sqlite`, the stored root's revision, the stored commit generation |
| `lock` | who is inside a write transaction |
| `issued` | `randomUUID` tokens drawn |
| `writer` | the operation of a process, and the answer it gave last |
| `commits` | history, compared with the answers |

`FencedRegister` is what callers rely on: a mutation replaces exactly what it was
decided on, "ok" and "warning" are said only of what is durable, "failed" only of
what never will be, "uncertain" of either. `ImplementsFencedRegister` maps the
stored commits and the answers to it. Closing the connection of a registration is
taken not to fail.

### GaapExecutor

One mutation of the database is one step with the answers `FencedRegister`
allows. `StartRun` makes the output directory; `Launch` commits launch intent and
started journal; `Spawn` hands the directory to the process runner only after an
answer "ok"; `Respond` is its result, `ReadForRetention` and `RetainObservation`
store it. Admission is `StartAdmission`, `Inspect`, `Verify`, `Admit`; evaluation
is `ReadForEvaluation` and `StoreEvaluation`, computed outside the transaction and
fenced by the revision. A lease expires and the workspace changes at any time.
Registration is the initial state. Whether an envelope verifies is a predicate of
it. `faults` says which things may go wrong, so that properties can speak about
behaviours without faults, and the history variable `overtaken` that an evaluation
was stored between a run's read of the revision and the write fenced by it
(`ReadForRetention`, `RetainObservation`).

### ProcessTree, GateRun and GaapProcess

`ProcessTree` is external: a leader and one descendant that may ignore SIGTERM,
hold the output pipes, or leave the group. A signal to the group may fail. The
adapters add their callbacks, one action each: `Timeout`, `Abort` or `Interrupt`
(cancellation), `ForceStop` (the SIGKILL timer), `OnError`, `OnExit`, `OnClose`,
`Drain`. Events are delivered in any order that Node allows.

`GateRun` also contains the run around the command: `Preflight`, setup steps, the
gate, the observations before, between and after (`Observe`), and the transaction
that appends the receipt (`Record`). The repository may move away and back at any
time (`ChangeRepository`), and the session may move on. What a gate's command
leaves running is not followed after its last observation. The receipt keeps what
the evaluator will ask of it (result, HEAD before and after, cleanliness, setup
steps), and `EvaluateReceipt` is that part of the evaluator.

### AuditLedger and StateDatabase

A row is an event and the digest stored beside it; the digest is an injective
function. A write transaction is one step, as the code is synchronous inside it,
but the schema check before it (`OpenToWrite`), the decision to migrate
(`StartMigration`) and the snapshot of an export (`ReadLedger`) are steps of their
own, with other processes in between. `AlterRow` and `LoseRow` damage the ledger
without recomputing a digest, as a fault of storage would; `UpgradeFurther` is a newer build.
The columns repeated from an event, and the comparison of the ledger with the
transition rows, are left out: the code notices more than this model does.

### SessionRegistry and StateCommands

A command reads the session tables in one read transaction (`Begin`, `Resolve`),
observes the repository without one (`Observe`), and writes in transactions of
their own (`StartTask`, `Heartbeat`, `CaptureEntry`, `Reconcile`,
`StoreLiveSnapshot`, `RecordArtifact`). No write asks again whether the session is
still open, so a command that began before a completion may land after it;
`CompletedIsLeftAlone` says that nothing else does. `Complete` is the last
transition of `SessionController`.

| Variable | Code |
|---|---|
| `session`, `active` | rows of `sessions`, and the projection of the open ones |
| `beat`, `snapshot`, `entries`, `artifacts` | the last heartbeat, `repo_snapshots`, `entries`, `artifacts` |
| `files` | artifact files, which are named by the slug of a title |
| `command` | what a process has read and still has to do |

The first query fixes what the later ones see: `rows` is that snapshot. `ended` is
a history variable, which sessions had ended when the command read them. The text
of an artifact is left out, and a snapshot is the HEAD it shows. `StateCommands`
has behaviours with the ledger and behaviours with the sessions (`side`). They
meet only in the genesis event that starting a session appends, which is one of
the ledger's appends.

## Runs

`lifecycle` and `adapters` check liveness and use a fair specification; the others
use the plain one. Deadlock checking is off everywhere: a completed session, a
finished command or an instance whose bounds are used up stops.

| Run | Question | Properties |
|---|---|---|
| `lifecycle` | one client, every request and input kind, dirty and detached checkouts, all gate outcomes, a lost artifact, from `queued` and from an upgraded `verifying`; and two clients who share, repeat, abandon and contradict idempotency keys while evidence arrives | `TypeOK`, `PlannerAgreesWithApply`, `HistoryIsAuthoritative`, `OneDecisionPerKey`, `ImplementsGovernedLifecycle`, `ReviewedImplementationAdvances`, `SharedRequestsAreAnswered` |
| `review_and_repair` | receipts and contradictory snapshots between any two steps of two clients, who race repairs up to and past the budget, with two HEADs, or complete the work | `CompletedOnLatestReview`, `CommittedOnNewestEvidence`, `RepairBudgetHolds`, `ReviewRepairBasisStands`, `ReviewedRepairAdvances` |
| `import` | repeated, contradictory and overtaking imports, failing commits, dying importers, a moving session; and reports of the sensor, collected one after the other under a changing pull request and imported in any order | `TypeOK`, `OneRowPerReceipt`, `NewestIsMostRecent`, `IndexedPackageIsStored`, `NothingLeftBehind`, `SnapshotsAreSound`, `NoBlockerIsHidden` |
| `executor` | both layers of the executor: three processes register, mutate, lose commits and die; two processes run, admit and evaluate one Attempt | `LayersTypeOK`, `AnswersAreHonest`, `CommitsBuildOnEachOther`, `RegisteredStateStays`, `ImplementsFencedRegister`; `LaunchedOnce`, `OutputDirectoriesMatchLaunch`, `EvaluationsNeverRegress`, `OnlyOvertakenResponsesAreLost` |
| `adapters` | timeouts, aborts, failing signals, exits and closing pipes race in either adapter, under a repository that moves away and back | `TypeOK`, `PassedReceiptDescribesOneHead`, `ReceiptsAreAccepted`, `StoppedUnlessReported`, `CommandsEnd` |
| `database` | two processes migrate, append and export while rows are damaged and a newer build upgrades; and two processes start, refresh, annotate, reconcile and describe two sessions while they are completed | `CommandsTypeOK`, `DamageIsNeverHidden`, `UndamagedLedgerVerifies`, `SchemaNeverGoesBack`, `ExportsStand`, `ReadsAreNotTorn`, `CompletedIsLeftAlone` |
| `fourth_repair`, `gate_repair_basis`, `removed_package`, `hidden_blocker`, `survivors`, `lost_response` | violations, see findings | `RepairBudgetHolds`, `GateRepairBasisStands`, `IndexedPackageIsNeverRemoved`, `NoBlockerIsHidden`, `TimeoutStopsEverything`, `ResponsesAreRetained` |

### Bounds

- `MaxVersion` and `MaxRejections` stop new requests once the session has that
  many transitions or refusals; requests in flight still finish. The versions
  are enough for a review round before the pull request (`lifecycle`), and, in
  `review_and_repair` (5), for entering review, readiness and completion after a
  return, and for opening, verifying and returning two repairs and attempting a
  third. Counters are never otherwise compared, so more steps repeat these.
- `RepairBudget` is 3 in the code. `review_and_repair` uses 2, which halves the
  length of a run past the budget; the budget is a parameter that nothing else depends on,
  and its proof holds for every value. `fourth_repair` uses 3.
- `lifecycle` has two kinds of behaviours, which never mix (`MC_SessionLifecycle`).
  In one a client is alone with every input and edge, and nobody else takes a step.
  In the other two clients share two keys and a version, with few inputs: enough to
  decide a key twice, to race for one version and to be overtaken by a gate receipt.
  Every property of the run is checked in both, `SharedRequestsAreAnswered` in the
  second. Every input with several clients is past TLC; the theorems hold for any
  number of clients, keys and inputs.
- Two clients elsewhere: every property relates one client's read to another's write.
  `RepairBudgetHolds` with three clients is covered by its proof.
- One gate and at most two receipts per kind: a status depends on the newest
  receipt of a gate, a basis on the newest receipt with some property, so two
  receipts tell "newest" from "any". Two commits tell a basis from a HEAD that
  advanced; the second is a committed change after the first, not the reverse.
- `Fresh` is an idempotency key nobody reuses. Most requests carry one; it never
  enters the ledger, which is sound because only a request with an equal key
  looks it up. Reused keys are explored in the shared behaviours of `lifecycle`.
- `Foresight` is how far a caller's expected version may exceed the version it
  was read with. It is 0 except in `fourth_repair`: a caller learns the version
  from an earlier answer, and naming a version in advance is what that finding
  is about.
- `MaxGateReceipts`, `MaxCiReceipts`, `MaxReviewReceipts`, `MaxLost` bound the
  environment.
- `import`: two moves of the session, five review packages (two bodies under
  one id, three observation times, two pull requests) and a gate package sharing
  an id. Rows are bounded by the packages. `faults` is chosen initially, so every
  combination of failing commits and dying importers is explored.
- `import`, the sensor: two runs, since a snapshot is hidden by one other; pages of
  one item and two items per connection, so that a cursor is followed, and may come
  back; two facts; two changes of the pull request beside the starts, enough for
  one before and one after a query. Concurrent and failing imports are explored with
  given packages only: they do not look into a report. `Overlap` is FALSE: this is
  the condition under which the order of `observed_at` is the order of what was
  seen, and `hidden_blocker` drops it.
- `executor`: five tokens let a registration fail, another succeed and three
  mutations overlap, which is what an equal root by a competitor needs. Two output
  directories tell a refused run from the launched one; one change of the
  workspace tells the request's subject from another; `MaxRevision` bounds
  evaluations, which could otherwise repeat for ever.
- `adapters`: one leader and one descendant, since a group is signalled as a
  whole; one setup step before the gate; as many changes of the repository as an
  excursion and return need.
- `database`: four events and two damaged rows let an append follow damage and an
  export precede it, and three linked events follow the genesis; two paths tell an
  occupied output from a free one. Two sessions of one title share an artifact file and tell `reconcile --all` from one session;
  two commits tell a new snapshot from the old; the second entry of a session is
  the one a late capture adds.
- Symmetry over clients, importers, processes, sessions and commits (in
  `database`), which no property distinguishes; not in the runs that check
  liveness.

### Fairness

`MC_SessionLifecycle!Scenarios` assumes, where clients share keys, weak fairness of
each client's `Answers`, that is of `Gather`, `Decide` and `Retry` together: a process that was started runs to its answer, and a caller told
`STATE_BUSY` (documented as retryable) repeats the request. Starting a request,
abandoning one and producing evidence carry no fairness. `SharedRequestsAreAnswered`
holds because `STATE_BUSY` needs a receipt that arrived after the watermark was
read: it cannot repeat forever on its own. The receipt bounds are what makes
evidence stop arriving; without that a caller may be refused forever, and the
code does not claim otherwise.

`ProcessAdapters!FairSpec` assumes that a timer that was set expires, that an
event that has happened is delivered, and that a resolved promise continues:
Node's event loop does these. Nothing is asked of the commands, which may run for
ever, ignore signals or hold their pipes; `CommandsEnd` holds because a timer is
set first. For a gate it is stated where signals reach everything the command
started: a descendant outside the group that holds the pipes keeps the gate waiting.

## Findings

1. `fourth_repair`. The budget is checked on a count read outside the write
   transaction and the watermark does not cover the history. If a request names
   a version ahead of the one it read, its version check passes later, with the
   old count: a fourth repair. `docs/architecture.md:83` says a fourth entry is
   denied. Without such a request the budget holds, which is proved.
2. `gate_repair_basis`. An invalidated run opens a gate repair, but the basis of
   a gate repair is the newest run that plainly failed. If there is none, the
   repair has no basis and cannot be verified at any HEAD; if it was at another
   HEAD, the repair may be verified at the very HEAD that opened it. Both are
   against `docs/lifecycle.md:141-145`. With plainly failed runs only, the
   property holds.
3. `removed_package`. A failed import removes its package file after its
   transaction is gone; a second import of the same package may have found the
   file and indexed it in between. `docs/attestations/review-v1.md:128-130` says
   file and row are handled transactionally.
4. `hidden_blocker`. Snapshots are ordered by `observed_at`, which is taken before
   the first query (`scripts/collect-github-review-snapshot.ts:20`), and the
   check that nothing changed while pages were read covers neither reviews nor
   threads. If two runs of the sensor overlap, which its workflow does not exclude,
   the run that began first may read last: its snapshot shows a blocker, the other's,
   read before, replaces it. `docs/attestations/review-v1.md:133-135` says that the
   order keeps the latest snapshot the most recently observed one. With runs one
   after the other it does (`import`).
5. `survivors`. `gate-runner.ts:232-233` says that a timeout or abort can terminate
   everything the gate started. The close event clears the SIGKILL timer; a
   descendant that ignores SIGTERM and does not hold the output survives, and the
   result does not say so. The GAAP runner sends SIGKILL on exit for this case, and
   `StoppedUnlessReported` holds for it.
6. `lost_response`. A run reads the revision and then retains the executor's answer in
   a mutation fenced by it (`gaap-executor.ts:305`), without a second try. An
   `executor evaluate` that is stored in between fences the mutation: the run fails,
   nothing of the answer is stored, the Attempt cannot be launched again and `admit` has
   nothing to select. `docs/gaap-executor.md:54-55` says that what was answered is
   retained, including rejected or uncertain runs; `docs/cli.md:29` says "when
   possible". No other commit does so without a fault
   (`OnlyOvertakenResponsesAreLost`).

## Proofs

TLAPS proves every invariant, every action property and both refinements of the
passing runs, for every value of the constants that satisfies the named
assumptions (`RepairBudgetAssumption`, `ConstantsAssumption`, `ImportAssumption`,
`StateAssumption`, `SensorAssumption`, `DatabaseAssumption`, `RegistryAssumption`
and those of the executor and the adapters). They type the constants and separate
the null values; beyond that they ask for a page of at least one item, some fact of
a pull request, and a bound of at least one event, the genesis that every ledger has.

| Theorem | Statement | Argument |
|---|---|---|
| `SessionControllerProofs!TypeCorrect` | `Spec => []TypeOK` | `TypeOK` is inductive; one lemma per operator that builds a record |
| `RepairBudgetKept` | with `Foresight = 0`, `Spec => []RepairBudgetHolds` | `BudgetInv`: no request in flight expects a version not yet reached, and a count that would admit a repair *at the current version* is the current count. `RepairBudgetHolds` alone is not inductive: a client may hold any count. Applying a transition raises the version past every request in flight, so all their counts become harmless at once |
| `HistoryStaysAuthoritative` | `Spec => []HistoryIsAuthoritative` | inductive together with `TypeOK`; only `ApplyTransition` writes task, history and `audit.applied`, together |
| `OneDecision` | `Spec => []OneDecisionPerKey` | inductive on top of the history: an applied decision names the version it made, and a version is made once |
| `PlannerIsHonest` | `Spec => []PlannerAgreesWithApply` | no induction: for every well-typed state and every context, edge by edge |
| `CompletionIsReviewed`, `EvidenceIsNeverOvertaken` | `Spec => []CompletedOnLatestReview`, `CommittedOnNewestEvidence` | `EvidenceInv`: receipts are only appended, so a watermark is never ahead of them; a client *whose watermark is the present one* holds what the newest receipts say. A client with an older watermark may hold anything: the comparison in the transaction turns it away |
| `RepairBasisKept` | `Spec => []ReviewRepairBasisStands` | `RepairInv`: no snapshot carries a version that is not reached yet, so what is imported after a repair was opened is not taken for what opened it |
| `RepairsAdvance`, `ImplementationAdvances` | with `Foresight = 0`, `Spec => ReviewedRepairAdvances`, `ReviewedImplementationAdvances` | `AdvanceInv`: a client about to commit at the current version compared its HEAD with the basis of the present history, because what it read first reaches the version it expects |
| `LifecycleIsGoverned` | with `Foresight = 0`, `Spec => ImplementsGovernedLifecycle` | initial states map to initial states, `ApplyTransition` to the step of its edge, everything else to a stutter. `GovernedInv`: after the pull request exists no state of work before it is left or resumed to, and a client's phase never runs ahead of the recorded one |
| `SignedImportProofs!TypeCorrect` | `Spec => []TypeOK`, exclusion included | the lock is exactly the set of importers inside a transaction |
| `OneRowPerReceiptKept` | `Spec => []OneRowPerReceipt` | `RowInv`: what the importer inside the transaction found absent stays absent, because nobody else is inside |
| `IndexedPackageKept` | `Spec => []IndexedPackageIsStored`, a statement about behaviours in which no COMMIT fails | `StoredInv`: a controlled path is written once, so a file found or linked is still there at commit. With failing commits it is false (finding 3) |
| `NewestSnapshotIsMostRecent` | `Spec => []NewestIsMostRecent` | `RecentInv`: the package of the importer inside the transaction still advances the rows |
| `NothingIsLeftBehind` | `Spec => []NothingLeftBehind`, a statement about behaviours in which no process dies | `AnsweredInv`: a file at a controlled path is the package of that path, and is indexed or answered for by an import that linked it and has not cleaned up. `Cleanup` removes its own path only |
| `SignedSnapshotsAreSound` | `Intake => []SnapshotsAreSound` | `SensorInv`: the property for the pages read so far. Of the threads up to the cursor, those that have stood since `observed_at` are in the snapshot; what was seen, held at the instant of a query. It needs that a reply covers everything between the cursor and the next one (`ReplyCovers`), and that threads are never taken away |
| `NoBlockerHides` | with `~Overlap`, `Intake => []NoBlockerIsHidden` | a step of `Intake` is a step of `SignedImport` or leaves it alone, so the order of snapshots is the one proved there; `SignedInv`: what is imported was signed by a run of the sensor; `SensorInv`: of two runs, the one that began first had ended its queries when the other began |
| `GaapStateProofs!TypeCorrect`, `HonestAnswers`, `CommitsBuild` | `Spec => []TypeOK`, `[]AnswersAreHonest`, `[]CommitsBuildOnEachOther` | `StateInv`, inductive: at most one writer is inside a transaction, and it has seen the current revision; tokens in flight differ from each other and from every answered one; a token that is committed belongs to nobody who still may fail; a file that is not registered belongs to a registration. None of the three is inductive alone: honesty of "failed" rests on the marker being unique, that on the lock |
| `RegisteredStateIsNotRemoved` | `Spec => RegisteredStateStays` | from `StateInv`: a registration that may still fail holds an unregistered file |
| `RegisterImplemented` | `Spec => ImplementsFencedRegister` | the initial states map to initial states; `Commit` maps to the register's commit, an answer to a reply, every other step to a stutter |
| `ExecutorProofs!LayersTypeCorrect` | `LayersSpec => []LayersTypeOK` | `LayersInv`, inductive: `StateInv` of the one layer, `ServiceInv` of the other |
| `LaunchHappensOnce` | `LayersSpec => []LaunchedOnce` | `LaunchInv`: the attempt is pending exactly while nothing was launched; at most one process is between the launch and the retention, and it carries the launched directory. A second launch, the first one's answer lost or not, finds the attempt no longer pending |
| `DirectoriesMatchLaunch` | `LayersSpec => []OutputDirectoriesMatchLaunch` | `DirectoryInv`: directories are made with fresh names, so a run that fails removes one that is its own and not the launched one |
| `EvaluationsKeepOrder` | `LayersSpec => []EvaluationsNeverRegress` | `EvaluationInv`: an evaluation computed *at the current revision* knows what the journal knows |
| `ResponsesAreLostOnlyIfOvertaken` | `LayersSpec => []OnlyOvertakenResponsesAreLost`, a statement about behaviours without faults, in which evaluations may be stored at any time | `RetentionInv`: a process that read the revision for its retention still has the current one, unless an evaluation was stored since. An admission cannot come between, since it needs the observation that is not there yet (`LaunchInv`) |
| `ProcessAdaptersProofs!AdaptersTypeCorrect` | `Spec => []TypeOK` | `AdaptersInv`, inductive: `GateInv` or `GaapInv` |
| `PassedMeansOneHead`, `ReceiptsAreUnderstood` | `Spec => []PassedReceiptDescribesOneHead`, `[]ReceiptsAreAccepted` | `GateInv` says for each step of a run what the commands so far answered and what was observed: as long as it goes on, all passed on the first commit, clean; a run that is classified says which of them ended it. For any number of setup steps and changes |
| `LeftoversAreReported` | `Spec => []StoppedUnlessReported` | `GaapInv`: once the exit of the leader was seen and nothing was marked uncleaned, the group is empty |
| `StateCommandsProofs!CommandsTypeCorrect` | `CommandsSpec => []CommandsTypeOK` | `CommandsInv`, inductive: `LedgerInv`, `UndamagedInv` and `SessionsInv` |
| `DamageIsDetected` | `CommandsSpec => []DamageIsNeverHidden` | `LedgerInv`: sequences increase, and while nothing was lost from the end the last row is the last event recorded. A ledger that verifies then has as many rows as were recorded, and each holds its own event |
| `CommandsKeepTheLedgerVerified` | `CommandsSpec => []UndamagedLedgerVerifies` | `UndamagedInv`: while nothing was damaged the ledger verifies, and what was read of it is how it begins. `AppendKeepsTheChain`: verification accepts the event that `CreateAuditEvent` links to a chain it accepts |
| `SchemaIsMonotonic`, `ExportsAreKept` | `CommandsSpec => SchemaNeverGoesBack`, `ExportsStand` | from `LedgerInv`; an export under way holds a snapshot that verified |
| `NoTornRead`, `CompletedStays` | `CommandsSpec => []ReadsAreNotTorn`, `CompletedIsLeftAlone` | `SessionsInv`: a started session has all its rows, and what a command works on was started; of sessions that had ended when it began, only `reconcile` writes to one |

The hypotheses `Foresight = 0` and `~Overlap`, the condition that no COMMIT fails,
and that no evaluation overtakes a retention, are exactly what the findings 1, 4, 3
and 6 drop.

Only model-checked: the liveness properties `SharedRequestsAreAnswered` and
`CommandsEnd`. Liveness under fairness, `ENABLED` and induction over data are
beyond the prover. No module uses `RECURSIVE`, so all of them can be reached by
proofs. The properties of the violation runs are false as they stand.

## Not modelled

- Git: external; a model takes any observation of the declared shape, in one step.
  An observation torn between two git commands by a concurrent commit is not
  explored. GitHub is external as well; `ReviewSensor` models what its pages show,
  not which texts and authors.
- The GAAP effect inventory: pure validation of bindings, statements and effects; an
  envelope is valid or not in `GaapExecutor`.
- Sigstore verification, canonical JSON and the parsers: pure validation. A
  verified package is an input.
- Command line, envelopes, renderers, the text of artifacts: no state of their own.
- Which session's text a shared artifact file holds, when two commands write it at
  once, and the in-place write of `config.json`: one file each, and the code
  promises nothing about them.
- Damage to other tables than the ledger: the program's own writes never produce
  what it would reject (`HistoryIsAuthoritative`); how it meets foreign rows is
  not modelled.
- The rebuild of the receipt table during migration, one transaction; and a writer
  that checked the schema version before a migration and writes after it: the
  check is before the transaction (`sqlite-store.ts:1395-1396`), and `docs/cli.md`
  asks that other processes be stopped.
- What HEAD is at the instant of COMMIT: guards authorize the observed HEAD, by
  design.

## Plan

Modelled so far, in this order: the governed session, the signed import, the
executor's state and service, the process adapters, the ledger and database, the
review sensor, the session registry. Proved: every safety property of the passing
runs. Next:

1. `SchemaRebuild`: the receipt table renamed, recreated and refilled, with a crash
   in between.
2. The conditions under which the findings' properties hold, as theorems: for which
   receipts a gate repair keeps its basis; for which commands a timeout stops
   everything.
3. An abstract specification of the import (one table of packages) that
   `SignedImport` implements while no COMMIT fails, and one of the session's
   evidence that `GateRun` and the sensor feed.
4. Two sessions in one database: what a write to one may change of another.
