------------------------------- MODULE GaapState -------------------------------
(***************************************************************************)
(* The state database of the GAAP executor (src/src/adapters/fs/gaap-      *)
(* state.ts): registration creates it, later operations change it in       *)
(* transactions fenced by the revision they were decided on.  COMMIT may   *)
(* fail before or after it took effect, ROLLBACK may fail too, and a       *)
(* caller must never be told that something was, or was not, committed     *)
(* when the opposite is the case.                                          *)
(*                                                                         *)
(* The content of a root is left out: operations that only append to other *)
(* tables (evaluate, retaining an observation) write equal roots, so its   *)
(* revision is all a root tells about who wrote it.                        *)
(***************************************************************************)
EXTENDS Naturals, Sequences

CONSTANTS
    Writers,        \* processes
    MaxTokens       \* bound: operations that reach the database in a behaviour

ASSUME StateAssumption == MaxTokens \in Nat

VARIABLES
    file,           \* executor.sqlite: absent, created but empty, or registered
    revision,       \* of the stored root
    marker,         \* the stored commit generation
    commits,        \* what was committed, in order
    lock,           \* writers inside a write transaction
    issued,         \* tokens drawn: randomUUID never repeats
    writer          \* the operation each process has in flight

vars == <<file, revision, marker, commits, lock, issued, writer>>

NoToken == 0
Tokens == 1 .. MaxTokens
Answers == {"none", "ok", "warning", "failed", "uncertain"}
Steps == {"idle", "create", "ready", "open", "committed", "lost"}

NoAnswer == [token |-> NoToken, answer |-> "none"]
NoOperation == [pc |-> "idle", registers |-> FALSE, token |-> NoToken, basis |-> 0,
                reply |-> NoAnswer]

Init ==
    /\ file = "absent"
    /\ revision = 0
    /\ marker = NoToken
    /\ commits = <<>>
    /\ lock = {}
    /\ issued = 0
    /\ writer = [w \in Writers |-> NoOperation]

\* The process answers its caller, who may then start something else.
Answer(w, answer) ==
    writer' = [writer EXCEPT ![w] =
        [NoOperation EXCEPT !.reply = [token |-> writer[w].token, answer |-> answer]]]

Continue(w, step) == writer' = [writer EXCEPT ![w].pc = step]
-----------------------------------------------------------------------------
Start(w, step, registers) ==
    /\ writer[w].pc = "idle"
    /\ issued < MaxTokens
    /\ issued' = issued + 1
    /\ writer' = [writer EXCEPT ![w] =
           [pc |-> step, registers |-> registers, token |-> issued + 1,
            basis |-> revision, reply |-> NoAnswer]]
    /\ UNCHANGED <<revision, marker, commits, lock>>

\* initialize: the file is created exclusively, before its transaction.
CreateFile(w) ==
    /\ file = "absent"
    /\ Start(w, "create", TRUE)
    /\ file' = "empty"

\* read, after which the caller works on what it has read; the connection of
\* mutate is another one.
Read(w) ==
    /\ file = "registered"
    /\ Start(w, "ready", FALSE)
    /\ UNCHANGED file

\* state.exists on a registration, or no registered state to read.
RefuseState(w) ==
    /\ writer[w].pc = "idle"
    /\ writer' = [writer EXCEPT ![w] =
           [NoOperation EXCEPT !.reply = [token |-> NoToken, answer |-> "failed"]]]
    /\ UNCHANGED <<file, revision, marker, commits, lock, issued>>

\* Slip: the revision is not compared again inside the transaction.
RevisionAssumed(w) == TRUE

RevisionMatches(w) == revision = writer[w].basis

\* BEGIN IMMEDIATE, and every write up to COMMIT.
Begin(w) ==
    /\ \/ writer[w].pc = "create"
       \/ writer[w].pc = "ready" /\ RevisionMatches(w)
    /\ lock = {}
    /\ lock' = {w}
    /\ Continue(w, "open")
    /\ UNCHANGED <<file, revision, marker, commits, issued>>

\* A registration that is not committed removes the file it created.  Nobody
\* can have used it: a file that is not registered is refused by open.
FileAfterRollback(w) == IF writer[w].registers THEN "absent" ELSE file

\* state.fenced, a lock not obtained in time, an operation that throws, or a
\* COMMIT that fails and is rolled back.
Fail(w) ==
    /\ writer[w].pc \in {"create", "ready", "open"}
    /\ file' = FileAfterRollback(w)
    /\ lock' = lock \ {w}
    /\ Answer(w, "failed")
    /\ UNCHANGED <<revision, marker, commits, issued>>

\* Slip: INSERT OR IGNORE instead of INSERT OR REPLACE.
MarkerOfRegistration(w) == IF marker = NoToken THEN writer[w].token ELSE marker

\* writeGeneration.
NextMarker(w) == writer[w].token

\* COMMIT takes effect; the process learns of it, or gets an error instead.
Commit(w) ==
    /\ writer[w].pc = "open"
    /\ file' = "registered"
    /\ revision' = IF writer[w].registers THEN 0 ELSE revision + 1
    /\ marker' = NextMarker(w)
    /\ commits' = Append(commits, [token |-> writer[w].token, basis |-> writer[w].basis])
    /\ lock' = lock \ {w}
    /\ \E step \in {"committed", "lost"} : Continue(w, step)
    /\ UNCHANGED issued

\* COMMIT fails without effect and so does ROLLBACK: the transaction has ended,
\* or stays open until the connection is closed.
LoseCommit(w) ==
    /\ writer[w].pc = "open"
    /\ lock' \in {lock, lock \ {w}}
    /\ Continue(w, "lost")
    /\ UNCHANGED <<file, revision, marker, commits, issued>>

\* Reporting or closing may still fail after a mutation committed.  Closing the
\* connection of a registration is taken not to fail.
Report(w) ==
    /\ writer[w].pc = "committed"
    /\ \/ Answer(w, "ok")
       \/ ~writer[w].registers /\ Answer(w, "warning")
    /\ UNCHANGED <<file, revision, marker, commits, lock, issued>>

ProposedRevision(w) == IF writer[w].registers THEN 0 ELSE writer[w].basis + 1

\* Slip: an equal root proves the commit.
PersistedRoot(w) == file = "registered" /\ revision = ProposedRevision(w)

\* Slip: the connection that wrote reads its own rows back.
PersistedOrOpen(w) == w \in lock \/ marker = writer[w].token

\* persistedGeneration, over a connection of its own.
PersistedGeneration(w) ==
    /\ file = "registered"
    /\ marker = writer[w].token
    /\ revision = ProposedRevision(w)

\* Slip: a registration whose outcome is unknown is removed as well.
FileRemoved(w) == FileAfterRollback(w)

FileRetained(w) == file

\* After a commit whose outcome is unknown, the read-back decides; it may fail.
\* Whatever it says, the file is retained.
ReadBack(w) ==
    /\ writer[w].pc = "lost"
    /\ file' = FileRetained(w)
    /\ lock' = lock \ {w}
    /\ \/ PersistedGeneration(w) /\ Answer(w, "warning")
       \/ Answer(w, "uncertain")
    /\ UNCHANGED <<revision, marker, commits, issued>>

\* The process dies; SQLite undoes an open transaction, a file created stays.
Crash(w) ==
    /\ writer[w].pc # "idle"
    /\ writer' = [writer EXCEPT ![w] = NoOperation]
    /\ lock' = lock \ {w}
    /\ UNCHANGED <<file, revision, marker, commits, issued>>

Next ==
    \E w \in Writers :
        \/ CreateFile(w)
        \/ Read(w)
        \/ RefuseState(w)
        \/ Begin(w)
        \/ Fail(w)
        \/ Commit(w)
        \/ LoseCommit(w)
        \/ Report(w)
        \/ ReadBack(w)
        \/ Crash(w)

Spec == Init /\ [][Next]_vars
-----------------------------------------------------------------------------
Operation == [pc : Steps, registers : BOOLEAN, token : Tokens \cup {NoToken}, basis : Nat,
              reply : [token : Tokens \cup {NoToken}, answer : Answers]]

\* The variables have their shapes, the marker names the newest commit, and an
\* operation in flight has drawn a token of its own.
TypeOK ==
    /\ file \in {"absent", "empty", "registered"}
    /\ revision \in Nat
    /\ marker = IF commits = <<>> THEN NoToken ELSE commits[Len(commits)].token
    /\ commits \in Seq([token : Tokens, basis : Nat])
    /\ lock \subseteq Writers
    /\ issued \in Tokens \cup {0}
    /\ writer \in [Writers -> Operation]
    /\ \A w \in Writers : writer[w].pc # "idle" => writer[w].token \in 1 .. issued

Committed(token) == \E i \in DOMAIN commits : commits[i].token = token

\* No answer misreports a commit: one that confirms it is given only for what
\* is durable, one that denies it only for what is not and never will be, even
\* when another writer has since stored an equal root.
AnswersAreHonest ==
    \A w \in Writers :
        /\ writer[w].reply.answer \in {"ok", "warning"} => Committed(writer[w].reply.token)
        /\ writer[w].reply.answer = "failed" => ~Committed(writer[w].reply.token)

\* Every commit was decided on the revision it replaced: none overwrites what
\* its author had not read.
CommitsBuildOnEachOther ==
    /\ file = "registered" <=> commits # <<>>
    /\ commits # <<>> => revision = Len(commits) - 1
    /\ \A i \in DOMAIN commits : i > 1 => commits[i].basis = i - 2

\* A registered state is never removed, whichever registration failed when.
RegisteredStateStays == [][file = "registered" => file' = "registered"]_vars

Promise == INSTANCE FencedRegister WITH replies <- [w \in Writers |-> writer[w].reply]

\* Refinement: the database with its failing commits is the register that
\* FencedRegister describes.
ImplementsFencedRegister == Promise!Register
=============================================================================
