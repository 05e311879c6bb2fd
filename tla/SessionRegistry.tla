--------------------------- MODULE SessionRegistry ---------------------------
(***************************************************************************)
(* The sessions of one repository as commands start, refresh, annotate and *)
(* describe them (src/src/services/session-service.ts: startTask,          *)
(* heartbeatSession, reconcileSession, captureEntry, generateArtifact),    *)
(* while others complete them and commit to the repository.                *)
(*                                                                         *)
(* A command reads the whole state in one read transaction, observes the   *)
(* repository without any, and writes in transactions of their own; an     *)
(* artifact is also a file.  What is read is not read again.               *)
(*                                                                         *)
(* The repository is not under anybody's control here: every observation   *)
(* yields an arbitrary member of Commits.                                  *)
(***************************************************************************)
EXTENDS Naturals, FiniteSets

CONSTANTS
    Processes,
    Sessions,       \* those that may ever be started
    SlugOf,         \* the slug of each session's title, which names its artifacts
    Commits,        \* what HEAD may be found to be
    NoCommit,       \* there is no row
    MaxEntries      \* bound: entries of a session

VARIABLES
    session,        \* sessions: "absent", "open", "ended"
    active,         \* active_sessions, the stored projection
    beat,           \* the HEAD in each sessions row, from its start or last heartbeat
    snapshot,       \* repo_snapshots
    entries,        \* number of entries
    files,          \* the slugs whose artifact file was written
    artifacts,      \* rows of artifacts: the sessions that have one
    command         \* what each process runs, and what it has read

vars == <<session, active, beat, snapshot, entries, files, artifacts, command>>

InState(rows, state) == {s \in Sessions : rows[s] = state}

Operations == {"start", "heartbeat", "capture", "reconcile", "reconcile_all", "artifact",
               "artifact_only"}
Steps == {"idle", "resolve", "stored", "observe", "write", "file", "record", "corrupted"}

\* todo holds the sessions still to be worked on, rows the state that was read,
\* found the HEAD observed.  ended is a history variable: which sessions of todo
\* had ended when the command began to read.
Idle == [pc |-> "idle", op |-> "start", todo |-> {}, rows |-> [s \in Sessions |-> "absent"],
         found |-> NoCommit, ended |-> {}]

\* heartbeat, capture, reconcile and artifact are given a session;
\* `reconcile --all` and `artifact generate` without one are not.
Commands ==
    [op : {"heartbeat", "capture", "reconcile", "artifact"}, todo : {{s} : s \in Sessions}]
    \cup [op : {"reconcile_all", "artifact_only"}, todo : {{}}]

Init ==
    /\ session \in [Sessions -> {"absent", "open"}]
    /\ active = InState(session, "open")
    /\ \E commit \in Commits :
          beat = [s \in Sessions |-> IF session[s] = "open" THEN commit ELSE NoCommit]
    /\ snapshot = beat
    /\ entries = [s \in Sessions |-> IF session[s] = "open" THEN 1 ELSE 0]
    /\ files = {}
    /\ artifacts = {}
    /\ command = [p \in Processes |-> Idle]

Finish(p) == command' = [command EXCEPT ![p] = Idle]
Continue(p, step) == command' = [command EXCEPT ![p].pc = step]

\* The session of a command that is for one.
Target(p) == CHOOSE s \in command[p].todo : TRUE
-----------------------------------------------------------------------------
\* Reading, and what to do.

\* startTask reads nothing.
BeginTask(p) ==
    /\ command[p].pc = "idle"
    /\ \E s \in InState(session, "absent") :
          /\ \A q \in Processes : s \notin command[q].todo
          /\ command' = [command EXCEPT ![p] =
                [Idle EXCEPT !.pc = "observe", !.op = "start", !.todo = {s}]]
    /\ UNCHANGED <<session, active, beat, snapshot, entries, files, artifacts>>

\* Every other command: loadState, as far as the query that lists all sessions.
Begin(p) ==
    /\ command[p].pc = "idle"
    /\ \E asked \in Commands :
          command' = [command EXCEPT ![p] =
              [Idle EXCEPT !.pc = "resolve", !.op = asked.op, !.todo = asked.todo,
                           !.rows = session]]
    /\ UNCHANGED <<session, active, beat, snapshot, entries, files, artifacts>>

\* Slip: each query reads what is committed when it runs.
VisibleNow(p) == session

\* withReadSnapshot: later queries see what the first one saw.
Visible(p) == command[p].rows

\* OPEN_SESSIONS, the last query of loadState.
ActiveSessions(p) == InState(Visible(p), "open")

\* The sessions a command may work on: resolveActiveSession, resolveSessionRecord,
\* resolveSingleActiveSession.
Resolved(p) ==
    LET known == Sessions \ InState(command[p].rows, "absent")
        op == command[p].op
    IN  CASE op \in {"heartbeat", "capture"} -> command[p].todo \cap ActiveSessions(p)
          [] op \in {"reconcile", "artifact"} -> command[p].todo \cap known
          [] op = "reconcile_all" -> ActiveSessions(p)
          [] op = "artifact_only" ->
                IF Cardinality(ActiveSessions(p)) = 1 THEN ActiveSessions(p) ELSE {}

\* materializeSessionRecord: a session listed as active is an open row.
Consistent(p) ==
    command[p].op \in {"heartbeat", "capture", "artifact_only"} =>
        Resolved(p) \subseteq InState(command[p].rows, "open")

FirstStep(op) ==
    CASE op = "capture" -> "write"
      [] op \in {"artifact", "artifact_only"} -> "stored"
      [] OTHER -> "observe"

\* What is not used again is forgotten.
Resolve(p) ==
    /\ command[p].pc = "resolve"
    /\ Resolved(p) # {} /\ Consistent(p)
    /\ LET step == FirstStep(command[p].op)
           rows == command[p].rows
       IN  command' = [command EXCEPT
              ![p].pc = step,
              ![p].todo = Resolved(p),
              ![p].ended = Resolved(p) \cap InState(rows, "ended"),
              ![p].rows = [s \in Sessions |->
                  IF step = "stored" /\ s \in Resolved(p) THEN rows[s] ELSE Idle.rows[s]]]
    /\ UNCHANGED <<session, active, beat, snapshot, entries, files, artifacts>>

\* SESSION_NOT_FOUND, SESSION_REQUIRED, SESSION_AMBIGUOUS, or nothing to reconcile.
RefuseCommand(p) ==
    /\ command[p].pc = "resolve"
    /\ Resolved(p) = {}
    /\ Finish(p)
    /\ UNCHANGED <<session, active, beat, snapshot, entries, files, artifacts>>

\* STATE_CORRUPTED.
ReportCorruption(p) ==
    /\ command[p].pc = "resolve"
    /\ ~Consistent(p)
    /\ Continue(p, "corrupted")
    /\ UNCHANGED <<session, active, beat, snapshot, entries, files, artifacts>>
-----------------------------------------------------------------------------
\* Slip: an artifact always shows the repository as it is.
AlwaysLive(p) == TRUE

\* A completed session is described by its stored snapshot.
LiveSnapshot(p) == command[p].rows[Target(p)] = "open" \/ snapshot[Target(p)] = NoCommit

\* readRepoSnapshot of generateArtifact, a read transaction of its own.
ReadStoredSnapshot(p) ==
    /\ command[p].pc = "stored"
    /\ Continue(p, IF LiveSnapshot(p) THEN "observe" ELSE "file")
    /\ UNCHANGED <<session, active, beat, snapshot, entries, files, artifacts>>

\* snapshotRepo.
Observe(p) ==
    /\ command[p].pc = "observe"
    /\ \E commit \in Commits :
          command' = [command EXCEPT ![p].pc = "write", ![p].found = commit, ![p].rows = Idle.rows]
    /\ UNCHANGED <<session, active, beat, snapshot, entries, files, artifacts>>

\* insertTaskSession: every row of a session in one transaction.
StartTask(p) ==
    LET s == Target(p)
    IN  /\ command[p].pc = "write" /\ command[p].op = "start"
        /\ session' = [session EXCEPT ![s] = "open"]
        /\ active' = InState(session', "open")
        /\ beat' = [beat EXCEPT ![s] = command[p].found]
        /\ snapshot' = [snapshot EXCEPT ![s] = command[p].found]
        /\ entries' = [entries EXCEPT ![s] = 1]
        /\ Finish(p)
        /\ UNCHANGED <<files, artifacts>>

\* recordSessionHeartbeat.
Heartbeat(p) ==
    /\ command[p].pc = "write" /\ command[p].op = "heartbeat"
    /\ beat' = [beat EXCEPT ![Target(p)] = command[p].found]
    /\ Finish(p)
    /\ UNCHANGED <<session, active, snapshot, entries, files, artifacts>>

\* appendEntryToSession.
CaptureEntry(p) ==
    /\ command[p].pc = "write" /\ command[p].op = "capture"
    /\ entries[Target(p)] < MaxEntries
    /\ entries' = [entries EXCEPT ![Target(p)] = @ + 1]
    /\ Finish(p)
    /\ UNCHANGED <<session, active, beat, snapshot, files, artifacts>>

\* upsertRepoSnapshot of reconcileSession; one session after another.
Reconcile(p) ==
    /\ command[p].pc = "write" /\ command[p].op \in {"reconcile", "reconcile_all"}
    /\ \E s \in command[p].todo :
          /\ snapshot' = [snapshot EXCEPT ![s] = command[p].found]
          /\ IF command[p].todo = {s} THEN Finish(p)
             ELSE command' = [command EXCEPT ![p].pc = "observe", ![p].todo = @ \ {s},
                                             ![p].found = NoCommit]
    /\ UNCHANGED <<session, active, beat, entries, files, artifacts>>

\* upsertRepoSnapshot of generateArtifact.
StoreLiveSnapshot(p) ==
    /\ command[p].pc = "write" /\ command[p].op \in {"artifact", "artifact_only"}
    /\ snapshot' = [snapshot EXCEPT ![Target(p)] = command[p].found]
    /\ Continue(p, "file")
    /\ UNCHANGED <<session, active, beat, entries, files, artifacts>>

\* writeArtifactFile: sessions of one title share it.
WriteArtifactFile(p) ==
    /\ command[p].pc = "file"
    /\ files' = files \cup {SlugOf[Target(p)]}
    /\ command' = [command EXCEPT ![p].pc = "record", ![p].rows = Idle.rows, ![p].found = NoCommit]
    /\ UNCHANGED <<session, active, beat, snapshot, entries, artifacts>>

RecordArtifact(p) ==
    /\ command[p].pc = "record"
    /\ artifacts' = artifacts \cup {Target(p)}
    /\ Finish(p)
    /\ UNCHANGED <<session, active, beat, snapshot, entries, files>>

\* A command fails, or its process dies.
Abandon(p) ==
    /\ command[p].pc # "idle"
    /\ Finish(p)
    /\ UNCHANGED <<session, active, beat, snapshot, entries, files, artifacts>>
-----------------------------------------------------------------------------
\* applySessionTransition to completed, as SessionController has it.
Complete(s) ==
    /\ session[s] = "open"
    /\ session' = [session EXCEPT ![s] = "ended"]
    /\ active' = InState(session', "open")
    /\ UNCHANGED <<beat, snapshot, entries, files, artifacts, command>>

Next ==
    \/ \E p \in Processes :
          \/ BeginTask(p) \/ Begin(p)
          \/ Resolve(p) \/ RefuseCommand(p) \/ ReportCorruption(p)
          \/ ReadStoredSnapshot(p) \/ Observe(p)
          \/ StartTask(p) \/ Heartbeat(p) \/ CaptureEntry(p) \/ Reconcile(p)
          \/ StoreLiveSnapshot(p) \/ WriteArtifactFile(p) \/ RecordArtifact(p)
          \/ Abandon(p)
    \/ \E s \in Sessions : Complete(s)

Spec == Init /\ [][Next]_vars
-----------------------------------------------------------------------------
\* The variables have their shapes; the stored projection is that of the open
\* sessions, each session started has all its rows, and each artifact its file.
TypeOK ==
    /\ session \in [Sessions -> {"absent", "open", "ended"}]
    /\ active = InState(session, "open")
    /\ \A s \in Sessions :
          /\ {beat[s], snapshot[s]} \subseteq Commits \cup {NoCommit}
          /\ entries[s] \in 0 .. MaxEntries
          /\ {beat[s] = NoCommit, snapshot[s] = NoCommit, entries[s] = 0}
                = {session[s] = "absent"}
          /\ s \in artifacts => SlugOf[s] \in files
    /\ \A p \in Processes :
          /\ command[p].pc \in Steps /\ command[p].op \in Operations
          /\ command[p].pc \in {"stored", "write", "file", "record"} => command[p].todo # {}

\* No command reports a session registry inconsistent with itself, however its
\* queries are interleaved with starts and completions (the comment at
\* src/src/adapters/fs/sqlite-store.ts:1346-1354 describes the torn read).
ReadsAreNotTorn == \A p \in Processes : command[p].pc # "corrupted"

LeavesCompletedAlone ==
    \A s \in InState(session, "ended") :
        <<beat[s], entries[s], snapshot[s]>>' # <<beat[s], entries[s], snapshot[s]>> =>
            \E p \in Processes :
                /\ command'[p] # command[p]
                /\ s \in command[p].todo
                /\ s \notin command[p].ended \/ command[p].op = "reconcile"

\* What a session has when it is completed is left alone: its heartbeat, entries
\* and snapshot change only through a command that began before, which lands late,
\* or one that was asked to reconcile this session.
CompletedIsLeftAlone == [][LeavesCompletedAlone]_vars
=============================================================================
