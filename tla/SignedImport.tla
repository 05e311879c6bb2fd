----------------------------- MODULE SignedImport -----------------------------
(***************************************************************************)
(* Importing a verified signed package into one session                    *)
(* (src/src/services/signed-receipt-import.ts and appendSignedPackage in   *)
(* src/src/adapters/fs/sqlite-store.ts).  An import touches two stores     *)
(* that share no transaction: the receipt tables and the package files.    *)
(* The file is linked into place inside the write transaction and removed  *)
(* outside it, after a failure.  Concurrent importers, crashes, failing    *)
(* commits and a session that moves on are the interesting part.           *)
(*                                                                         *)
(* A package is a record [kind, id, pr, observed, body]; body stands for   *)
(* the content its digest covers.  Each importer first writes the package  *)
(* to a staging file of a random name that nobody else reads; staging is   *)
(* left out.                                                               *)
(***************************************************************************)
EXTENDS Naturals, Sequences

CONSTANTS
    Importers,          \* processes that import
    Packages,           \* packages that pass verification
    Statuses,           \* lifecycle states the session may move between
    NoPackage,          \* nothing is stored at a path
    MaxVersion

ASSUME ImportAssumption ==
    /\ Packages \subseteq [kind : {"gate", "review"}, id : Nat, pr : Nat, observed : Nat,
                           body : Nat]
    /\ NoPackage \notin Packages
    /\ MaxVersion \in Nat

VARIABLES
    faults,         \* what may go wrong in this behaviour
    session,        \* [status, version] of the session
    rows,           \* signed_gate_receipts and signed_review_receipts, by sequence
    events,         \* audit events recorded for imports
    disk,           \* the package file at each controlled path
    lock,           \* the importer inside the write transaction, if any
    importer        \* the import each process has in flight

vars == <<faults, session, rows, events, disk, lock, importer>>

\* COMMIT fails and its transaction is rolled back; a process dies.
Faults == {"commit", "crash"}

ImporterSteps == {"idle", "append", "promote", "commit", "cleanup"}

\* session id and file name are fixed by the session and the kind.
Path(package) == <<package.kind, package.id>>
Paths == {Path(package) : package \in Packages}

Free == {}
NoImport == [pc |-> "idle", package |-> NoPackage, version |-> 0, promoted |-> FALSE]

Rows(kind) == {i \in DOMAIN rows : rows[i].kind = kind}

\* The states in which a kind of package may be imported.
ImportStates(kind) ==
    IF kind = "gate" THEN {"verifying"} ELSE {"reviewing", "ready_for_human"}

Init ==
    /\ faults \in SUBSET Faults
    /\ session \in [status : Statuses, version : {0}]
    /\ rows = <<>>
    /\ events = 0
    /\ disk = [path \in Paths |-> NoPackage]
    /\ lock = Free
    /\ importer = [p \in Importers |-> NoImport]

Finish(p) == importer' = [importer EXCEPT ![p] = NoImport]

\* Slip: a transaction that fails is not rolled back.
StillLocked(p) == lock

\* COMMIT or ROLLBACK.
Unlocked(p) == lock \ {p}
-----------------------------------------------------------------------------
\* prepareImport and the checks against the live repository: the version is
\* the one thing kept of what was read.
Prepare(p) ==
    /\ importer[p].pc = "idle"
    /\ \E package \in Packages :
          /\ session.status \in ImportStates(package.kind)
          /\ importer' = [importer EXCEPT ![p] =
                [pc |-> "append", package |-> package, version |-> session.version,
                 promoted |-> FALSE]]
    /\ UNCHANGED <<faults, session, rows, events, disk, lock>>

\* Slip: only other content under the same id is looked for.
ExistingConflict(package) ==
    {i \in Rows(package.kind) : rows[i].id = package.id /\ rows[i] # package}

Existing(package) == {i \in Rows(package.kind) : rows[i].id = package.id}

\* assertEvidenceAppendContext.
InContext(p) ==
    /\ session.status \in ImportStates(importer[p].package.kind)
    /\ session.version = importer[p].version

\* Slip: the snapshot is compared with the first one imported only.
SnapshotAdvancesOnFirst(package) ==
    package.kind = "review" /\ Rows("review") # {} =>
        LET first == rows[CHOOSE i \in Rows("review") : \A j \in Rows("review") : i <= j]
        IN  first.pr = package.pr /\ first.observed <= package.observed

\* Slip: only the pull request is compared.
SnapshotOfOnePullRequest(package) ==
    package.kind = "review" => \A i \in Rows("review") : rows[i].pr = package.pr

\* assertReviewSnapshotAdvances, for review packages.
SnapshotAdvances(package) ==
    package.kind = "review" =>
        \A i \in Rows("review") :
            rows[i].pr = package.pr /\ rows[i].observed <= package.observed

\* The identical package was imported before.  The answer tells whether its
\* file is intact; nothing is written either way.
FindImported(p) ==
    LET package == importer[p].package
    IN  /\ importer[p].pc = "append"
        /\ lock = Free
        /\ \E i \in Existing(package) : rows[i] = package
        /\ Finish(p)
        /\ UNCHANGED <<faults, session, rows, events, disk, lock>>

\* SIGNED_RECEIPT_CONFLICT: the id holds other content, the session moved, or
\* the snapshot is not the most recent.
RefuseImport(p) ==
    LET package == importer[p].package
    IN  /\ importer[p].pc = "append"
        /\ lock = Free
        /\ \A i \in Existing(package) : rows[i] # package
        /\ Existing(package) # {} \/ ~InContext(p) \/ ~SnapshotAdvances(package)
        /\ Finish(p)
        /\ UNCHANGED <<faults, session, rows, events, disk, lock>>

\* The row and its audit event are inserted, visible to nobody before COMMIT.
InsertRow(p) ==
    /\ importer[p].pc = "append"
    /\ lock = Free
    /\ Existing(importer[p].package) = {}
    /\ InContext(p)
    /\ SnapshotAdvances(importer[p].package)
    /\ lock' = {p}
    /\ importer' = [importer EXCEPT ![p].pc = "promote"]
    /\ UNCHANGED <<faults, session, rows, events, disk>>

\* Slip: a file in the way is taken for the package.
NothingInTheWay(p) == FALSE

\* Another package occupies the controlled path.
PathTaken(p) == disk[Path(importer[p].package)] \notin {NoPackage, importer[p].package}

\* promotePackage: link, or find the identical package linked already.
PromotePackage(p) ==
    LET path == Path(importer[p].package)
        absent == disk[path] = NoPackage
    IN  /\ importer[p].pc = "promote"
        /\ ~PathTaken(p)
        /\ disk' = IF absent THEN [disk EXCEPT ![path] = importer[p].package] ELSE disk
        /\ importer' = [importer EXCEPT ![p].pc = "commit", ![p].promoted = absent]
        /\ UNCHANGED <<faults, session, rows, events, lock>>

FailToPromote(p) ==
    /\ importer[p].pc = "promote"
    /\ PathTaken(p)
    /\ lock' = Unlocked(p)
    /\ Finish(p)
    /\ UNCHANGED <<faults, session, rows, events, disk>>

Commit(p) ==
    /\ importer[p].pc = "commit"
    /\ rows' = Append(rows, importer[p].package)
    /\ events' = events + 1
    /\ lock' = Unlocked(p)
    /\ Finish(p)
    /\ UNCHANGED <<faults, session, disk>>

\* The transaction rolls back and gives up the lock before the file is removed.
FailToCommit(p) ==
    /\ "commit" \in faults
    /\ importer[p].pc = "commit"
    /\ lock' = Unlocked(p)
    /\ importer' = [importer EXCEPT ![p] =
           IF importer[p].promoted THEN [importer[p] EXCEPT !.pc = "cleanup"] ELSE NoImport]
    /\ UNCHANGED <<faults, session, rows, events, disk>>

\* Slip: cleanup forgets the promoted package.
DiskWithPackageKept(p) == disk

DiskWithoutPackage(p) == [disk EXCEPT ![Path(importer[p].package)] = NoPackage]

\* rm of the final path, whatever has become of it.
Cleanup(p) ==
    /\ importer[p].pc = "cleanup"
    /\ disk' = DiskWithoutPackage(p)
    /\ Finish(p)
    /\ UNCHANGED <<faults, session, rows, events, lock>>

\* The process dies; SQLite drops its open transaction.
Crash(p) ==
    /\ "crash" \in faults
    /\ importer[p].pc # "idle"
    /\ lock' = Unlocked(p)
    /\ Finish(p)
    /\ UNCHANGED <<faults, session, rows, events, disk>>

\* Another process applies a transition, in a write transaction of its own.
MoveSession ==
    /\ lock = Free
    /\ session.version < MaxVersion
    /\ session' \in [status : Statuses, version : {session.version + 1}]
    /\ UNCHANGED <<faults, rows, events, disk, lock, importer>>

Next ==
    \/ \E p \in Importers :
          \/ Prepare(p)
          \/ FindImported(p)
          \/ RefuseImport(p)
          \/ InsertRow(p)
          \/ PromotePackage(p)
          \/ FailToPromote(p)
          \/ Commit(p)
          \/ FailToCommit(p)
          \/ Cleanup(p)
          \/ Crash(p)
    \/ MoveSession

Spec == Init /\ [][Next]_vars
-----------------------------------------------------------------------------
Import == [pc : ImporterSteps, package : Packages \cup {NoPackage}, version : Nat,
           promoted : BOOLEAN]

\* The variables have their shapes, and the write transaction is open exactly
\* while one importer is between inserting its row and ending it.
TypeOK ==
    /\ faults \subseteq Faults
    /\ session \in [status : Statuses, version : Nat]
    /\ rows \in Seq(Packages)
    /\ events \in Nat
    /\ disk \in [Paths -> Packages \cup {NoPackage}]
    /\ importer \in [Importers -> Import]
    /\ \A p \in Importers : importer[p].pc # "idle" => importer[p].package \in Packages
    /\ lock = {p \in Importers : importer[p].pc \in {"promote", "commit"}}
    /\ \A p, q \in lock : p = q

\* Concurrent and repeated imports of one receipt produce one row and one event.
OneRowPerReceipt ==
    /\ \A i, j \in DOMAIN rows : Path(rows[i]) = Path(rows[j]) => i = j
    /\ events = Len(rows)

\* The newest review snapshot stored is the most recently observed one, of the
\* one pull request, whatever order snapshots arrive in.
NewestIsMostRecent ==
    \A i, j \in Rows("review") :
        i < j => rows[i].pr = rows[j].pr /\ rows[i].observed <= rows[j].observed

\* The package indexed as row i is at its controlled path.
PackageStored(i) == disk[Path(rows[i])] = rows[i]

\* While no COMMIT fails, every receipt indexed has its package at its
\* controlled path: no import, and none that died, leaves another package there.
IndexedPackageIsStored ==
    "commit" \notin faults => \A i \in DOMAIN rows : PackageStored(i)

\* The row and its package are kept together whatever fails, as
\* docs/attestations/review-v1.md:128-130 has it: a failed import removes no
\* package that another import has indexed.
IndexedPackageIsNeverRemoved == \A i \in DOMAIN rows : PackageStored(i)

\* Unless a process dies, a package file is indexed or belongs to an import
\* still in flight: one that was refused or failed leaves nothing behind.
NothingLeftBehind ==
    "crash" \notin faults =>
        \A path \in Paths :
            disk[path] # NoPackage =>
                \/ \E i \in DOMAIN rows : rows[i] = disk[path]
                \/ \E p \in Importers :
                      importer[p].promoted /\ importer[p].package = disk[path]
=============================================================================
