-------------------------- MODULE SignedImportProofs --------------------------
(***************************************************************************)
(* Proofs about SignedImport, for every set of importers and packages:     *)
(* type correctness with exclusion in the write transaction, one row per   *)
(* receipt, the order of snapshots, in behaviours where COMMIT does not    *)
(* fail that nothing removes or replaces an indexed package, and in those  *)
(* where no process dies that no import leaves a file behind.              *)
(***************************************************************************)
EXTENDS SignedImport, TLAPS

LEMMA TypeInit == Init => TypeOK
BY ImportAssumption DEF Init, TypeOK, NoImport, Import, ImporterSteps, Free

\* When one import moves to another well-typed step, TypeOK is kept if the lock
\* follows the transaction.
LEMMA ImporterStepType ==
    ASSUME TypeOK, NEW p \in Importers, NEW moved \in Import,
           importer' = [importer EXCEPT ![p] = moved],
           moved.pc # "idle" => moved.package \in Packages,
           faults' = faults, session' = session, rows' \in Seq(Packages), events' \in Nat,
           disk' \in [Paths -> Packages \cup {NoPackage}],
           lock' = IF moved.pc \in {"promote", "commit"} THEN {p} ELSE lock \ {p},
           moved.pc \in {"promote", "commit"} => lock \subseteq {p}
    PROVE  TypeOK'
<1>1. \A q \in Importers : importer'[q] = IF q = p THEN moved ELSE importer[q]
  BY DEF TypeOK
<1>2. importer' \in [Importers -> Import]
  BY DEF TypeOK
<1>3. lock' = {q \in Importers : importer'[q].pc \in {"promote", "commit"}}
  <2>1. lock = {q \in Importers : importer[q].pc \in {"promote", "commit"}}
    BY DEF TypeOK
  <2>. QED  BY <1>1, <2>1
<1>4. \A q, r \in lock' : q = r
  BY DEF TypeOK
<1>5. \A q \in Importers : importer'[q].pc # "idle" => importer'[q].package \in Packages
  BY <1>1 DEF TypeOK
<1>. QED  BY <1>2, <1>3, <1>4, <1>5 DEF TypeOK

LEMMA TypeNext == TypeOK /\ [Next]_vars => TypeOK'
<1>. SUFFICES ASSUME TypeOK, [Next]_vars PROVE TypeOK'
  OBVIOUS
<1>1. NoImport \in Import /\ NoImport.pc = "idle"
  BY DEF NoImport, Import, ImporterSteps
<1>2. /\ faults \subseteq Faults
      /\ session \in [status : Statuses, version : Nat]
      /\ rows \in Seq(Packages) /\ events \in Nat
      /\ disk \in [Paths -> Packages \cup {NoPackage}]
      /\ importer \in [Importers -> Import]
      /\ lock = {p \in Importers : importer[p].pc \in {"promote", "commit"}}
      /\ \A p \in Importers : importer[p].pc # "idle" => importer[p].package \in Packages
  BY DEF TypeOK
<1>3. ASSUME NEW p \in Importers, Prepare(p) PROVE TypeOK'
  <2>1. PICK package \in Packages :
          importer' = [importer EXCEPT ![p] =
             [pc |-> "append", package |-> package, version |-> session.version,
              promoted |-> FALSE]]
    BY <1>3 DEF Prepare
  <2>2. p \notin lock
    BY <1>2, <1>3 DEF Prepare
  <2>3. [pc |-> "append", package |-> package, version |-> session.version,
         promoted |-> FALSE] \in Import
    BY <1>2 DEF Import, ImporterSteps
  <2>. QED  BY <1>2, <1>3, <2>1, <2>2, <2>3, ImporterStepType DEF Prepare
<1>4. ASSUME NEW p \in Importers, importer[p].pc = "append", Finish(p),
             UNCHANGED <<faults, session, rows, events, disk, lock>>
      PROVE  TypeOK'
  <2>1. p \notin lock
    BY <1>2, <1>4
  <2>. QED  BY <1>1, <1>2, <1>4, <2>1, ImporterStepType DEF Finish
<1>5. ASSUME NEW p \in Importers, FindImported(p) \/ RefuseImport(p) PROVE TypeOK'
  BY <1>4, <1>5 DEF FindImported, RefuseImport
<1>6. ASSUME NEW p \in Importers, InsertRow(p) PROVE TypeOK'
  <2>1. [importer[p] EXCEPT !.pc = "promote"] \in Import
    BY <1>2 DEF Import, ImporterSteps
  <2>2. /\ [importer[p] EXCEPT !.pc = "promote"].package \in Packages
        /\ [importer[p] EXCEPT !.pc = "promote"].pc = "promote"
    BY <1>2, <1>6 DEF InsertRow, Import
  <2>3. importer' = [importer EXCEPT ![p] = [importer[p] EXCEPT !.pc = "promote"]]
    BY <1>6 DEF InsertRow
  <2>. QED  BY <1>2, <1>6, <2>1, <2>2, <2>3, ImporterStepType DEF InsertRow, Free
<1>7. ASSUME NEW p \in Importers, PromotePackage(p) PROVE TypeOK'
  <2>. DEFINE path == Path(importer[p].package)
              absent == disk[path] = NoPackage
              moved == [importer[p] EXCEPT !.pc = "commit", !.promoted = absent]
  <2>1. importer[p].package \in Packages /\ importer[p].pc = "promote"
    BY <1>2, <1>7 DEF PromotePackage
  <2>2. moved \in Import /\ moved.pc = "commit" /\ moved.package = importer[p].package
    BY <1>2 DEF Import, ImporterSteps
  <2>3. disk' \in [Paths -> Packages \cup {NoPackage}]
    BY <1>2, <1>7, <2>1 DEF PromotePackage
  <2>4. lock' = {p} /\ lock \subseteq {p}
    BY <1>2, <1>7, <2>1 DEF PromotePackage, TypeOK
  <2>5. importer' = [importer EXCEPT ![p] = moved]
    BY <1>7 DEF PromotePackage
  <2>6. faults' = faults /\ session' = session /\ rows' = rows /\ events' = events
    BY <1>7 DEF PromotePackage
  <2>. HIDE DEF moved, path, absent
  <2>. QED  BY <1>2, <2>1, <2>2, <2>3, <2>4, <2>5, <2>6, ImporterStepType
<1>8. ASSUME NEW p \in Importers, FailToPromote(p) \/ Crash(p) PROVE TypeOK'
  BY <1>1, <1>2, <1>8, ImporterStepType DEF FailToPromote, Crash, Finish, Unlocked
<1>9. ASSUME NEW p \in Importers, Commit(p) PROVE TypeOK'
  <2>1. importer[p].package \in Packages
    BY <1>2, <1>9 DEF Commit
  <2>2. rows' \in Seq(Packages) /\ events' \in Nat
    BY <1>2, <1>9, <2>1 DEF Commit
  <2>. QED  BY <1>1, <1>2, <1>9, <2>2, ImporterStepType DEF Commit, Finish, Unlocked
<1>10. ASSUME NEW p \in Importers, FailToCommit(p) PROVE TypeOK'
  <2>. DEFINE moved == IF importer[p].promoted THEN [importer[p] EXCEPT !.pc = "cleanup"]
                       ELSE NoImport
  <2>1. moved \in Import /\ moved.pc \in {"cleanup", "idle"}
    BY <1>1, <1>2 DEF Import, ImporterSteps
  <2>2. moved.pc # "idle" => moved.package \in Packages
    BY <1>1, <1>2, <1>10 DEF FailToCommit, Import
  <2>3. importer' = [importer EXCEPT ![p] = moved]
    BY <1>10 DEF FailToCommit
  <2>. HIDE DEF moved
  <2>. QED
    BY <1>2, <1>10, <2>1, <2>2, <2>3, ImporterStepType DEF FailToCommit, Unlocked
<1>11. ASSUME NEW p \in Importers, Cleanup(p) PROVE TypeOK'
  <2>1. disk' \in [Paths -> Packages \cup {NoPackage}]
    BY <1>2, <1>11 DEF Cleanup, DiskWithoutPackage
  <2>2. lock' = lock \ {p}
    BY <1>2, <1>11 DEF Cleanup
  <2>. QED  BY <1>1, <1>2, <1>11, <2>1, <2>2, ImporterStepType DEF Cleanup, Finish
<1>12. CASE MoveSession
  BY <1>12 DEF MoveSession, TypeOK
<1>13. CASE UNCHANGED vars
  BY <1>13 DEF vars, TypeOK
<1>. QED
  BY <1>3, <1>5, <1>6, <1>7, <1>8, <1>9, <1>10, <1>11, <1>12, <1>13 DEF Next

\* Every reachable state is well typed, and at most one importer is between
\* inserting its row and ending its transaction.
THEOREM TypeCorrect == Spec => []TypeOK
BY TypeInit, TypeNext, PTL DEF Spec
-----------------------------------------------------------------------------
\* One row per receipt.  The lookup and the insertion are one transaction, so
\* what the importer inside it found absent stays absent until it commits.

NotYetIndexed(p) ==
    importer[p].pc \in {"promote", "commit"} =>
        \A i \in DOMAIN rows : Path(rows[i]) # Path(importer[p].package)

RowInv == TypeOK /\ OneRowPerReceipt /\ \A p \in Importers : NotYetIndexed(p)

LEMMA RowInit == Init => RowInv
BY TypeInit DEF Init, RowInv, OneRowPerReceipt, NotYetIndexed, NoImport

LEMMA ExistingAbsent ==
    ASSUME TypeOK, NEW package \in Packages, Existing(package) = {}
    PROVE  \A i \in DOMAIN rows : Path(rows[i]) # Path(package)
<1>. SUFFICES ASSUME NEW i \in DOMAIN rows, Path(rows[i]) = Path(package) PROVE FALSE
  OBVIOUS
<1>1. rows[i].kind = package.kind /\ rows[i].id = package.id
  BY DEF Path
<1>. QED  BY <1>1 DEF Existing, Rows

LEMMA RowNext == RowInv /\ [Next]_vars => RowInv'
<1>. SUFFICES ASSUME RowInv, [Next]_vars PROVE RowInv'
  OBVIOUS
<1>1. TypeOK /\ TypeOK'
  BY TypeNext DEF RowInv
<1>2. importer \in [Importers -> Import] /\ rows \in Seq(Packages) /\ events \in Nat
  BY <1>1 DEF TypeOK
<1>3. \A p, q \in Importers :
         importer[p].pc \in {"promote", "commit"} /\ importer[q].pc \in {"promote", "commit"}
           => p = q
  BY <1>1 DEF TypeOK
<1>4. ASSUME NEW p \in Importers, rows' = rows, events' = events,
             \A q \in Importers \ {p} : importer'[q] = importer[q], NotYetIndexed(p)'
      PROVE  RowInv'
  BY <1>1, <1>4 DEF RowInv, OneRowPerReceipt, NotYetIndexed
<1>5. ASSUME NEW p \in Importers,
             Prepare(p) \/ FindImported(p) \/ RefuseImport(p) \/ FailToPromote(p)
               \/ FailToCommit(p) \/ Cleanup(p) \/ Crash(p)
      PROVE  RowInv'
  <2>1. /\ rows' = rows /\ events' = events
        /\ \A q \in Importers \ {p} : importer'[q] = importer[q]
    BY <1>2, <1>5
       DEF Prepare, FindImported, RefuseImport, FailToPromote, FailToCommit, Cleanup, Crash,
           Finish
  <2>2. importer'[p].pc \notin {"promote", "commit"}
    BY <1>2, <1>5
       DEF Prepare, FindImported, RefuseImport, FailToPromote, FailToCommit, Cleanup, Crash,
           Finish, NoImport, Import
  <2>. QED  BY <1>4, <2>1, <2>2 DEF NotYetIndexed
<1>6. ASSUME NEW p \in Importers, InsertRow(p) PROVE RowInv'
  <2>1. importer[p].package \in Packages
    BY <1>1, <1>6 DEF InsertRow, TypeOK
  <2>2. \A i \in DOMAIN rows : Path(rows[i]) # Path(importer[p].package)
    BY <1>1, <1>6, <2>1, ExistingAbsent DEF InsertRow
  <2>3. /\ rows' = rows /\ events' = events
        /\ importer'[p].package = importer[p].package
        /\ \A q \in Importers \ {p} : importer'[q] = importer[q]
    BY <1>2, <1>6 DEF InsertRow, Import
  <2>. QED  BY <1>4, <2>2, <2>3 DEF NotYetIndexed
<1>7. ASSUME NEW p \in Importers, PromotePackage(p) PROVE RowInv'
  <2>1. /\ rows' = rows /\ events' = events
        /\ importer'[p].package = importer[p].package
        /\ \A q \in Importers \ {p} : importer'[q] = importer[q]
    BY <1>2, <1>7 DEF PromotePackage, Import
  <2>2. NotYetIndexed(p) /\ importer[p].pc = "promote"
    BY <1>7 DEF RowInv, PromotePackage
  <2>. QED  BY <1>4, <2>1, <2>2 DEF NotYetIndexed
<1>8. ASSUME NEW p \in Importers, Commit(p) PROVE RowInv'
  <2>1. /\ importer[p].pc = "commit"
        /\ rows' = Append(rows, importer[p].package)
        /\ events' = events + 1
        /\ importer[p].package \in Packages
        /\ \A q \in Importers : importer'[q] = IF q = p THEN NoImport ELSE importer[q]
    BY <1>1, <1>2, <1>8 DEF Commit, Finish, TypeOK
  <2>2. /\ Len(rows') = Len(rows) + 1
        /\ DOMAIN rows' = 1 .. Len(rows) + 1
        /\ DOMAIN rows = 1 .. Len(rows)
        /\ rows'[Len(rows) + 1] = importer[p].package
        /\ \A i \in DOMAIN rows : rows'[i] = rows[i]
    BY <1>2, <2>1
  <2>3. \A i \in DOMAIN rows : Path(rows[i]) # Path(importer[p].package)
    BY <2>1 DEF RowInv, NotYetIndexed
  <2>4. ASSUME NEW i \in DOMAIN rows', NEW j \in DOMAIN rows', Path(rows'[i]) = Path(rows'[j])
        PROVE  i = j
    <3>1. \A k \in DOMAIN rows' : k \in DOMAIN rows \/ k = Len(rows) + 1
      BY <1>2, <2>2
    <3>2. i \in DOMAIN rows /\ j \in DOMAIN rows => i = j
      BY <2>2, <2>4 DEF RowInv, OneRowPerReceipt
    <3>3. ~(i \in DOMAIN rows /\ j = Len(rows) + 1)
      BY <2>2, <2>3, <2>4
    <3>4. ~(j \in DOMAIN rows /\ i = Len(rows) + 1)
      BY <2>2, <2>3, <2>4
    <3>. QED  BY <3>1, <3>2, <3>3, <3>4
  <2>5. OneRowPerReceipt'
    <3>1. events' = Len(rows')
      BY <1>2, <2>1, <2>2 DEF RowInv, OneRowPerReceipt
    <3>. QED  BY <2>4, <3>1 DEF OneRowPerReceipt
  <2>6. ASSUME NEW q \in Importers PROVE NotYetIndexed(q)'
    <3>1. importer'[q].pc \notin {"promote", "commit"}
      BY <1>3, <2>1 DEF NoImport
    <3>. QED  BY <3>1 DEF NotYetIndexed
  <2>. QED  BY <1>1, <2>5, <2>6 DEF RowInv
<1>9. CASE MoveSession \/ UNCHANGED vars
  BY <1>1, <1>9 DEF MoveSession, vars, RowInv, OneRowPerReceipt, NotYetIndexed
<1>. QED  BY <1>5, <1>6, <1>7, <1>8, <1>9 DEF Next

\* However imports repeat, race, crash and fail, a receipt has one row and the
\* audit ledger one event for it.
THEOREM OneRowPerReceiptKept == Spec => []OneRowPerReceipt
<1>1. RowInv => OneRowPerReceipt
  BY DEF RowInv
<1>. QED  BY <1>1, RowInit, RowNext, PTL DEF Spec
-----------------------------------------------------------------------------
\* The package files, while no COMMIT fails: a controlled path is written once,
\* so a file an importer linked or found is still there when its row commits.

StoredInv ==
    /\ TypeOK
    /\ \A i \in DOMAIN rows : PackageStored(i)
    /\ \A p \in Importers :
          /\ importer[p].pc # "cleanup"
          /\ importer[p].pc = "commit"
               => disk[Path(importer[p].package)] = importer[p].package

LEMMA StoredInit == Init => StoredInv
BY TypeInit DEF Init, StoredInv, NoImport

LEMMA StoredNext == "commit" \notin faults /\ StoredInv /\ [Next]_vars => StoredInv'
<1>. SUFFICES ASSUME "commit" \notin faults, StoredInv, [Next]_vars PROVE StoredInv'
  OBVIOUS
<1>1. TypeOK /\ TypeOK'
  BY TypeNext DEF StoredInv
<1>2. /\ importer \in [Importers -> Import]
      /\ rows \in Seq(Packages)
      /\ disk \in [Paths -> Packages \cup {NoPackage}]
      /\ \A p \in Importers : importer[p].pc # "idle" => importer[p].package \in Packages
  BY <1>1 DEF TypeOK
<1>3. \A p \in Importers : importer[p].pc # "cleanup"
  BY DEF StoredInv
<1>4. ASSUME NEW p \in Importers, rows' = rows, disk' = disk,
             \A q \in Importers \ {p} : importer'[q] = importer[q],
             importer'[p].pc \notin {"commit", "cleanup"}
      PROVE  StoredInv'
  BY <1>1, <1>4 DEF StoredInv, PackageStored
<1>5. ASSUME NEW p \in Importers,
             Prepare(p) \/ FindImported(p) \/ RefuseImport(p) \/ InsertRow(p)
               \/ FailToPromote(p) \/ Crash(p)
      PROVE  StoredInv'
  <2>1. /\ rows' = rows /\ disk' = disk
        /\ \A q \in Importers \ {p} : importer'[q] = importer[q]
    BY <1>2, <1>5
       DEF Prepare, FindImported, RefuseImport, InsertRow, FailToPromote, Crash, Finish
  <2>2. importer'[p].pc \notin {"commit", "cleanup"}
    BY <1>2, <1>5
       DEF Prepare, FindImported, RefuseImport, InsertRow, FailToPromote, Crash, Finish,
           NoImport, Import
  <2>. QED  BY <1>4, <2>1, <2>2
<1>6. ASSUME NEW p \in Importers, PromotePackage(p) PROVE StoredInv'
  <2>. DEFINE package == importer[p].package
              path == Path(package)
  <2>1. /\ package \in Packages /\ path \in Paths
        /\ disk[path] \in {NoPackage, package}
        /\ disk' = IF disk[path] = NoPackage THEN [disk EXCEPT ![path] = package] ELSE disk
        /\ rows' = rows
    BY <1>2, <1>6 DEF PromotePackage, PathTaken, Paths
  <2>2. /\ importer'[p].pc = "commit" /\ importer'[p].package = package
        /\ \A q \in Importers \ {p} : importer'[q] = importer[q]
    BY <1>2, <1>6 DEF PromotePackage, Import
  <2>3. \A other \in Paths : disk[other] # NoPackage => disk'[other] = disk[other]
    BY <1>2, <2>1
  <2>4. disk'[path] = package
    BY <1>2, <2>1
  <2>5. ASSUME NEW i \in DOMAIN rows' PROVE disk'[Path(rows'[i])] = rows'[i]
    <3>1. rows[i] \in Packages /\ disk[Path(rows[i])] = rows[i]
      BY <1>2, <2>1 DEF StoredInv, PackageStored
    <3>2. Path(rows[i]) \in Paths /\ rows[i] # NoPackage
      BY <3>1, ImportAssumption DEF Paths
    <3>. QED  BY <2>1, <2>3, <3>1, <3>2
  <2>6. ASSUME NEW q \in Importers
        PROVE  /\ importer'[q].pc # "cleanup"
               /\ importer'[q].pc = "commit"
                    => disk'[Path(importer'[q].package)] = importer'[q].package
    <3>1. CASE q = p
      BY <2>2, <2>4, <3>1
    <3>2. CASE q # p
      <4>1. importer'[q] = importer[q]
        BY <2>2, <3>2
      <4>2. CASE importer[q].pc = "commit"
        <5>1. importer[q].package \in Packages
          BY <1>2, <4>2
        <5>2. Path(importer[q].package) \in Paths /\ importer[q].package # NoPackage
          BY <5>1, ImportAssumption DEF Paths
        <5>. QED  BY <2>3, <4>1, <4>2, <5>2 DEF StoredInv
      <4>. QED  BY <1>3, <4>1, <4>2
    <3>. QED  BY <3>1, <3>2
  <2>. QED  BY <1>1, <2>5, <2>6 DEF StoredInv, PackageStored
<1>7. ASSUME NEW p \in Importers, Commit(p) PROVE StoredInv'
  <2>1. /\ importer[p].package \in Packages
        /\ disk[Path(importer[p].package)] = importer[p].package
        /\ rows' = Append(rows, importer[p].package)
        /\ disk' = disk
        /\ \A q \in Importers : importer'[q] = IF q = p THEN NoImport ELSE importer[q]
    BY <1>2, <1>7 DEF Commit, Finish, StoredInv
  <2>2. \A i \in DOMAIN rows' :
           rows'[i] = IF i \in DOMAIN rows THEN rows[i] ELSE importer[p].package
    BY <1>2, <2>1
  <2>. QED  BY <1>1, <2>1, <2>2 DEF StoredInv, PackageStored, NoImport
<1>8. CASE MoveSession \/ UNCHANGED vars
  BY <1>1, <1>8 DEF MoveSession, vars, StoredInv, PackageStored
<1>9. \A p \in Importers : ~FailToCommit(p) /\ ~Cleanup(p)
  BY <1>3 DEF FailToCommit, Cleanup
<1>. QED  BY <1>5, <1>6, <1>7, <1>8, <1>9 DEF Next

\* Whether COMMIT may fail does not change within a behaviour.
StoredUnlessCommitFails == "commit" \notin faults => StoredInv

LEMMA FaultsStay == [Next]_vars => faults' = faults
BY DEF Next, vars, Prepare, FindImported, RefuseImport, InsertRow, PromotePackage,
       FailToPromote, Commit, FailToCommit, Cleanup, Crash, MoveSession

\* While no COMMIT fails, crashes and rival imports included, every indexed
\* receipt keeps its own package at its controlled path.
THEOREM IndexedPackageKept == Spec => []IndexedPackageIsStored
<1>1. Init => StoredUnlessCommitFails
  BY StoredInit DEF StoredUnlessCommitFails
<1>2. StoredUnlessCommitFails /\ [Next]_vars => StoredUnlessCommitFails'
  BY StoredNext, FaultsStay DEF StoredUnlessCommitFails
<1>3. StoredUnlessCommitFails => IndexedPackageIsStored
  BY DEF StoredUnlessCommitFails, StoredInv, IndexedPackageIsStored
<1>. QED  BY <1>1, <1>2, <1>3, PTL DEF Spec
-----------------------------------------------------------------------------
\* The order of snapshots.  It is checked in the transaction that inserts, so no
\* snapshot can come between the check and the row.

SnapshotStillAdvances(p) ==
    importer[p].pc \in {"promote", "commit"} => SnapshotAdvances(importer[p].package)

RecentInv ==
    /\ TypeOK
    /\ NewestIsMostRecent
    /\ \A p \in Importers : SnapshotStillAdvances(p)

LEMMA RecentInit == Init => RecentInv
BY TypeInit DEF Init, RecentInv, NewestIsMostRecent, Rows, SnapshotStillAdvances, NoImport

LEMMA RecentNext == RecentInv /\ [Next]_vars => RecentInv'
<1>. SUFFICES ASSUME RecentInv, [Next]_vars PROVE RecentInv'
  OBVIOUS
<1>1. TypeOK /\ TypeOK'
  BY TypeNext DEF RecentInv
<1>2. importer \in [Importers -> Import] /\ rows \in Seq(Packages)
  BY <1>1 DEF TypeOK
<1>3. \A p, q \in Importers :
         importer[p].pc \in {"promote", "commit"} /\ importer[q].pc \in {"promote", "commit"}
           => p = q
  BY <1>1 DEF TypeOK
<1>4. ASSUME NEW p \in Importers, rows' = rows,
             \A q \in Importers \ {p} : importer'[q] = importer[q],
             SnapshotStillAdvances(p)'
      PROVE  RecentInv'
  <2>1. NewestIsMostRecent'
    BY <1>4 DEF RecentInv, NewestIsMostRecent, Rows
  <2>2. ASSUME NEW q \in Importers \ {p} PROVE SnapshotStillAdvances(q)'
    BY <1>4 DEF RecentInv, SnapshotStillAdvances, SnapshotAdvances, Rows
  <2>. QED  BY <1>1, <1>4, <2>1, <2>2 DEF RecentInv
<1>5. ASSUME NEW p \in Importers,
             Prepare(p) \/ FindImported(p) \/ RefuseImport(p) \/ FailToPromote(p)
               \/ FailToCommit(p) \/ Cleanup(p) \/ Crash(p)
      PROVE  RecentInv'
  <2>1. /\ rows' = rows
        /\ \A q \in Importers \ {p} : importer'[q] = importer[q]
    BY <1>2, <1>5
       DEF Prepare, FindImported, RefuseImport, FailToPromote, FailToCommit, Cleanup, Crash,
           Finish
  <2>2. importer'[p].pc \notin {"promote", "commit"}
    BY <1>2, <1>5
       DEF Prepare, FindImported, RefuseImport, FailToPromote, FailToCommit, Cleanup, Crash,
           Finish, NoImport, Import
  <2>. QED  BY <1>4, <2>1, <2>2 DEF SnapshotStillAdvances
<1>6. ASSUME NEW p \in Importers, InsertRow(p) \/ PromotePackage(p) PROVE RecentInv'
  <2>1. /\ rows' = rows /\ importer'[p].package = importer[p].package
        /\ \A q \in Importers \ {p} : importer'[q] = importer[q]
    BY <1>2, <1>6 DEF InsertRow, PromotePackage, Import
  <2>2. SnapshotAdvances(importer[p].package)
    BY <1>6 DEF InsertRow, PromotePackage, RecentInv, SnapshotStillAdvances
  <2>3. SnapshotStillAdvances(p)'
    BY <2>1, <2>2 DEF SnapshotStillAdvances, SnapshotAdvances, Rows
  <2>. QED  BY <1>4, <2>1, <2>3
<1>7. ASSUME NEW p \in Importers, Commit(p) PROVE RecentInv'
  <2>. DEFINE package == importer[p].package
              n == Len(rows) + 1
  <2>1. /\ importer[p].pc = "commit"
        /\ rows' = Append(rows, package)
        /\ package \in Packages
        /\ \A q \in Importers : importer'[q] = IF q = p THEN NoImport ELSE importer[q]
    BY <1>1, <1>2, <1>7 DEF Commit, Finish, TypeOK
  <2>2. SnapshotAdvances(package)
    BY <2>1 DEF RecentInv, SnapshotStillAdvances
  <2>. HIDE DEF package
  <2>3. /\ DOMAIN rows' = 1 .. n /\ DOMAIN rows = 1 .. Len(rows) /\ Len(rows) \in Nat
        /\ rows'[n] = package
        /\ \A i \in DOMAIN rows : rows'[i] = rows[i]
    BY <1>2, <2>1
  <2>4. ASSUME NEW i \in Rows("review")', NEW j \in Rows("review")', i < j
        PROVE  rows'[i].pr = rows'[j].pr /\ rows'[i].observed <= rows'[j].observed
    <3>1. /\ i \in 1 .. n /\ j \in 1 .. n
          /\ rows'[i].kind = "review" /\ rows'[j].kind = "review"
      BY <2>3 DEF Rows
    <3>2. i \in DOMAIN rows
      BY <2>3, <2>4, <3>1
    <3>3. i \in Rows("review")
      BY <2>3, <3>1, <3>2 DEF Rows
    <3>4. CASE j = n
      <4>1. rows[i].pr = package.pr /\ rows[i].observed <= package.observed
        BY <2>2, <2>3, <3>1, <3>3, <3>4 DEF SnapshotAdvances
      <4>. QED  BY <2>3, <3>2, <3>4, <4>1
    <3>5. CASE j # n
      <4>1. j \in DOMAIN rows /\ j \in Rows("review")
        BY <2>3, <3>1, <3>5 DEF Rows
      <4>. QED  BY <2>3, <2>4, <3>2, <3>3, <4>1 DEF RecentInv, NewestIsMostRecent
    <3>. QED  BY <3>4, <3>5
  <2>5. ASSUME NEW q \in Importers PROVE SnapshotStillAdvances(q)'
    BY <1>3, <2>1 DEF SnapshotStillAdvances, NoImport
  <2>. QED  BY <1>1, <2>4, <2>5 DEF RecentInv, NewestIsMostRecent
<1>8. CASE MoveSession \/ UNCHANGED vars
  BY <1>1, <1>8
     DEF MoveSession, vars, RecentInv, NewestIsMostRecent, Rows, SnapshotStillAdvances,
         SnapshotAdvances
<1>. QED  BY <1>5, <1>6, <1>7, <1>8 DEF Next

\* In whatever order snapshots are fetched and imported, the one stored last is
\* the one observed last, and all are of one pull request.
THEOREM NewestSnapshotIsMostRecent == Spec => []NewestIsMostRecent
<1>1. RecentInv => NewestIsMostRecent
  BY DEF RecentInv
<1>. QED  BY <1>1, RecentInit, RecentNext, PTL DEF Spec
-----------------------------------------------------------------------------
\* What an import leaves on disk, while no process dies: a file was linked by an
\* import that still answers for it, until its row commits.

Answered(path) ==
    \/ \E i \in DOMAIN rows : rows[i] = disk[path]
    \/ \E p \in Importers : importer[p].promoted /\ importer[p].package = disk[path]

AnsweredInv ==
    /\ TypeOK
    /\ \A p \in Importers : importer[p].promoted => importer[p].pc \in {"commit", "cleanup"}
    /\ \A path \in Paths :
          disk[path] # NoPackage => Path(disk[path]) = path /\ Answered(path)

AnsweredUnlessCrash == "crash" \notin faults => AnsweredInv

LEMMA AnsweredInit == Init => AnsweredInv
BY TypeInit DEF Init, AnsweredInv, NoImport

LEMMA AnsweredNext == "crash" \notin faults /\ AnsweredInv /\ [Next]_vars => AnsweredInv'
<1>. SUFFICES ASSUME "crash" \notin faults, AnsweredInv, [Next]_vars PROVE AnsweredInv'
  OBVIOUS
<1>1. TypeOK /\ TypeOK'
  BY TypeNext DEF AnsweredInv
<1>2. /\ importer \in [Importers -> Import]
      /\ rows \in Seq(Packages)
      /\ disk \in [Paths -> Packages \cup {NoPackage}]
      /\ \A p \in Importers : importer[p].pc # "idle" => importer[p].package \in Packages
  BY <1>1 DEF TypeOK
<1>3. ASSUME NEW p \in Importers, rows' = rows, disk' = disk,
             \A q \in Importers \ {p} : importer'[q] = importer[q],
             importer'[p].promoted => importer'[p].pc \in {"commit", "cleanup"},
             importer[p].promoted =>
                importer'[p].promoted /\ importer'[p].package = importer[p].package
      PROVE  AnsweredInv'
  BY <1>1, <1>3 DEF AnsweredInv, Answered
<1>4. ASSUME NEW p \in Importers,
             Prepare(p) \/ FindImported(p) \/ RefuseImport(p) \/ FailToPromote(p) \/ InsertRow(p)
      PROVE  AnsweredInv'
  <2>1. ~importer[p].promoted
    BY <1>4
       DEF Prepare, FindImported, RefuseImport, FailToPromote, InsertRow, AnsweredInv
  <2>2. /\ rows' = rows /\ disk' = disk
        /\ ~importer'[p].promoted
        /\ \A q \in Importers \ {p} : importer'[q] = importer[q]
    BY <1>2, <1>4, <2>1
       DEF Prepare, FindImported, RefuseImport, FailToPromote, InsertRow, Finish, NoImport, Import
  <2>. QED  BY <1>3, <2>1, <2>2
<1>5. ASSUME NEW p \in Importers, FailToCommit(p) PROVE AnsweredInv'
  <2>1. /\ rows' = rows /\ disk' = disk
        /\ \A q \in Importers \ {p} : importer'[q] = importer[q]
    BY <1>2, <1>5 DEF FailToCommit
  <2>2. CASE importer[p].promoted
    <3>1. /\ importer'[p].pc = "cleanup" /\ importer'[p].promoted
          /\ importer'[p].package = importer[p].package
      BY <1>2, <1>5, <2>2 DEF FailToCommit, Import
    <3>. QED  BY <1>3, <2>1, <3>1
  <2>3. CASE ~importer[p].promoted
    <3>1. ~importer'[p].promoted
      BY <1>2, <1>5, <2>3 DEF FailToCommit, NoImport
    <3>. QED  BY <1>3, <2>1, <2>3, <3>1
  <2>. QED  BY <2>2, <2>3
<1>6. ASSUME NEW p \in Importers, PromotePackage(p) PROVE AnsweredInv'
  <2>. DEFINE package == importer[p].package
              path == Path(package)
  <2>1. /\ package \in Packages /\ path \in Paths
        /\ disk[path] \in {NoPackage, package}
        /\ disk' = IF disk[path] = NoPackage THEN [disk EXCEPT ![path] = package] ELSE disk
        /\ rows' = rows
    BY <1>2, <1>6 DEF PromotePackage, PathTaken, Paths
  <2>2. /\ importer'[p].pc = "commit" /\ importer'[p].package = package
        /\ importer'[p].promoted = (disk[path] = NoPackage)
        /\ \A q \in Importers \ {p} : importer'[q] = importer[q]
        /\ ~importer[p].promoted
    BY <1>2, <1>6 DEF PromotePackage, Import, AnsweredInv
  <2>3. CASE disk[path] # NoPackage
    <3>1. disk' = disk /\ ~importer'[p].promoted
      BY <2>1, <2>2, <2>3
    <3>. QED  BY <1>3, <2>1, <2>2, <3>1
  <2>4. CASE disk[path] = NoPackage
    <3>1. disk'[path] = package /\ importer'[p].promoted
      BY <1>2, <2>1, <2>2, <2>4
    <3>2. \A other \in Paths \ {path} : disk'[other] = disk[other]
      BY <1>2, <2>1, <2>4
    <3>3. ASSUME NEW other \in Paths, disk'[other] # NoPackage
          PROVE  Path(disk'[other]) = other /\ Answered(other)'
      <4>1. CASE other = path
        BY <2>2, <3>1, <4>1 DEF Answered
      <4>2. CASE other # path
        <5>1. disk'[other] = disk[other] /\ Path(disk[other]) = other /\ Answered(other)
          BY <3>2, <3>3, <4>2 DEF AnsweredInv
        <5>2. ASSUME NEW q \in Importers, importer[q].promoted, importer[q].package = disk[other]
              PROVE  importer'[q].promoted /\ importer'[q].package = disk[other]
          BY <2>2, <5>2
        <5>. QED  BY <2>1, <5>1, <5>2 DEF Answered
      <4>. QED  BY <4>1, <4>2
    <3>4. \A q \in Importers : importer'[q].promoted => importer'[q].pc \in {"commit", "cleanup"}
      BY <2>2 DEF AnsweredInv
    <3>. QED  BY <1>1, <3>3, <3>4 DEF AnsweredInv
  <2>. QED  BY <2>3, <2>4
<1>7. ASSUME NEW p \in Importers, Commit(p) PROVE AnsweredInv'
  <2>1. /\ rows' = Append(rows, importer[p].package)
        /\ disk' = disk
        /\ \A q \in Importers : importer'[q] = IF q = p THEN NoImport ELSE importer[q]
    BY <1>2, <1>7 DEF Commit, Finish
  <2>2. /\ Len(rows) + 1 \in DOMAIN rows'
        /\ rows'[Len(rows) + 1] = importer[p].package
        /\ \A i \in DOMAIN rows : i \in DOMAIN rows' /\ rows'[i] = rows[i]
    BY <1>2, <2>1
  <2>3. ASSUME NEW path \in Paths, disk[path] # NoPackage PROVE Answered(path)'
    <3>1. Answered(path)
      BY <2>3 DEF AnsweredInv
    <3>2. CASE \E i \in DOMAIN rows : rows[i] = disk[path]
      BY <2>1, <2>2, <3>2 DEF Answered
    <3>3. CASE \E q \in Importers : importer[q].promoted /\ importer[q].package = disk[path]
      <4>1. PICK q \in Importers : importer[q].promoted /\ importer[q].package = disk[path]
        BY <3>3
      <4>2. CASE q = p
        BY <2>1, <2>2, <4>1, <4>2 DEF Answered
      <4>3. CASE q # p
        BY <2>1, <4>1, <4>3 DEF Answered
      <4>. QED  BY <4>2, <4>3
    <3>. QED  BY <3>1, <3>2, <3>3 DEF Answered
  <2>. QED  BY <1>1, <2>1, <2>3 DEF AnsweredInv, NoImport
<1>8. ASSUME NEW p \in Importers, Cleanup(p) PROVE AnsweredInv'
  <2>. DEFINE path == Path(importer[p].package)
  <2>1. /\ importer[p].package \in Packages /\ path \in Paths
        /\ disk' = [disk EXCEPT ![path] = NoPackage]
        /\ rows' = rows
        /\ \A q \in Importers : importer'[q] = IF q = p THEN NoImport ELSE importer[q]
    BY <1>2, <1>8 DEF Cleanup, DiskWithoutPackage, Finish, Paths
  <2>2. ASSUME NEW other \in Paths, disk'[other] # NoPackage
        PROVE  Path(disk'[other]) = other /\ Answered(other)'
    <3>1. other # path /\ disk'[other] = disk[other]
      BY <1>2, <2>1, <2>2
    <3>2. Path(disk[other]) = other /\ Answered(other)
      BY <2>2, <3>1 DEF AnsweredInv
    <3>3. disk[other] # importer[p].package
      BY <3>1, <3>2
    <3>4. ASSUME NEW q \in Importers, importer[q].promoted, importer[q].package = disk[other]
          PROVE  importer'[q].promoted /\ importer'[q].package = disk[other]
      BY <2>1, <3>3, <3>4
    <3>. QED  BY <2>1, <3>1, <3>2, <3>4 DEF Answered
  <2>. QED  BY <1>1, <2>1, <2>2 DEF AnsweredInv, NoImport
<1>9. CASE MoveSession \/ UNCHANGED vars
  BY <1>1, <1>9 DEF MoveSession, vars, AnsweredInv, Answered
<1>10. \A p \in Importers : ~Crash(p)
  BY DEF Crash
<1>. QED  BY <1>4, <1>5, <1>6, <1>7, <1>8, <1>9, <1>10 DEF Next

\* Unless a process dies, an import that is refused or fails leaves no package
\* file behind, although it removes its file only after giving up its lock.
THEOREM NothingIsLeftBehind == Spec => []NothingLeftBehind
<1>1. Init => AnsweredUnlessCrash
  BY AnsweredInit DEF AnsweredUnlessCrash
<1>2. AnsweredUnlessCrash /\ [Next]_vars => AnsweredUnlessCrash'
  BY AnsweredNext, FaultsStay DEF AnsweredUnlessCrash
<1>3. AnsweredUnlessCrash => NothingLeftBehind
  BY DEF AnsweredUnlessCrash, AnsweredInv, Answered, NothingLeftBehind
<1>. QED  BY <1>1, <1>2, <1>3, PTL DEF Spec
=============================================================================
