----------------------------- MODULE StateDatabase -----------------------------
(***************************************************************************)
(* The state database as concurrent commands use it: schema migration      *)
(* (src/src/adapters/fs/sqlite-store.ts), controller writes with their     *)
(* audit events, and audit exports (src/src/services/session-service.ts).  *)
(* Rows may be altered or lost on disk, and a newer build may upgrade the  *)
(* database.                                                               *)
(*                                                                         *)
(* A write transaction is synchronous in its process and excludes others,  *)
(* so it is one step; what precedes it is a step of its own.               *)
(***************************************************************************)
EXTENDS AuditLedger, SequencesExt

CONSTANTS
    Processes,
    Outputs,        \* paths given to `audit export`
    MaxEvents,      \* bound: events recorded in a behaviour
    MaxDamage       \* bound: rows altered or lost in a behaviour

ASSUME DatabaseAssumption == MaxEvents \in Nat \ {0} /\ MaxDamage \in Nat

VARIABLES
    version,        \* metadata schema_version
    ledger,         \* audit_events of the session
    exports,        \* the ledger published at each path, or <<>>
    process,        \* what each process does, and what it has read
    recorded,       \* history: the payloads appended
    damage,         \* number of rows altered or lost
    truncated       \* history: rows were lost from the end

vars == <<version, ledger, exports, process, recorded, damage, truncated>>

CURRENT == 8        \* CURRENT_SCHEMA_VERSION
MIN_SUPPORTED == 7  \* MIN_SUPPORTED_SCHEMA_VERSION
NEWER == 9          \* what a newer build upgrades to

Idle == [pc |-> "idle", content |-> <<>>]
Stop(p) == process' = [process EXCEPT ![p] = Idle]
Continue(p, step) == process' = [process EXCEPT ![p].pc = step]

\* A session that was started, by this build or by the one before it.
Init ==
    /\ version \in {MIN_SUPPORTED, CURRENT}
    /\ ledger = <<CreateAuditEvent(<<>>, 1)>>
    /\ exports = [path \in Outputs |-> <<>>]
    /\ process = [p \in Processes |-> Idle]
    /\ recorded = <<1>>
    /\ damage = 0
    /\ truncated = FALSE
-----------------------------------------------------------------------------
\* `threadloop init`: ensureDatabaseReady up to its transaction.
StartMigration(p) ==
    /\ process[p].pc = "idle"
    /\ version \in MIN_SUPPORTED .. (CURRENT - 1)
    /\ Continue(p, "migrate")
    /\ UNCHANGED <<version, ledger, exports, recorded, damage, truncated>>

\* Slip: the schema version is trusted to be the one that was read.
SupportedBefore == TRUE

\* assertSupportedSchemaVersion, again, inside the transaction.
Supported == version \in MIN_SUPPORTED .. CURRENT

\* Another process may have migrated meanwhile; doing so again changes nothing.
Migrate(p) ==
    /\ process[p].pc = "migrate"
    /\ Supported
    /\ Verified(ledger)
    /\ version' = CURRENT
    /\ Stop(p)
    /\ UNCHANGED <<ledger, exports, recorded, damage, truncated>>

\* A command that writes: neither an older nor a newer schema is accepted.
OpenToWrite(p) ==
    /\ process[p].pc = "idle"
    /\ version = CURRENT
    /\ Continue(p, "write")
    /\ UNCHANGED <<version, ledger, exports, recorded, damage, truncated>>

\* assertSessionTransitionHistoryAuthority inside the transaction; then
\* appendAuditEvent.
AppendAuditEvent(p) ==
    LET payload == Len(recorded) + 1
    IN  /\ process[p].pc = "write"
        /\ Len(recorded) < MaxEvents
        /\ Verified(ledger)
        /\ ledger' = Append(ledger, CreateAuditEvent(ledger, payload))
        /\ recorded' = Append(recorded, payload)
        /\ Stop(p)
        /\ UNCHANGED <<version, exports, damage, truncated>>

\* loadSessionAudit: one snapshot, which is then verified.
ReadLedger(p) ==
    /\ process[p].pc = "idle"
    /\ version = CURRENT
    /\ Verified(ledger)
    /\ process' = [process EXCEPT ![p] = [pc |-> "export", content |-> ledger]]
    /\ UNCHANGED <<version, ledger, exports, recorded, damage, truncated>>

\* Slip: the staged file is renamed, not linked, into place.
OutputIsTakenOver(path) == TRUE

OutputIsFree(path) == exports[path] = <<>>

\* writeAuditExportExclusive.
PublishExport(p) ==
    /\ process[p].pc = "export"
    /\ \E path \in Outputs :
          /\ OutputIsFree(path)
          /\ exports' = [exports EXCEPT ![path] = process[p].content]
    /\ Stop(p)
    /\ UNCHANGED <<version, ledger, recorded, damage, truncated>>

\* A command is refused at one of its checks, fails, or dies.
Abandon(p) ==
    /\ process[p].pc # "idle"
    /\ Stop(p)
    /\ UNCHANGED <<version, ledger, exports, recorded, damage, truncated>>
-----------------------------------------------------------------------------
\* The world.

UpgradeFurther ==
    /\ version < NEWER
    /\ version' = NEWER
    /\ UNCHANGED <<ledger, exports, process, recorded, damage, truncated>>

\* The content of a row changes; nobody computes its digest again.
AlterRow ==
    /\ damage < MaxDamage
    /\ damage' = damage + 1
    /\ \E i \in DOMAIN ledger : ledger' = [ledger EXCEPT ![i].value.payload = 0]
    /\ UNCHANGED <<version, exports, process, recorded, truncated>>

LoseRow ==
    /\ damage < MaxDamage
    /\ damage' = damage + 1
    /\ \E i \in DOMAIN ledger :
          /\ ledger' = RemoveAt(ledger, i)
          /\ truncated' = (truncated \/ i = Len(ledger))
    /\ UNCHANGED <<version, exports, process, recorded>>

Next ==
    \/ \E p \in Processes :
          \/ StartMigration(p)
          \/ Migrate(p)
          \/ OpenToWrite(p)
          \/ AppendAuditEvent(p)
          \/ ReadLedger(p)
          \/ PublishExport(p)
          \/ Abandon(p)
    \/ UpgradeFurther
    \/ AlterRow
    \/ LoseRow

Spec == Init /\ [][Next]_vars
-----------------------------------------------------------------------------
\* The variables have their shapes, and sequence numbers increase along the
\* ledger whatever was lost from it.
TypeOK ==
    /\ version \in MIN_SUPPORTED .. NEWER
    /\ \A i \in DOMAIN ledger :
          /\ ledger[i].value.sequence \in 1 .. MaxEvents
          /\ i > 1 => ledger[i].value.sequence > ledger[i - 1].value.sequence
    /\ DOMAIN exports = Outputs
    /\ \A p \in Processes : process[p].pc \in {"idle", "migrate", "write", "export"}
    /\ recorded = [i \in 1 .. Len(recorded) |-> i]
    /\ damage \in 0 .. MaxDamage
    /\ truncated \in BOOLEAN

\* Whatever commands run over it later, altered or lost rows keep the ledger
\* from verifying, except rows lost from its end (docs/cli.md, "Local
\* verification detects mutation"); those are detected by the root of an export
\* from before.
DamageIsNeverHidden ==
    /\ Verified(ledger) => truncated \/ Payloads(ledger) = recorded
    /\ \A path \in Outputs :
          exports[path] # <<>> /\ VerifyAuditChain(ledger, Root(exports[path]))
              => Payloads(ledger) = Payloads(exports[path])

\* No order of commands locks a session out of its ledger: it would be for good,
\* since what does not verify is neither written to nor migrated
\* (docs/lifecycle.md, "Audit corruption blocks controller writes").  While no row
\* was damaged the ledger verifies, whichever processes appended to it over
\* whichever reads, and what was exported is how it begins.
UndamagedLedgerVerifies ==
    damage = 0 =>
        /\ Verified(ledger)
        /\ \A path \in Outputs : IsPrefix(exports[path], ledger)

\* However commands of this build race with one another and with a newer build,
\* the schema version never decreases.
SchemaNeverGoesBack == [][version' >= version]_vars

PublishesWhatVerified ==
    \A path \in Outputs :
        exports'[path] # exports[path] =>
            /\ exports[path] = <<>>
            /\ Verified(exports'[path])
            /\ truncated \/ IsPrefix(Payloads(exports'[path]), recorded)

\* Nothing replaces an export.  One is published only of a ledger that verified
\* as a whole, and holds what was recorded first and in that order, whatever has
\* happened to the ledger since it was read; rows lost from its end excepted.
ExportsStand == [][PublishesWhatVerified]_vars
=============================================================================
