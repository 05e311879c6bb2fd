------------------------------ MODULE AuditLedger ------------------------------
(***************************************************************************)
(* The hash-linked ledger of one session (src/src/domain/audit.ts): what   *)
(* is appended to it and what verification accepts.                        *)
(*                                                                         *)
(* SHA-256 over canonical JSON is taken to be injective.  A stored row is  *)
(* its event value and the digest stored beside it; the columns repeated   *)
(* from the value are left out, since a row whose columns differ from its  *)
(* JSON is refused when it is read.                                        *)
(***************************************************************************)
EXTENDS Naturals, Sequences

ZeroAuditHash == <<"zero">>
Digest(value) == <<"sha256", value>>
NoRoot == <<>>

\* verifyAuditChain's root: the digest stored last.
Root(rows) == IF rows = <<>> THEN ZeroAuditHash ELSE rows[Len(rows)].sha256

Event(sequence, rows, payload) ==
    LET value == [sequence |-> sequence, previous |-> Root(rows), payload |-> payload]
    IN  [value |-> value, sha256 |-> Digest(value)]

LastSequence(rows) == IF rows = <<>> THEN 0 ELSE rows[Len(rows)].value.sequence

\* Slip: an event takes the sequence number of the tail.
CreateAtTail(rows, payload) == Event(IF rows = <<>> THEN 1 ELSE LastSequence(rows), rows, payload)

\* Slip: every event is linked as the first one is.
CreateUnlinked(rows, payload) == Event(LastSequence(rows) + 1, <<>>, payload)

CreateAuditEvent(rows, payload) == Event(LastSequence(rows) + 1, rows, payload)

\* verifyAuditEventIntegrity.
Integrity(row) == row.sha256 = Digest(row.value)

\* verifyAuditChain, up to the comparison with a root.
Linked(rows) ==
    \A i \in DOMAIN rows :
        /\ rows[i].value.sequence = i
        /\ rows[i].value.previous = Root(SubSeq(rows, 1, i - 1))

\* Slip: the digest of the last event vouches for the others.
TailVerifies(rows) == Linked(rows) /\ (rows # <<>> => Integrity(rows[Len(rows)]))

ChainVerifies(rows) == Linked(rows) /\ \A i \in DOMAIN rows : Integrity(rows[i])

VerifyAuditChain(rows, expectedRoot) ==
    /\ ChainVerifies(rows)
    /\ expectedRoot # NoRoot => expectedRoot = Root(rows)

\* readVerifiedAuditEvents: a session without a genesis event is corrupt.
Verified(rows) == rows # <<>> /\ VerifyAuditChain(rows, NoRoot)

Payloads(rows) == [i \in DOMAIN rows |-> rows[i].value.payload]
=============================================================================
