-------------------------- MODULE StateCommandsProofs --------------------------
(***************************************************************************)
(* Proofs about StateCommands, for every number of processes, sessions,    *)
(* events and damaged rows: of the ledger, that damage is never hidden,    *)
(* that commands alone never keep it from verifying, and what an export    *)
(* shows; of the sessions, that no read is torn and that completed ones    *)
(* are left alone.                                                         *)
(***************************************************************************)
EXTENDS StateCommands, SequenceTheorems, WellFoundedInduction, TLAPS

-----------------------------------------------------------------------------
\* Sequences.

LEMMA SequenceOfItsRange ==
    ASSUME NEW S, NEW s \in Seq(S)
    PROVE  s \in Seq(Range(s))
<1>1. s \in [1 .. Len(s) -> Range(s)] /\ Len(s) \in Nat
  BY DEF Range
<1>. QED  BY <1>1

LEMMA RemoveAtElements ==
    ASSUME NEW S, NEW s \in Seq(S), NEW i \in 1 .. Len(s)
    PROVE  /\ RemoveAt(s, i) \in Seq(S)
           /\ Len(RemoveAt(s, i)) = Len(s) - 1
           /\ \A j \in 1 .. (Len(s) - 1) :
                 RemoveAt(s, i)[j] = s[IF j < i THEN j ELSE j + 1]
<1>1. /\ SubSeq(s, 1, i - 1) \in Seq(S)
      /\ Len(SubSeq(s, 1, i - 1)) = i - 1
      /\ \A j \in 1 .. (i - 1) : SubSeq(s, 1, i - 1)[j] = s[j]
  OBVIOUS
<1>2. /\ SubSeq(s, i + 1, Len(s)) \in Seq(S)
      /\ Len(SubSeq(s, i + 1, Len(s))) = Len(s) - i
      /\ \A j \in 1 .. (Len(s) - i) : SubSeq(s, i + 1, Len(s))[j] = s[i + j]
  OBVIOUS
<1>. DEFINE a == SubSeq(s, 1, i - 1)
            b == SubSeq(s, i + 1, Len(s))
<1>3. /\ a \in Seq(S) /\ Len(a) = i - 1 /\ \A j \in 1 .. (i - 1) : a[j] = s[j]
      /\ b \in Seq(S) /\ Len(b) = Len(s) - i /\ \A j \in 1 .. (Len(s) - i) : b[j] = s[i + j]
  BY <1>1, <1>2
<1>4. RemoveAt(s, i) = a \o b
  BY DEF RemoveAt
<1>5. Len(s) \in Nat /\ i \in Nat
  OBVIOUS
<1>. HIDE DEF a, b
<1>6. a \o b \in Seq(S) /\ Len(a \o b) = Len(s) - 1
  <2>1. a \o b \in Seq(S) /\ Len(a \o b) = Len(a) + Len(b)
    BY <1>3, ConcatProperties
  <2>2. Len(a) + Len(b) = Len(s) - 1
    BY <1>3, <1>5
  <2>. QED  BY <2>1, <2>2
<1>7. ASSUME NEW j \in 1 .. (Len(s) - 1) PROVE (a \o b)[j] = s[IF j < i THEN j ELSE j + 1]
  <2>1. CASE j < i
    BY <1>3, <1>5, <2>1
  <2>2. CASE ~(j < i)
    <3>1. (a \o b)[j] = b[j - (i - 1)]
      BY <1>3, <1>5, <2>2
    <3>2. j - (i - 1) \in 1 .. (Len(s) - i) /\ i + (j - (i - 1)) = j + 1
      BY <1>5, <2>2
    <3>. QED  BY <1>3, <2>2, <3>1, <3>2
  <2>. QED  BY <2>1, <2>2
<1>. QED  BY <1>4, <1>6, <1>7

LEMMA HasLargest ==
    ASSUME NEW n \in Nat, NEW I, I \subseteq 1 .. n, I # {}
    PROVE  \E m \in I : \A k \in I : k <= m
<1>. DEFINE R == OpToRel(<, Nat)
            J == {n - i : i \in I}
<1>1. IsWellFoundedOn(R, Nat)
  BY NatLessThanWellFounded
<1>2. J # {} /\ J \subseteq Nat
  <2>1. ASSUME NEW i \in I PROVE n - i \in Nat
    <3>1. i \in 1 .. n
      OBVIOUS
    <3>. QED  BY <3>1
  <2>. QED  BY <2>1, Zenon
<1>3. PICK x \in J : \A y \in J : ~(<<y, x>> \in R)
  <2>. HIDE DEF J, R
  <2>. QED  BY <1>1, <1>2, WFMin
<1>4. PICK m \in I : x = n - m
  OBVIOUS
<1>5. ASSUME NEW k \in I, ~(k <= m) PROVE FALSE
  <2>1. n - k \in J /\ n - k \in Nat /\ n - m \in Nat /\ n - k < n - m
    BY <1>5
  <2>. QED  BY <1>3, <1>4, <2>1 DEF OpToRel
<1>. QED  BY <1>5

LEMMA RootOfPrefix ==
    ASSUME NEW S, NEW rows \in Seq(S), NEW i \in 1 .. Len(rows)
    PROVE  Root(SubSeq(rows, 1, i)) = rows[i].sha256
<1>1. /\ SubSeq(rows, 1, i) \in Seq(S) /\ Len(SubSeq(rows, 1, i)) = i
      /\ SubSeq(rows, 1, i)[i] = rows[i]
  OBVIOUS
<1>2. SubSeq(rows, 1, i) # <<>>
  BY <1>1
<1>. QED  BY <1>1, <1>2 DEF Root
-----------------------------------------------------------------------------
\* The hash chain.

\* A row is an event beside the digest the event had when it was appended: it is
\* the event's still, unless the payload was altered since.
Sealed(row) ==
    \E payload \in 1 .. MaxEvents :
        row = [value |-> [sequence |-> row.value.sequence, previous |-> row.value.previous,
                          payload |-> row.value.payload],
               sha256 |-> Digest([sequence |-> row.value.sequence,
                                  previous |-> row.value.previous, payload |-> payload])]

IsLedger(rows) == rows \in Seq(Range(rows)) /\ \A i \in DOMAIN rows : Sealed(rows[i])

LEMMA DigestIsInjective ==
    ASSUME NEW v, NEW w, Digest(v) = Digest(w)
    PROVE  v = w
BY DEF Digest

\* The digest a row was sealed with cannot be told from one that matches it unless
\* nothing was altered.
LEMMA IntactRowHasItsPayload ==
    ASSUME NEW row, Sealed(row), Integrity(row)
    PROVE  row.value.payload \in 1 .. MaxEvents
<1>1. PICK payload \in 1 .. MaxEvents :
        row = [value |-> [sequence |-> row.value.sequence, previous |-> row.value.previous,
                          payload |-> row.value.payload],
               sha256 |-> Digest([sequence |-> row.value.sequence,
                                  previous |-> row.value.previous, payload |-> payload])]
  BY DEF Sealed
<1>2. row.value = [sequence |-> row.value.sequence, previous |-> row.value.previous,
                   payload |-> row.value.payload]
  BY <1>1
<1>3. row.sha256 = Digest([sequence |-> row.value.sequence, previous |-> row.value.previous,
                           payload |-> payload])
  BY <1>1
<1>4. row.value = [sequence |-> row.value.sequence, previous |-> row.value.previous,
                   payload |-> payload]
  BY <1>3, DigestIsInjective DEF Integrity
<1>. QED  BY <1>4

LEMMA EventIsSealed ==
    ASSUME NEW rows, NEW payload \in 1 .. MaxEvents
    PROVE  /\ Sealed(CreateAuditEvent(rows, payload))
           /\ Integrity(CreateAuditEvent(rows, payload))
           /\ CreateAuditEvent(rows, payload).value.sequence = LastSequence(rows) + 1
           /\ CreateAuditEvent(rows, payload).value.payload = payload
BY DEF Sealed, Integrity, CreateAuditEvent, Event

\* Altering a payload breaks the row for good.
LEMMA AlteredRow ==
    ASSUME NEW row, Sealed(row)
    PROVE  LET altered == [row EXCEPT !.value.payload = 0]
           IN  /\ Sealed(altered)
               /\ ~Integrity(altered)
               /\ altered.value.sequence = row.value.sequence
<1>. DEFINE altered == [row EXCEPT !.value.payload = 0]
<1>1. PICK payload \in 1 .. MaxEvents :
        row = [value |-> [sequence |-> row.value.sequence, previous |-> row.value.previous,
                          payload |-> row.value.payload],
               sha256 |-> Digest([sequence |-> row.value.sequence,
                                  previous |-> row.value.previous, payload |-> payload])]
  BY DEF Sealed
<1>2. altered = [value |-> [sequence |-> row.value.sequence, previous |-> row.value.previous,
                            payload |-> 0],
                 sha256 |-> Digest([sequence |-> row.value.sequence,
                                    previous |-> row.value.previous, payload |-> payload])]
  BY <1>1
<1>. HIDE DEF altered
<1>3. Sealed(altered) /\ altered.value.sequence = row.value.sequence /\ altered.value.payload = 0
  BY <1>2 DEF Sealed
<1>4. ~Integrity(altered)
  BY <1>3, IntactRowHasItsPayload
<1>5. Sealed(altered) /\ ~Integrity(altered) /\ altered.value.sequence = row.value.sequence
  BY <1>3, <1>4
<1>. QED  BY <1>5 DEF altered

\* An event's digest stands for the whole ledger before it: two ledgers that verify
\* with one root are one ledger.
LEMMA RootNamesTheLedger ==
    ASSUME NEW a, NEW b, IsLedger(a), IsLedger(b), ChainVerifies(a), ChainVerifies(b),
           b # <<>>, Root(a) = Root(b)
    PROVE  a = b
<1>1. /\ Len(a) \in Nat /\ DOMAIN a = 1 .. Len(a) /\ a = [i \in 1 .. Len(a) |-> a[i]]
      /\ Len(b) \in Nat /\ DOMAIN b = 1 .. Len(b) /\ b = [i \in 1 .. Len(b) |-> b[i]]
      /\ (a = <<>> <=> Len(a) = 0) /\ (b = <<>> <=> Len(b) = 0)
  BY DEF IsLedger
<1>2. /\ \A i \in 1 .. Len(a) :
            /\ a[i] = [value |-> a[i].value, sha256 |-> Digest(a[i].value)]
            /\ a[i].value.sequence = i
            /\ a[i].value.previous = Root(SubSeq(a, 1, i - 1))
      /\ \A i \in 1 .. Len(b) :
            /\ b[i] = [value |-> b[i].value, sha256 |-> Digest(b[i].value)]
            /\ b[i].value.sequence = i
            /\ b[i].value.previous = Root(SubSeq(b, 1, i - 1))
  <2>1. ASSUME NEW row, Sealed(row), Integrity(row)
        PROVE  row = [value |-> row.value, sha256 |-> Digest(row.value)]
    <3>1. row = [value |-> row.value, sha256 |-> row.sha256]
      BY <2>1 DEF Sealed
    <3>. QED  BY <2>1, <3>1 DEF Integrity
  <2>. QED  BY <1>1, <2>1 DEF IsLedger, ChainVerifies, Linked
<1>3. Root(b) = Digest(b[Len(b)].value) /\ Len(b) # 0
  BY <1>1, <1>2 DEF Root
<1>4. a # <<>>
  BY <1>3 DEF Root, ZeroAuditHash, Digest
<1>5. Root(a) = Digest(a[Len(a)].value) /\ Len(a) # 0
  BY <1>1, <1>2, <1>4 DEF Root
<1>6. a[Len(a)].value = b[Len(b)].value
  BY <1>3, <1>5, DigestIsInjective
<1>7. Len(a) = Len(b)
  <2>1. a[Len(a)].value.sequence = Len(a) /\ b[Len(b)].value.sequence = Len(b)
    BY <1>1, <1>2, <1>3, <1>5
  <2>. QED  BY <1>6, <2>1
<1>. DEFINE Differ == {i \in 1 .. Len(a) : a[i] # b[i]}
<1>8. CASE Differ = {}
  BY <1>1, <1>7, <1>8
<1>9. CASE Differ # {}
  <2>1. PICK i \in Differ : \A k \in Differ : k <= i
    <3>1. Differ \subseteq 1 .. Len(a)
      OBVIOUS
    <3>. HIDE DEF Differ
    <3>. QED  BY <1>1, <1>9, <3>1, HasLargest
  <2>2. i \in 1 .. Len(a) /\ i # Len(a)
    BY <1>1, <1>2, <1>3, <1>6, <1>7
  <2>3. /\ i + 1 \in 1 .. Len(a) /\ (i + 1) - 1 = i
        /\ i \in 1 .. Len(b) /\ i + 1 \in 1 .. Len(b)
    BY <1>1, <1>7, <2>2
  <2>4. a[i + 1] = b[i + 1]
    BY <1>1, <2>1, <2>2, <2>3
  <2>5. Root(SubSeq(a, 1, i)) = Root(SubSeq(b, 1, i))
    <3>1. a[i + 1].value.previous = Root(SubSeq(a, 1, i))
      <4>1. a[i + 1].value.previous = Root(SubSeq(a, 1, (i + 1) - 1))
        BY <1>2, <2>3
      <4>. QED  BY <2>3, <4>1
    <3>2. b[i + 1].value.previous = Root(SubSeq(b, 1, i))
      <4>1. b[i + 1].value.previous = Root(SubSeq(b, 1, (i + 1) - 1))
        BY <1>2, <2>3
      <4>. QED  BY <2>3, <4>1
    <3>. QED  BY <2>4, <3>1, <3>2
  <2>6. /\ Root(SubSeq(a, 1, i)) = a[i].sha256
        /\ Root(SubSeq(b, 1, i)) = b[i].sha256
    BY <1>1, <1>7, <2>2, RootOfPrefix DEF IsLedger
  <2>7. a[i].sha256 = Digest(a[i].value) /\ b[i].sha256 = Digest(b[i].value)
    <3>1. a[i] = [value |-> a[i].value, sha256 |-> Digest(a[i].value)]
      BY <1>2, <2>2
    <3>2. b[i] = [value |-> b[i].value, sha256 |-> Digest(b[i].value)]
      BY <1>2, <2>3
    <3>3. /\ [value |-> a[i].value, sha256 |-> Digest(a[i].value)].sha256 = Digest(a[i].value)
          /\ [value |-> b[i].value, sha256 |-> Digest(b[i].value)].sha256 = Digest(b[i].value)
      OBVIOUS
    <3>. QED  BY <3>1, <3>2, <3>3
  <2>8. a[i].value = b[i].value
    BY <2>5, <2>6, <2>7, DigestIsInjective
  <2>9. a[i] = b[i]
    <3>1. a[i] = [value |-> a[i].value, sha256 |-> Digest(a[i].value)]
      BY <1>2, <2>2
    <3>2. b[i] = [value |-> b[i].value, sha256 |-> Digest(b[i].value)]
      BY <1>2, <2>3
    <3>. QED  BY <2>8, <3>1, <3>2
  <2>. QED  BY <2>1, <2>9
<1>. QED  BY <1>8, <1>9
-----------------------------------------------------------------------------
\* What commands and damage leave of the ledger.

\* A ledger that verified when it was read, and that held what was recorded first.
Exported(rows) == IsLedger(rows) /\ Verified(rows)

HoldsWhatWasRecorded(rows) ==
    truncated \/ /\ Len(rows) <= Len(recorded)
                 /\ \A i \in DOMAIN rows : rows[i].value.payload = i

\* While nothing was lost from its end, the ledger ends at the last event recorded,
\* and a row that is intact holds the event its number says.
EndsAtTheLastEvent ==
    /\ ledger # <<>>
    /\ LastSequence(ledger) = Len(recorded)
    /\ \A i \in DOMAIN ledger :
          Integrity(ledger[i]) => ledger[i].value.payload = ledger[i].value.sequence

LedgerTyped ==
    /\ version \in MIN_SUPPORTED .. NEWER
    /\ recorded \in Seq(Nat) /\ Len(recorded) <= MaxEvents
    /\ \A i \in DOMAIN recorded : recorded[i] = i
    /\ damage \in 0 .. MaxDamage
    /\ truncated \in BOOLEAN
    /\ DOMAIN exports = Outputs
    /\ DOMAIN process = Processes
    /\ \A p \in Processes :
          /\ process[p] = [pc |-> process[p].pc, content |-> process[p].content]
          /\ process[p].pc \in {"idle", "migrate", "write", "export"}

LedgerOrdered ==
    /\ \A i \in DOMAIN ledger : ledger[i].value.sequence \in 1 .. Len(recorded)
    /\ \A i, j \in DOMAIN ledger :
          i < j => ledger[i].value.sequence < ledger[j].value.sequence

ExportsVerified ==
    /\ \A path \in Outputs : exports[path] # <<>> => Exported(exports[path])
    /\ \A p \in Processes :
          process[p].pc = "export" =>
              Exported(process[p].content) /\ HoldsWhatWasRecorded(process[p].content)

LedgerInv ==
    /\ LedgerTyped
    /\ IsLedger(ledger)
    /\ LedgerOrdered
    /\ ~truncated => EndsAtTheLastEvent
    /\ ExportsVerified

\* What verifies has as many rows as were recorded.
LEMMA VerifiedHoldsAll ==
    ASSUME LedgerInv, Verified(ledger)
    PROVE  /\ HoldsWhatWasRecorded(ledger)
           /\ ~truncated => Payloads(ledger) = recorded
<1>1. /\ Len(ledger) \in Nat /\ DOMAIN ledger = 1 .. Len(ledger)
      /\ (ledger = <<>> <=> Len(ledger) = 0)
  BY DEF LedgerInv, IsLedger
<1>2. /\ \A i \in 1 .. Len(ledger) : ledger[i].value.sequence = i /\ Integrity(ledger[i])
      /\ Len(ledger) # 0
  BY <1>1 DEF Verified, VerifyAuditChain, ChainVerifies, Linked
<1>3. CASE truncated
  BY <1>3 DEF HoldsWhatWasRecorded
<1>4. CASE ~truncated
  <2>1. EndsAtTheLastEvent
    BY <1>4 DEF LedgerInv
  <2>2. Len(ledger) = Len(recorded)
    BY <1>1, <1>2, <2>1 DEF EndsAtTheLastEvent, LastSequence
  <2>3. \A i \in 1 .. Len(ledger) : ledger[i].value.payload = i
    BY <1>1, <1>2, <2>1 DEF EndsAtTheLastEvent
  <2>4. recorded = [i \in 1 .. Len(recorded) |-> i]
    BY DEF LedgerInv, LedgerTyped
  <2>5. Payloads(ledger) = [i \in 1 .. Len(ledger) |-> i]
    BY <1>1, <2>3 DEF Payloads
  <2>. QED  BY <1>1, <2>2, <2>3, <2>4, <2>5 DEF HoldsWhatWasRecorded
<1>. QED  BY <1>3, <1>4

LEMMA LedgerInit == Init => LedgerInv
<1>. SUFFICES ASSUME Init PROVE LedgerInv
  OBVIOUS
<1>. DEFINE e == CreateAuditEvent(<<>>, 1)
<1>1. 1 \in 1 .. MaxEvents
  BY DatabaseAssumption
<1>2. Sealed(e) /\ e.value.sequence = 1 /\ e.value.payload = 1
  BY <1>1, EventIsSealed DEF LastSequence
<1>3. ledger = <<e>> /\ recorded = <<1>>
  BY DEF Init
<1>. HIDE DEF e
<1>4. IsLedger(ledger)
  BY <1>2, <1>3 DEF IsLedger, Range
<1>5. LedgerOrdered
  BY <1>2, <1>3 DEF LedgerOrdered
<1>6. EndsAtTheLastEvent
  BY <1>2, <1>3 DEF EndsAtTheLastEvent, LastSequence
<1>7. LedgerTyped
  <2>1. recorded \in Seq(Nat) /\ Len(recorded) = 1 /\ recorded[1] = 1
    BY <1>3
  <2>2. version \in MIN_SUPPORTED .. NEWER
    BY DEF Init, MIN_SUPPORTED, CURRENT, NEWER
  <2>3. \A i \in DOMAIN recorded : recorded[i] = i
    BY <2>1
  <2>4. /\ damage \in 0 .. MaxDamage /\ truncated \in BOOLEAN
        /\ Len(recorded) <= MaxEvents
    <3>1. damage = 0 /\ truncated = FALSE
      BY DEF Init
    <3>2. 0 \in 0 .. MaxDamage /\ 1 <= MaxEvents
      BY DatabaseAssumption
    <3>. QED  BY <2>1, <3>1, <3>2
  <2>5. /\ DOMAIN exports = Outputs /\ DOMAIN process = Processes
        /\ \A q \in Processes : process[q] = Idle
    BY DEF Init
  <2>. QED  BY <2>1, <2>2, <2>3, <2>4, <2>5 DEF LedgerTyped, Idle
<1>8. ExportsVerified
  BY DEF Init, ExportsVerified, Idle
<1>. QED  BY <1>4, <1>5, <1>6, <1>7, <1>8 DEF LedgerInv

\* What was exported stays so when nothing that was recorded is forgotten.
LEMMA ExportsKept ==
    ASSUME LedgerInv, exports' = exports, truncated => truncated',
           DOMAIN process' = Processes,
           recorded' = recorded \/ \E x \in Nat : recorded' = Append(recorded, x),
           \A p \in Processes :
              process'[p].pc = "export" => process'[p] = process[p]
    PROVE  ExportsVerified'
<1>1. Len(recorded) <= Len(recorded') /\ Len(recorded) \in Nat /\ Len(recorded') \in Nat
  BY DEF LedgerInv, LedgerTyped
<1>2. ASSUME NEW p \in Processes, process'[p].pc = "export"
      PROVE  /\ Exported(process'[p].content)
             /\ truncated' \/ /\ Len(process'[p].content) <= Len(recorded')
                              /\ \A i \in DOMAIN process'[p].content :
                                    process'[p].content[i].value.payload = i
  <2>1. process'[p] = process[p]
    BY <1>2
  <2>2. Exported(process[p].content) /\ HoldsWhatWasRecorded(process[p].content)
    BY <1>2, <2>1 DEF LedgerInv, ExportsVerified
  <2>3. Len(process[p].content) \in Nat
    BY <2>2 DEF Exported, IsLedger
  <2>. QED  BY <1>1, <2>1, <2>2, <2>3 DEF HoldsWhatWasRecorded
<1>3. \A path \in Outputs : exports'[path] # <<>> => Exported(exports'[path])
  BY DEF LedgerInv, ExportsVerified
<1>. QED  BY <1>2, <1>3 DEF ExportsVerified, HoldsWhatWasRecorded

\* Commands keep it.
LEMMA CommandsKeepLedger ==
    ASSUME LedgerInv, NEW p \in Processes,
           \/ StartMigration(p) \/ Migrate(p) \/ OpenToWrite(p) \/ AppendAuditEvent(p)
           \/ ReadLedger(p) \/ PublishExport(p) \/ Abandon(p)
    PROVE  LedgerInv'
<1>1. /\ LedgerTyped /\ IsLedger(ledger) /\ LedgerOrdered
      /\ ~truncated => EndsAtTheLastEvent
      /\ ExportsVerified
  BY DEF LedgerInv
<1>2. /\ DOMAIN process = Processes
      /\ \A q \in Processes :
            process[q] = [pc |-> process[q].pc, content |-> process[q].content]
  BY <1>1 DEF LedgerTyped
<1>3. ASSUME NEW step \in {"migrate", "write"},
             Continue(p, step) \/ Stop(p), ledger' = ledger, exports' = exports,
             recorded' = recorded, damage' = damage, truncated' = truncated,
             version' \in MIN_SUPPORTED .. NEWER
      PROVE  LedgerInv'
  <2>1. /\ DOMAIN process' = Processes
        /\ \A q \in Processes :
              /\ process'[q] = [pc |-> process'[q].pc, content |-> process'[q].content]
              /\ process'[q].pc \in {"idle", "migrate", "write", "export"}
              /\ process'[q].pc = "export" => process'[q] = process[q]
    BY <1>1, <1>2, <1>3 DEF LedgerTyped, Continue, Stop, Idle
  <2>2. LedgerTyped'
    BY <1>1, <1>3, <2>1 DEF LedgerTyped
  <2>3. ExportsVerified'
    BY <1>3, <2>1, ExportsKept
  <2>4. IsLedger(ledger)' /\ LedgerOrdered'
    BY <1>1, <1>3 DEF LedgerOrdered
  <2>5. ~truncated' => EndsAtTheLastEvent'
    BY <1>1, <1>3 DEF EndsAtTheLastEvent
  <2>. QED  BY <2>2, <2>3, <2>4, <2>5 DEF LedgerInv
<1>4. version \in MIN_SUPPORTED .. NEWER
  BY <1>1 DEF LedgerTyped
<1>5. CASE StartMigration(p)
  BY <1>3, <1>4, <1>5 DEF StartMigration
<1>6. CASE Migrate(p)
  <2>1. CURRENT \in MIN_SUPPORTED .. NEWER
    BY DEF MIN_SUPPORTED, CURRENT, NEWER
  <2>. QED  BY <1>3, <1>6, <2>1 DEF Migrate
<1>7. CASE OpenToWrite(p)
  BY <1>3, <1>4, <1>7 DEF OpenToWrite
<1>8. CASE Abandon(p)
  BY <1>3, <1>4, <1>8 DEF Abandon
<1>9. CASE AppendAuditEvent(p)
  <2>. DEFINE payload == Len(recorded) + 1
              e == CreateAuditEvent(ledger, payload)
  <2>1. /\ Len(recorded) < MaxEvents /\ Verified(ledger)
        /\ ledger' = Append(ledger, e) /\ recorded' = Append(recorded, payload)
        /\ Stop(p)
        /\ version' = version /\ exports' = exports /\ damage' = damage
        /\ truncated' = truncated
    BY <1>9 DEF AppendAuditEvent
  <2>2. payload \in 1 .. MaxEvents /\ payload \in Nat /\ Len(recorded) \in Nat
    BY <1>1, <2>1, DatabaseAssumption DEF LedgerTyped
  <2>3. /\ Sealed(e) /\ Integrity(e) /\ e.value.sequence = LastSequence(ledger) + 1
        /\ e.value.payload = payload
    BY <2>2, EventIsSealed
  <2>. HIDE DEF e
  <2>4. /\ ledger \in Seq(Range(ledger)) /\ Len(ledger) \in Nat
        /\ DOMAIN ledger = 1 .. Len(ledger) /\ Len(ledger) # 0
    BY <1>1, <2>1 DEF IsLedger, Verified
  <2>5. LastSequence(ledger) = Len(ledger)
    <3>1. ledger[Len(ledger)].value.sequence = Len(ledger)
      BY <2>1, <2>4 DEF Verified, VerifyAuditChain, ChainVerifies, Linked
    <3>. QED  BY <2>4, <3>1 DEF LastSequence
  <2>6. Len(ledger) <= Len(recorded)
    <3>1. ledger[Len(ledger)].value.sequence \in 1 .. Len(recorded)
      BY <1>1, <2>4 DEF LedgerOrdered
    <3>. QED  BY <2>4, <2>5, <3>1 DEF LastSequence
  <2>7. /\ ledger' \in Seq(Range(ledger) \cup {e}) /\ Len(ledger') = Len(ledger) + 1
        /\ DOMAIN ledger' = 1 .. Len(ledger')
        /\ \A i \in 1 .. Len(ledger) : ledger'[i] = ledger[i]
        /\ ledger'[Len(ledger) + 1] = e
    BY <2>1, <2>4
  <2>8. IsLedger(ledger')
    <3>1. \A i \in DOMAIN ledger' : Sealed(ledger'[i])
      BY <1>1, <2>3, <2>4, <2>7 DEF IsLedger
    <3>. QED  BY <2>7, <3>1, SequenceOfItsRange DEF IsLedger
  <2>9. /\ recorded' \in Seq(Nat) /\ Len(recorded') = Len(recorded) + 1
        /\ \A i \in DOMAIN recorded' : recorded'[i] = i
    BY <1>1, <2>1, <2>2 DEF LedgerTyped
  <2>10. LedgerOrdered'
    <3>1. ASSUME NEW i \in DOMAIN ledger'
          PROVE  ledger'[i].value.sequence \in 1 .. Len(recorded')
      <4>1. CASE i \in 1 .. Len(ledger)
        <5>1. ledger'[i] = ledger[i] /\ i \in DOMAIN ledger
          BY <2>4, <2>7, <4>1
        <5>2. ledger[i].value.sequence \in 1 .. Len(recorded)
          BY <1>1, <5>1 DEF LedgerOrdered
        <5>. QED  BY <2>2, <2>9, <5>1, <5>2
      <4>2. CASE i = Len(ledger) + 1
        <5>1. ledger'[i].value.sequence = Len(ledger) + 1
          BY <2>3, <2>5, <2>7, <4>2
        <5>. QED  BY <2>2, <2>4, <2>6, <2>9, <5>1
      <4>. QED  BY <2>4, <2>7, <4>1, <4>2
    <3>2. ASSUME NEW i \in DOMAIN ledger', NEW j \in DOMAIN ledger', i < j
          PROVE  ledger'[i].value.sequence < ledger'[j].value.sequence
      <4>1. i \in 1 .. Len(ledger)
        BY <2>4, <2>7, <3>2
      <4>2. ledger[i].value.sequence = i
        BY <2>1, <2>4, <4>1 DEF Verified, VerifyAuditChain, ChainVerifies, Linked
      <4>3. CASE j \in 1 .. Len(ledger)
        BY <1>1, <2>4, <2>7, <3>2, <4>1, <4>3 DEF LedgerOrdered
      <4>4. CASE j = Len(ledger) + 1
        BY <2>3, <2>4, <2>5, <2>7, <3>2, <4>1, <4>2, <4>4
      <4>. QED  BY <2>4, <2>7, <4>3, <4>4
    <3>. QED  BY <3>1, <3>2 DEF LedgerOrdered
  <2>11. ASSUME ~truncated PROVE EndsAtTheLastEvent'
    <3>1. EndsAtTheLastEvent
      BY <1>1, <2>11
    <3>2. Len(ledger) = Len(recorded)
      BY <2>5, <3>1 DEF EndsAtTheLastEvent
    <3>3. ledger' # <<>> /\ ledger'[Len(ledger')] = e
      BY <2>4, <2>7
    <3>4. (LastSequence(ledger) = Len(recorded))'
      BY <2>2, <2>3, <2>5, <2>9, <3>2, <3>3 DEF LastSequence
    <3>5. ASSUME NEW i \in DOMAIN ledger', Integrity(ledger'[i])
          PROVE  ledger'[i].value.payload = ledger'[i].value.sequence
      <4>1. CASE i \in 1 .. Len(ledger)
        BY <2>4, <2>7, <3>1, <3>5, <4>1 DEF EndsAtTheLastEvent
      <4>2. CASE i = Len(ledger) + 1
        BY <2>2, <2>3, <2>5, <2>7, <3>2, <4>2
      <4>. QED  BY <2>4, <2>7, <4>1, <4>2
    <3>. QED  BY <3>3, <3>4, <3>5 DEF EndsAtTheLastEvent
  <2>12. /\ DOMAIN process' = Processes
         /\ \A q \in Processes :
              /\ process'[q] = [pc |-> process'[q].pc, content |-> process'[q].content]
              /\ process'[q].pc \in {"idle", "migrate", "write", "export"}
              /\ process'[q].pc = "export" => process'[q] = process[q]
    BY <1>1, <1>2, <2>1 DEF LedgerTyped, Stop, Idle
  <2>13. ExportsVerified'
    BY <2>1, <2>2, <2>12, ExportsKept
  <2>14. LedgerTyped'
    <3>1. Len(recorded') <= MaxEvents
      BY <2>1, <2>2, <2>9, DatabaseAssumption
    <3>. QED  BY <1>1, <2>1, <2>9, <2>12, <3>1 DEF LedgerTyped
  <2>. QED  BY <2>1, <2>8, <2>10, <2>11, <2>13, <2>14 DEF LedgerInv
<1>10. CASE ReadLedger(p)
  <2>1. /\ Verified(ledger) /\ UNCHANGED <<version, ledger, exports, recorded, damage, truncated>>
        /\ process' = [process EXCEPT ![p] = [pc |-> "export", content |-> ledger]]
    BY <1>10 DEF ReadLedger
  <2>2. HoldsWhatWasRecorded(ledger)
    BY <2>1, VerifiedHoldsAll
  <2>3. /\ DOMAIN process' = Processes
        /\ process'[p] = [pc |-> "export", content |-> ledger]
        /\ \A q \in Processes \ {p} : process'[q] = process[q]
    BY <1>2, <2>1
  <2>4. LedgerTyped'
    BY <1>1, <2>1, <2>3 DEF LedgerTyped
  <2>5. ASSUME NEW q \in Processes, process'[q].pc = "export"
        PROVE  Exported(process'[q].content) /\ HoldsWhatWasRecorded(process'[q].content)
    <3>1. CASE q = p
      BY <1>1, <2>1, <2>2, <2>3, <3>1 DEF Exported
    <3>2. CASE q # p
      BY <1>1, <2>3, <2>5, <3>2 DEF ExportsVerified
    <3>. QED  BY <3>1, <3>2
  <2>6. ExportsVerified'
    BY <1>1, <2>1, <2>5 DEF ExportsVerified, HoldsWhatWasRecorded
  <2>7. IsLedger(ledger)' /\ LedgerOrdered'
    BY <1>1, <2>1 DEF LedgerOrdered
  <2>8. ~truncated' => EndsAtTheLastEvent'
    BY <1>1, <2>1 DEF EndsAtTheLastEvent
  <2>. QED  BY <2>4, <2>6, <2>7, <2>8 DEF LedgerInv
<1>11. CASE PublishExport(p)
  <2>1. PICK path \in Outputs :
          exports' = [exports EXCEPT ![path] = process[p].content]
    BY <1>11 DEF PublishExport
  <2>2. /\ process[p].pc = "export" /\ Stop(p)
        /\ UNCHANGED <<version, ledger, recorded, damage, truncated>>
    BY <1>11 DEF PublishExport
  <2>3. /\ DOMAIN process' = Processes
         /\ \A q \in Processes :
              /\ process'[q] = [pc |-> process'[q].pc, content |-> process'[q].content]
              /\ process'[q].pc \in {"idle", "migrate", "write", "export"}
              /\ process'[q].pc = "export" => process'[q] = process[q]
    BY <1>1, <1>2, <2>2 DEF LedgerTyped, Stop, Idle
  <2>4. DOMAIN exports' = Outputs
    BY <1>1, <2>1 DEF LedgerTyped
  <2>5. LedgerTyped'
    BY <1>1, <2>2, <2>3, <2>4 DEF LedgerTyped
  <2>6. \A q \in Outputs : exports'[q] # <<>> => Exported(exports'[q])
    BY <1>1, <2>1, <2>2 DEF LedgerTyped, ExportsVerified
  <2>7. ASSUME NEW q \in Processes, process'[q].pc = "export"
        PROVE  Exported(process'[q].content) /\ HoldsWhatWasRecorded(process'[q].content)
    BY <1>1, <2>3, <2>7 DEF ExportsVerified
  <2>8. ExportsVerified'
    BY <2>2, <2>6, <2>7 DEF ExportsVerified, HoldsWhatWasRecorded
  <2>9. IsLedger(ledger)' /\ LedgerOrdered'
    BY <1>1, <2>2 DEF LedgerOrdered
  <2>10. ~truncated' => EndsAtTheLastEvent'
    BY <1>1, <2>2 DEF EndsAtTheLastEvent
  <2>. QED  BY <2>5, <2>8, <2>9, <2>10 DEF LedgerInv
<1>. QED  BY <1>5, <1>6, <1>7, <1>8, <1>9, <1>10, <1>11
\* So do damage and a newer build.
LEMMA WorldKeepsLedger ==
    ASSUME LedgerInv, UpgradeFurther \/ AlterRow \/ LoseRow
    PROVE  LedgerInv'
<1>1. /\ LedgerTyped /\ IsLedger(ledger) /\ LedgerOrdered
      /\ ~truncated => EndsAtTheLastEvent
      /\ ExportsVerified
  BY DEF LedgerInv
<1>2. /\ ledger \in Seq(Range(ledger)) /\ Len(ledger) \in Nat
      /\ DOMAIN ledger = 1 .. Len(ledger)
      /\ ledger = <<>> <=> Len(ledger) = 0
  BY <1>1 DEF IsLedger
<1>3. CASE UpgradeFurther
  <2>1. /\ version' \in MIN_SUPPORTED .. NEWER
        /\ UNCHANGED <<ledger, exports, process, recorded, damage, truncated>>
    BY <1>3 DEF UpgradeFurther, MIN_SUPPORTED, NEWER
  <2>2. LedgerTyped'
    BY <1>1, <2>1 DEF LedgerTyped
  <2>3. ExportsVerified'
    BY <1>1, <2>1, ExportsKept DEF LedgerTyped
  <2>4. IsLedger(ledger)' /\ LedgerOrdered'
    BY <1>1, <2>1 DEF LedgerOrdered
  <2>5. ~truncated' => EndsAtTheLastEvent'
    BY <1>1, <2>1 DEF EndsAtTheLastEvent
  <2>. QED  BY <2>2, <2>3, <2>4, <2>5 DEF LedgerInv
<1>4. CASE AlterRow
  <2>1. PICK n \in 1 .. Len(ledger) : ledger' = [ledger EXCEPT ![n].value.payload = 0]
    BY <1>2, <1>4 DEF AlterRow
  <2>2. /\ damage < MaxDamage /\ damage' = damage + 1
        /\ UNCHANGED <<version, exports, process, recorded, truncated>>
    BY <1>4 DEF AlterRow
  <2>. DEFINE altered == [ledger[n] EXCEPT !.value.payload = 0]
  <2>3. ledger' = [ledger EXCEPT ![n] = altered]
    BY <2>1
  <2>4. /\ Sealed(altered) /\ ~Integrity(altered)
        /\ altered.value.sequence = ledger[n].value.sequence
    BY <1>1, <1>2, AlteredRow DEF IsLedger
  <2>. HIDE DEF altered
  <2>5. /\ ledger' \in Seq(Range(ledger) \cup {altered}) /\ Len(ledger') = Len(ledger)
        /\ DOMAIN ledger' = 1 .. Len(ledger)
        /\ \A i \in 1 .. Len(ledger) : ledger'[i] = IF i = n THEN altered ELSE ledger[i]
    BY <1>2, <2>3
  <2>6. IsLedger(ledger')
    <3>1. \A i \in DOMAIN ledger' : Sealed(ledger'[i])
      BY <1>1, <1>2, <2>4, <2>5 DEF IsLedger
    <3>. QED  BY <2>5, <3>1, SequenceOfItsRange DEF IsLedger
  <2>7. \A i \in 1 .. Len(ledger) : ledger'[i].value.sequence = ledger[i].value.sequence
    BY <2>4, <2>5
  <2>8. LedgerOrdered'
    BY <1>1, <1>2, <2>2, <2>5, <2>7 DEF LedgerOrdered
  <2>9. ASSUME ~truncated PROVE EndsAtTheLastEvent'
    <3>1. EndsAtTheLastEvent
      BY <1>1, <2>9
    <3>2. ledger' # <<>>
      BY <1>2, <2>5
    <3>3. (LastSequence(ledger) = Len(recorded))'
      BY <1>2, <2>2, <2>5, <2>7, <3>1, <3>2 DEF EndsAtTheLastEvent, LastSequence
    <3>4. \A i \in DOMAIN ledger' :
             Integrity(ledger'[i]) => ledger'[i].value.payload = ledger'[i].value.sequence
      BY <1>2, <2>4, <2>5, <3>1 DEF EndsAtTheLastEvent
    <3>. QED  BY <3>2, <3>3, <3>4 DEF EndsAtTheLastEvent
  <2>10. damage' \in 0 .. MaxDamage
    BY <1>1, <2>2, DatabaseAssumption DEF LedgerTyped
  <2>11. LedgerTyped'
    BY <1>1, <2>2, <2>10 DEF LedgerTyped
  <2>12. ExportsVerified'
    BY <1>1, <2>2, ExportsKept DEF LedgerTyped
  <2>. QED  BY <2>2, <2>6, <2>8, <2>9, <2>11, <2>12 DEF LedgerInv
<1>5. CASE LoseRow
  <2>1. PICK n \in 1 .. Len(ledger) :
          ledger' = RemoveAt(ledger, n) /\ truncated' = (truncated \/ n = Len(ledger))
    BY <1>2, <1>5 DEF LoseRow
  <2>2. /\ damage < MaxDamage /\ damage' = damage + 1
        /\ UNCHANGED <<version, exports, process, recorded>>
    BY <1>5 DEF LoseRow
  <2>. DEFINE kept(j) == IF j < n THEN j ELSE j + 1
  <2>3. /\ ledger' \in Seq(Range(ledger)) /\ Len(ledger') = Len(ledger) - 1
        /\ DOMAIN ledger' = 1 .. (Len(ledger) - 1)
        /\ \A j \in 1 .. (Len(ledger) - 1) : ledger'[j] = ledger[kept(j)]
    <3>1. /\ RemoveAt(ledger, n) \in Seq(Range(ledger))
          /\ Len(RemoveAt(ledger, n)) = Len(ledger) - 1
          /\ \A j \in 1 .. (Len(ledger) - 1) : RemoveAt(ledger, n)[j] = ledger[kept(j)]
      BY <1>2, RemoveAtElements
    <3>2. ledger' \in Seq(Range(ledger)) /\ Len(ledger') = Len(ledger) - 1
      BY <2>1, <3>1
    <3>. QED  BY <2>1, <3>1, <3>2
  <2>4. /\ \A j \in 1 .. (Len(ledger) - 1) : kept(j) \in 1 .. Len(ledger)
        /\ \A i, j \in 1 .. (Len(ledger) - 1) : i < j => kept(i) < kept(j)
        /\ n # Len(ledger) => Len(ledger) - 1 \in 1 .. (Len(ledger) - 1)
                              /\ kept(Len(ledger) - 1) = Len(ledger)
    <3>1. ASSUME NEW N \in Nat, n \in 1 .. N
          PROVE  /\ \A j \in 1 .. (N - 1) : kept(j) \in 1 .. N
                 /\ \A i, j \in 1 .. (N - 1) : i < j => kept(i) < kept(j)
                 /\ n # N => N - 1 \in 1 .. (N - 1) /\ kept(N - 1) = N
      <4>1. \A j \in 1 .. (N - 1) : kept(j) \in 1 .. N
        BY <3>1
      <4>2. \A i, j \in 1 .. (N - 1) : i < j => kept(i) < kept(j)
        BY <3>1
      <4>3. n # N => N - 1 \in 1 .. (N - 1) /\ kept(N - 1) = N
        BY <3>1
      <4>. QED  BY <4>1, <4>2, <4>3
    <3>. HIDE DEF kept
    <3>. QED  BY <1>2, <3>1
  <2>. HIDE DEF kept
  <2>5. IsLedger(ledger')
    <3>1. \A i \in DOMAIN ledger' : Sealed(ledger'[i])
      BY <1>1, <1>2, <2>3, <2>4 DEF IsLedger
    <3>. QED  BY <2>3, <3>1, SequenceOfItsRange DEF IsLedger
  <2>6. LedgerOrdered'
    BY <1>1, <1>2, <2>2, <2>3, <2>4 DEF LedgerOrdered
  <2>7. ASSUME ~truncated' PROVE EndsAtTheLastEvent'
    <3>1. EndsAtTheLastEvent /\ n # Len(ledger)
      BY <1>1, <2>1, <2>7
    <3>2. ledger' # <<>> /\ ledger'[Len(ledger')] = ledger[Len(ledger)]
      <4>1. Len(ledger') \in 1 .. (Len(ledger) - 1) /\ kept(Len(ledger')) = Len(ledger)
        BY <2>3, <2>4, <3>1
      <4>2. ledger'[Len(ledger')] = ledger[kept(Len(ledger'))]
        BY <2>3, <4>1
      <4>3. ledger' # <<>>
        BY <2>3, <4>1
      <4>. QED  BY <4>1, <4>2, <4>3
    <3>3. (LastSequence(ledger) = Len(recorded))'
      BY <1>2, <2>2, <3>1, <3>2 DEF EndsAtTheLastEvent, LastSequence
    <3>4. \A i \in DOMAIN ledger' :
             Integrity(ledger'[i]) => ledger'[i].value.payload = ledger'[i].value.sequence
      BY <1>2, <2>3, <2>4, <3>1 DEF EndsAtTheLastEvent
    <3>. QED  BY <3>2, <3>3, <3>4 DEF EndsAtTheLastEvent
  <2>8. damage' \in 0 .. MaxDamage /\ truncated' \in BOOLEAN
    BY <1>1, <2>1, <2>2, DatabaseAssumption DEF LedgerTyped
  <2>9. LedgerTyped'
    BY <1>1, <2>2, <2>8 DEF LedgerTyped
  <2>10. ExportsVerified'
    BY <1>1, <2>1, <2>2, ExportsKept DEF LedgerTyped
  <2>. QED  BY <2>5, <2>6, <2>7, <2>9, <2>10 DEF LedgerInv
<1>. QED  BY <1>3, <1>4, <1>5

LEMMA LedgerNext == LedgerInv /\ [Next]_vars => LedgerInv'
<1>. SUFFICES ASSUME LedgerInv, [Next]_vars PROVE LedgerInv'
  OBVIOUS
<1>1. CASE UNCHANGED vars
  <2>1. UNCHANGED <<version, ledger, exports, process, recorded, damage, truncated>>
    BY <1>1 DEF vars
  <2>2. LedgerTyped' /\ LedgerOrdered' /\ IsLedger(ledger')
    BY <2>1 DEF LedgerInv, LedgerTyped, LedgerOrdered
  <2>3. ~truncated' => EndsAtTheLastEvent'
    BY <2>1 DEF LedgerInv, EndsAtTheLastEvent
  <2>4. ExportsVerified'
    BY <2>1, ExportsKept DEF LedgerInv, LedgerTyped
  <2>. QED  BY <2>2, <2>3, <2>4 DEF LedgerInv
<1>2. CASE Next
  BY <1>2, CommandsKeepLedger, WorldKeepsLedger DEF Next
<1>. QED  BY <1>1, <1>2
-----------------------------------------------------------------------------
\* What commands alone leave of the ledger.

Begins(rows) == Len(rows) <= Len(ledger) /\ \A i \in 1 .. Len(rows) : rows[i] = ledger[i]

\* An undamaged ledger only grows by linked events: what was read of it, published
\* or not yet, is how it begins.
UndamagedInv ==
    damage = 0 =>
        /\ Verified(ledger)
        /\ \A path \in Outputs : exports[path] # <<>> => Begins(exports[path])
        /\ \A p \in Processes : process[p].pc = "export" => Begins(process[p].content)

\* The event that is created over a ledger that verifies is one it verifies with.
LEMMA AppendKeepsTheChain ==
    ASSUME NEW S, NEW rows \in Seq(S), ChainVerifies(rows), NEW payload
    PROVE  ChainVerifies(Append(rows, CreateAuditEvent(rows, payload)))
<1>. DEFINE e == CreateAuditEvent(rows, payload)
            longer == Append(rows, e)
<1>1. /\ Integrity(e) /\ e.value.sequence = LastSequence(rows) + 1
      /\ e.value.previous = Root(rows)
  BY DEF CreateAuditEvent, Event, Integrity
<1>. HIDE DEF e
<1>2. /\ Len(rows) \in Nat /\ DOMAIN rows = 1 .. Len(rows)
      /\ rows = <<>> <=> Len(rows) = 0
      /\ DOMAIN longer = 1 .. (Len(rows) + 1)
      /\ \A i \in 1 .. Len(rows) : longer[i] = rows[i]
      /\ longer[Len(rows) + 1] = e
  OBVIOUS
<1>3. LastSequence(rows) = Len(rows)
  <2>1. CASE rows = <<>>
    BY <1>2, <2>1 DEF LastSequence
  <2>2. CASE rows # <<>>
    <3>1. Len(rows) \in DOMAIN rows
      BY <1>2, <2>2
    <3>. QED  BY <2>2, <3>1 DEF LastSequence, ChainVerifies, Linked
  <2>. QED  BY <2>1, <2>2
<1>4. ASSUME NEW n \in 0 .. Len(rows) PROVE SubSeq(longer, 1, n) = SubSeq(rows, 1, n)
  <2>1. longer \in Seq(S \cup {e}) /\ Len(longer) = Len(rows) + 1
    OBVIOUS
  <2>2. /\ SubSeq(longer, 1, n) = [i \in 1 .. n |-> longer[i]]
        /\ SubSeq(rows, 1, n) = [i \in 1 .. n |-> rows[i]]
    <3>. HIDE DEF longer
    <3>. QED  BY <1>2, <1>4, <2>1
  <2>3. \A i \in 1 .. n : longer[i] = rows[i]
    BY <1>2
  <2>. QED  BY <2>2, <2>3
<1>5. SubSeq(rows, 1, Len(rows)) = rows
  OBVIOUS
<1>. HIDE DEF longer
<1>6. ASSUME NEW i \in DOMAIN longer
      PROVE  /\ longer[i].value.sequence = i
             /\ longer[i].value.previous = Root(SubSeq(longer, 1, i - 1))
             /\ Integrity(longer[i])
  <2>1. CASE i \in 1 .. Len(rows)
    <3>1. /\ rows[i].value.sequence = i
          /\ rows[i].value.previous = Root(SubSeq(rows, 1, i - 1))
          /\ Integrity(rows[i])
      BY <1>2, <2>1 DEF ChainVerifies, Linked
    <3>2. SubSeq(longer, 1, i - 1) = SubSeq(rows, 1, i - 1)
      <4>1. i - 1 \in 0 .. Len(rows)
        BY <1>2, <2>1
      <4>. QED  BY <1>4, <4>1
    <3>. QED  BY <1>2, <2>1, <3>1, <3>2
  <2>2. CASE i = Len(rows) + 1
    <3>1. i - 1 = Len(rows) /\ Len(rows) \in 0 .. Len(rows)
      BY <1>2, <2>2
    <3>2. SubSeq(longer, 1, i - 1) = rows
      BY <1>4, <1>5, <3>1
    <3>. QED  BY <1>1, <1>2, <1>3, <2>2, <3>2
  <2>. QED  BY <1>2, <2>1, <2>2
<1>. QED  BY <1>6 DEF ChainVerifies, Linked, longer, e

LEMMA UndamagedInit == Init => UndamagedInv
<1>. SUFFICES ASSUME Init PROVE UndamagedInv
  OBVIOUS
<1>1. <<>> \in Seq({}) /\ ChainVerifies(<<>>)
  BY DEF ChainVerifies, Linked
<1>2. ChainVerifies(Append(<<>>, CreateAuditEvent(<<>>, 1)))
  BY <1>1, AppendKeepsTheChain
<1>3. ledger = Append(<<>>, CreateAuditEvent(<<>>, 1)) /\ ledger # <<>>
  BY DEF Init
<1>4. Verified(ledger)
  BY <1>2, <1>3 DEF Verified, VerifyAuditChain, NoRoot
<1>. QED  BY <1>4 DEF Init, UndamagedInv, Idle

LEMMA UndamagedNext == LedgerInv /\ UndamagedInv /\ [Next]_vars => UndamagedInv'
<1>. SUFFICES ASSUME LedgerInv, UndamagedInv, [Next]_vars, damage' = 0 PROVE UndamagedInv'
  BY DEF UndamagedInv
<1>1. /\ damage \in Nat /\ ledger \in Seq(Range(ledger)) /\ Len(ledger) \in Nat
      /\ DOMAIN process = Processes /\ DOMAIN exports = Outputs
  BY DatabaseAssumption DEF LedgerInv, LedgerTyped, IsLedger
<1>2. ~AlterRow /\ ~LoseRow
  BY <1>1 DEF AlterRow, LoseRow
<1>3. damage = 0
  BY <1>2 DEF Next, vars, StartMigration, Migrate, OpenToWrite, AppendAuditEvent, ReadLedger,
              PublishExport, Abandon, UpgradeFurther
<1>4. /\ Verified(ledger)
      /\ \A path \in Outputs : exports[path] # <<>> => Begins(exports[path])
      /\ \A p \in Processes : process[p].pc = "export" => Begins(process[p].content)
  BY <1>3 DEF UndamagedInv
<1>5. ASSUME UNCHANGED <<ledger, exports>>,
             \A p \in Processes : process'[p].pc = "export" => process'[p] = process[p]
      PROVE  UndamagedInv'
  BY <1>4, <1>5 DEF UndamagedInv, Begins
<1>6. ASSUME NEW p \in Processes,
             \/ StartMigration(p) \/ Migrate(p) \/ OpenToWrite(p) \/ Abandon(p)
      PROVE  UndamagedInv'
  <2>1. /\ UNCHANGED <<ledger, exports>>
        /\ Stop(p) \/ Continue(p, "migrate") \/ Continue(p, "write")
    BY <1>6 DEF StartMigration, Migrate, OpenToWrite, Abandon
  <2>2. process[p] = [pc |-> process[p].pc, content |-> process[p].content]
    BY DEF LedgerInv, LedgerTyped
  <2>3. \A q \in Processes : process'[q].pc = "export" => process'[q] = process[q]
    BY <1>1, <2>1, <2>2 DEF Stop, Continue, Idle
  <2>. QED  BY <1>5, <2>1, <2>3
<1>7. ASSUME NEW p \in Processes, AppendAuditEvent(p) PROVE UndamagedInv'
  <2>. DEFINE e == CreateAuditEvent(ledger, Len(recorded) + 1)
  <2>1. /\ ledger' = Append(ledger, e) /\ Stop(p) /\ exports' = exports
    BY <1>7 DEF AppendAuditEvent
  <2>2. ChainVerifies(ledger')
    BY <1>1, <1>4, <2>1, AppendKeepsTheChain DEF Verified, VerifyAuditChain
  <2>. HIDE DEF e
  <2>3. /\ ledger' # <<>> /\ Len(ledger') = Len(ledger) + 1
        /\ \A i \in 1 .. Len(ledger) : ledger'[i] = ledger[i]
    BY <1>1, <2>1
  <2>4. ASSUME NEW rows, Len(rows) \in Nat, Begins(rows)
        PROVE  Len(rows) <= Len(ledger') /\ \A i \in 1 .. Len(rows) : rows[i] = ledger'[i]
    BY <1>1, <2>3, <2>4 DEF Begins
  <2>5. ASSUME NEW path \in Outputs, exports'[path] # <<>> PROVE Begins(exports[path])'
    <3>1. Begins(exports[path]) /\ Len(exports[path]) \in Nat
      BY <1>4, <2>1, <2>5 DEF LedgerInv, ExportsVerified, Exported, IsLedger
    <3>. QED  BY <2>1, <2>4, <3>1 DEF Begins
  <2>6. ASSUME NEW q \in Processes, process'[q].pc = "export"
        PROVE  Begins(process[q].content)'
    <3>1. process'[q] = process[q]
      BY <1>1, <2>1, <2>6 DEF Stop, Idle
    <3>2. Begins(process[q].content) /\ Len(process[q].content) \in Nat
      BY <1>4, <2>6, <3>1 DEF LedgerInv, ExportsVerified, Exported, IsLedger
    <3>. QED  BY <2>4, <3>1, <3>2 DEF Begins
  <2>7. Verified(ledger')
    BY <2>2, <2>3 DEF Verified, VerifyAuditChain, NoRoot
  <2>. QED  BY <2>5, <2>6, <2>7 DEF UndamagedInv
<1>8. ASSUME NEW p \in Processes, ReadLedger(p) PROVE UndamagedInv'
  <2>1. /\ UNCHANGED <<ledger, exports>>
        /\ process' = [process EXCEPT ![p] = [pc |-> "export", content |-> ledger]]
    BY <1>8 DEF ReadLedger
  <2>2. ASSUME NEW q \in Processes, process'[q].pc = "export"
        PROVE  Begins(process[q].content)'
    <3>1. CASE q = p
      <4>1. process'[q].content = ledger
        BY <1>1, <2>1, <3>1
      <4>. QED  BY <1>1, <2>1, <4>1 DEF Begins
    <3>2. CASE q # p
      BY <1>1, <1>4, <2>1, <2>2, <3>2 DEF Begins
    <3>. QED  BY <3>1, <3>2
  <2>. QED  BY <1>4, <2>1, <2>2 DEF UndamagedInv, Begins
<1>9. ASSUME NEW p \in Processes, PublishExport(p) PROVE UndamagedInv'
  <2>1. PICK path \in Outputs : exports' = [exports EXCEPT ![path] = process[p].content]
    BY <1>9 DEF PublishExport
  <2>2. process[p].pc = "export" /\ Stop(p) /\ ledger' = ledger
    BY <1>9 DEF PublishExport
  <2>3. ASSUME NEW other \in Outputs, exports'[other] # <<>> PROVE Begins(exports[other])'
    BY <1>1, <1>4, <2>1, <2>2, <2>3 DEF Begins
  <2>4. ASSUME NEW q \in Processes, process'[q].pc = "export"
        PROVE  Begins(process[q].content)'
    BY <1>1, <1>4, <2>2, <2>4 DEF Begins, Stop, Idle
  <2>. QED  BY <1>4, <2>2, <2>3, <2>4 DEF UndamagedInv
<1>10. ASSUME UpgradeFurther \/ UNCHANGED vars PROVE UndamagedInv'
  BY <1>5, <1>10 DEF UpgradeFurther, vars
<1>. QED  BY <1>2, <1>6, <1>7, <1>8, <1>9, <1>10 DEF Next
-----------------------------------------------------------------------------
\* The sessions, and the commands under way.

Rows == [Sessions -> {"absent", "open", "ended"}]

CommandRecord ==
    [pc : Registry!Steps, op : Registry!Operations, todo : SUBSET Sessions, rows : Rows,
     found : Commits \cup {NoCommit}, ended : SUBSET Sessions]

SessionsTyped ==
    /\ session \in Rows
    /\ beat \in [Sessions -> Commits \cup {NoCommit}]
    /\ snapshot \in [Sessions -> Commits \cup {NoCommit}]
    /\ entries \in [Sessions -> 0 .. MaxEntries]
    /\ command \in [Processes -> CommandRecord]

\* A session that was started has all its rows, and an artifact its file.
RowsTogether ==
    /\ active = Registry!InState(session, "open")
    /\ \A s \in Sessions :
          /\ beat[s] = NoCommit <=> session[s] = "absent"
          /\ snapshot[s] = NoCommit <=> session[s] = "absent"
          /\ entries[s] = 0 <=> session[s] = "absent"
          /\ s \in artifacts => SlugOf[s] \in files

TargetOf(c) == CHOOSE s \in c.todo : TRUE

\* What a command knows: the sessions it works on were started, and one that had
\* ended when the command began is written to by `reconcile` alone.  An artifact of
\* one is made from its stored snapshot.
CommandKnows(c) ==
    /\ c.pc # "corrupted"
    /\ c.pc \notin {"idle", "resolve"} => c.todo # {}
    /\ \A s \in Sessions : c.rows[s] # "absent" => session[s] # "absent"
    /\ c.pc = "resolve" => c.op # "start"
    /\ c.pc = "resolve" /\ c.op = "artifact" => \E s \in Sessions : c.todo = {s}
    /\ c.pc \notin {"idle", "resolve"} /\ c.op # "start" =>
          \A s \in c.todo : session[s] # "absent"
    /\ c.pc = "stored" =>
          /\ c.op \in {"artifact", "artifact_only"}
          /\ \A s \in c.ended : c.todo = {s} /\ c.rows[s] = "ended"
    /\ c.pc \in {"observe", "write"} /\ c.op # "reconcile" => c.ended = {}
    /\ c.pc = "write" /\ c.op # "capture" => c.found \in Commits
    /\ c.pc = "record" => SlugOf[TargetOf(c)] \in files

SessionsInv ==
    /\ SessionsTyped
    /\ RowsTogether
    /\ \A p \in Processes : CommandKnows(command[p])

LEMMA IdleCommand ==
    ASSUME NoCommit \notin Commits
    PROVE  /\ Registry!Idle \in CommandRecord
           /\ CommandKnows(Registry!Idle)
           /\ CommandKnows(Registry!Idle)'
           /\ Registry!Idle.pc = "idle"
<1>1. [s \in Sessions |-> "absent"] \in Rows
  BY DEF Rows
<1>2. Registry!Idle \in CommandRecord
  BY <1>1 DEF Registry!Idle, CommandRecord, Registry!Steps, Registry!Operations
<1>3. CommandKnows(Registry!Idle) /\ Registry!Idle.pc = "idle"
  BY DEF CommandKnows, Registry!Idle
<1>4. CommandKnows(Registry!Idle)'
  BY DEF CommandKnows, Registry!Idle
<1>. QED  BY <1>2, <1>3, <1>4

LEMMA SessionsInit == Registry!Init => SessionsInv
<1>. SUFFICES ASSUME Registry!Init PROVE SessionsInv
  OBVIOUS
<1>1. PICK commit \in Commits :
        beat = [s \in Sessions |-> IF session[s] = "open" THEN commit ELSE NoCommit]
  BY DEF Registry!Init
<1>2. /\ session \in [Sessions -> {"absent", "open"}]
      /\ active = Registry!InState(session, "open")
      /\ snapshot = beat
      /\ entries = [s \in Sessions |-> IF session[s] = "open" THEN 1 ELSE 0]
      /\ artifacts = {}
      /\ command = [p \in Processes |-> Registry!Idle]
  BY DEF Registry!Init
<1>3. SessionsTyped
  <2>1. 1 \in 0 .. MaxEntries /\ 0 \in 0 .. MaxEntries
    BY RegistryAssumption
  <2>2. command \in [Processes -> CommandRecord]
    BY <1>2, IdleCommand, RegistryAssumption
  <2>3. session \in Rows
    BY <1>2 DEF Rows
  <2>. QED  BY <1>1, <1>2, <2>1, <2>2, <2>3 DEF SessionsTyped
<1>4. RowsTogether
  BY <1>1, <1>2, RegistryAssumption DEF RowsTogether
<1>5. \A p \in Processes : CommandKnows(command[p])
  BY <1>2, IdleCommand, RegistryAssumption
<1>. QED  BY <1>3, <1>4, <1>5 DEF SessionsInv

\* When one command moves on, the others keep what they know: no session goes back
\* to being absent, and no file goes away.
LEMMA CommandMoves ==
    ASSUME SessionsInv, NEW p \in Processes, NEW moved \in CommandRecord,
           command' = [command EXCEPT ![p] = moved],
           \A s \in Sessions : session[s] # "absent" => session'[s] # "absent",
           files \subseteq files', CommandKnows(moved)'
    PROVE  /\ command' \in [Processes -> CommandRecord]
           /\ \A q \in Processes : CommandKnows(command[q])'
<1>1. command \in [Processes -> CommandRecord] /\ \A q \in Processes : CommandKnows(command[q])
  BY DEF SessionsInv, SessionsTyped
<1>2. command' \in [Processes -> CommandRecord]
  BY <1>1
<1>3. ASSUME NEW q \in Processes PROVE CommandKnows(command[q])'
  <2>1. CASE q = p
    <3>1. command'[q] = moved
      BY <1>1, <2>1
    <3>. QED  BY <3>1 DEF CommandKnows
  <2>2. CASE q # p
    <3>1. command'[q] = command[q] /\ command[q] \in CommandRecord /\ CommandKnows(command[q])
      BY <1>1, <2>2
    <3>2. command[q].todo \subseteq Sessions
      BY <3>1 DEF CommandRecord
    <3>. QED  BY <3>1, <3>2 DEF CommandKnows
  <2>. QED  BY <2>1, <2>2
<1>. QED  BY <1>2, <1>3
LEMMA OnlyTheCommandMoves ==
    ASSUME SessionsInv, NEW p \in Processes, NEW moved \in CommandRecord,
           command' = [command EXCEPT ![p] = moved],
           UNCHANGED <<session, active, beat, snapshot, entries, files, artifacts>>,
           CommandKnows(moved)
    PROVE  SessionsInv'
<1>1. /\ command' \in [Processes -> CommandRecord]
      /\ \A q \in Processes : CommandKnows(command[q])'
  <2>1. CommandKnows(moved)'
    BY DEF CommandKnows
  <2>. QED  BY <2>1, CommandMoves
<1>2. SessionsTyped'
  BY <1>1 DEF SessionsInv, SessionsTyped
<1>3. RowsTogether'
  BY DEF SessionsInv, RowsTogether, Registry!InState
<1>. QED  BY <1>1, <1>2, <1>3 DEF SessionsInv

\* What reading yields.
LEMMA ResolvedSessions ==
    ASSUME SessionsInv, NEW p \in Processes, command[p].pc = "resolve"
    PROVE  /\ Registry!Resolved(p) \subseteq Sessions
           /\ \A s \in Registry!Resolved(p) : session[s] # "absent"
           /\ command[p].op \in {"heartbeat", "capture", "reconcile_all", "artifact_only"} =>
                 \A s \in Registry!Resolved(p) : command[p].rows[s] = "open"
           /\ command[p].op = "artifact" => Registry!Resolved(p) \subseteq command[p].todo
<1>. DEFINE c == command[p]
<1>1. c \in CommandRecord /\ CommandKnows(c)
  BY DEF SessionsInv, SessionsTyped
<1>2. c.op \in Registry!Operations /\ c.op # "start"
  BY <1>1 DEF CommandRecord, CommandKnows
<1>3. \A s \in Registry!ActiveSessions(p) : s \in Sessions /\ c.rows[s] = "open"
  BY DEF Registry!ActiveSessions, Registry!InState, Registry!Visible
<1>4. \A s \in Sessions \ Registry!InState(c.rows, "absent") : c.rows[s] # "absent"
  BY DEF Registry!InState
<1>5. \A s \in Sessions : c.rows[s] # "absent" => session[s] # "absent"
  BY <1>1 DEF CommandKnows
<1>6. CASE c.op \in {"heartbeat", "capture"}
  <2>1. Registry!Resolved(p) = c.todo \cap Registry!ActiveSessions(p)
    BY <1>6 DEF Registry!Resolved
  <2>. QED  BY <1>3, <1>5, <1>6, <2>1
<1>7. CASE c.op \in {"reconcile", "artifact"}
  <2>1. Registry!Resolved(p) = c.todo \cap (Sessions \ Registry!InState(c.rows, "absent"))
    BY <1>7 DEF Registry!Resolved
  <2>. QED  BY <1>4, <1>5, <1>7, <2>1
<1>8. CASE c.op = "reconcile_all"
  <2>1. Registry!Resolved(p) = Registry!ActiveSessions(p)
    BY <1>8 DEF Registry!Resolved
  <2>. QED  BY <1>3, <1>5, <1>8, <2>1
<1>9. CASE c.op = "artifact_only"
  <2>1. Registry!Resolved(p) \subseteq Registry!ActiveSessions(p)
    BY <1>9 DEF Registry!Resolved
  <2>. QED  BY <1>3, <1>5, <1>9, <2>1
<1>. QED  BY <1>2, <1>6, <1>7, <1>8, <1>9 DEF Registry!Operations

\* The steps of a command up to its first write.
LEMMA ReadingKeepsSessions ==
    ASSUME SessionsInv, NEW p \in Processes,
           \/ Registry!BeginTask(p) \/ Registry!Begin(p) \/ Registry!Resolve(p)
           \/ Registry!RefuseCommand(p) \/ Registry!ReportCorruption(p)
           \/ Registry!ReadStoredSnapshot(p) \/ Registry!Observe(p) \/ Registry!Abandon(p)
    PROVE  SessionsInv'
<1>. DEFINE c == command[p]
<1>1. /\ command \in [Processes -> CommandRecord] /\ c \in CommandRecord /\ CommandKnows(c)
      /\ session \in Rows
  BY DEF SessionsInv, SessionsTyped
<1>2. /\ Registry!Idle \in CommandRecord /\ CommandKnows(Registry!Idle)
      /\ Registry!Idle.rows \in Rows
      /\ \A s \in Sessions : Registry!Idle.rows[s] = "absent"
  BY IdleCommand, RegistryAssumption DEF Registry!Idle, Rows
<1>3. CASE Registry!BeginTask(p)
  <2>1. PICK s \in Sessions :
          command' = [command EXCEPT ![p] =
              [Registry!Idle EXCEPT !.pc = "observe", !.op = "start", !.todo = {s}]]
    BY <1>3 DEF Registry!BeginTask, Registry!InState
  <2>. DEFINE moved == [Registry!Idle EXCEPT !.pc = "observe", !.op = "start", !.todo = {s}]
  <2>2. moved \in CommandRecord
    BY <1>2 DEF CommandRecord, Registry!Steps, Registry!Operations
  <2>3. CommandKnows(moved)
    BY <1>2 DEF CommandKnows, Registry!Idle
  <2>4. command' = [command EXCEPT ![p] = moved]
    BY <2>1
  <2>. HIDE DEF moved
  <2>. QED  BY <1>3, <2>2, <2>3, <2>4, OnlyTheCommandMoves DEF Registry!BeginTask
<1>4. CASE Registry!Begin(p)
  <2>1. PICK asked \in Registry!Commands :
          command' = [command EXCEPT ![p] =
              [Registry!Idle EXCEPT !.pc = "resolve", !.op = asked.op, !.todo = asked.todo,
                                    !.rows = session]]
    BY <1>4 DEF Registry!Begin
  <2>. DEFINE moved == [Registry!Idle EXCEPT !.pc = "resolve", !.op = asked.op,
                                             !.todo = asked.todo, !.rows = session]
  <2>2. /\ asked.op \in Registry!Operations \ {"start"}
        /\ asked.todo \in SUBSET Sessions
        /\ asked.op = "artifact" => \E s \in Sessions : asked.todo = {s}
    BY DEF Registry!Commands, Registry!Operations
  <2>3. moved \in CommandRecord
    BY <1>1, <1>2, <2>2 DEF CommandRecord, Registry!Steps
  <2>4. CommandKnows(moved)
    BY <2>2 DEF CommandKnows, Registry!Idle
  <2>5. command' = [command EXCEPT ![p] = moved]
    BY <2>1
  <2>. HIDE DEF moved
  <2>. QED  BY <1>4, <2>3, <2>4, <2>5, OnlyTheCommandMoves DEF Registry!Begin
<1>5. CASE Registry!Resolve(p)
  <2>. DEFINE found == Registry!Resolved(p)
              step == Registry!FirstStep(c.op)
              ended == found \cap Registry!InState(c.rows, "ended")
              rows == [s \in Sessions |->
                         IF step = "stored" /\ s \in found
                         THEN c.rows[s] ELSE Registry!Idle.rows[s]]
              moved == [c EXCEPT !.pc = step, !.todo = found, !.ended = ended, !.rows = rows]
  <2>1. c.pc = "resolve" /\ found # {}
    BY <1>5 DEF Registry!Resolve
  <2>2. command' = [command EXCEPT ![p] = moved]
    BY <1>1, <1>5 DEF Registry!Resolve
  <2>3. /\ found \subseteq Sessions
        /\ \A s \in found : session[s] # "absent"
        /\ c.op \in {"heartbeat", "capture", "reconcile_all", "artifact_only"} =>
              \A s \in found : c.rows[s] = "open"
        /\ c.op = "artifact" => found \subseteq c.todo
    BY <2>1, ResolvedSessions
  <2>4. c.op \in Registry!Operations /\ c.op # "start" /\ c.rows \in Rows
    BY <1>1, <2>1 DEF CommandRecord, CommandKnows
  <2>5. /\ step \in {"write", "stored", "observe"}
        /\ step = "write" => c.op = "capture"
        /\ step = "stored" => c.op \in {"artifact", "artifact_only"}
        /\ c.op \in {"artifact", "artifact_only"} => step = "stored"
    BY DEF Registry!FirstStep
  <2>6. /\ ended \subseteq found /\ \A s \in ended : c.rows[s] = "ended"
        /\ c.op \in {"heartbeat", "capture", "reconcile_all", "artifact_only"} => ended = {}
    BY <2>3 DEF Registry!InState
  <2>7. \A s \in ended : c.op = "artifact" => found = {s}
    <3>1. c.op = "artifact" => \E s \in Sessions : c.todo = {s}
      BY <1>1, <2>1 DEF CommandKnows
    <3>. QED  BY <2>3, <2>6, <3>1
  <2>8. rows \in Rows
    BY <1>2, <2>4 DEF Rows
  <2>9. \A s \in Sessions : rows[s] # "absent" => session[s] # "absent"
    BY <1>2, <2>3
  <2>10. step = "stored" => \A s \in ended : rows[s] = "ended"
    BY <2>3, <2>6
  <2>11. /\ moved.pc = step /\ moved.op = c.op /\ moved.todo = found /\ moved.ended = ended
         /\ moved.rows = rows /\ moved.found = c.found /\ moved \in CommandRecord
    <3>1. step \in Registry!Steps
      BY <2>5 DEF Registry!Steps
    <3>2. ended \in SUBSET Sessions /\ found \in SUBSET Sessions
      BY <2>3, <2>6
    <3>. HIDE DEF step, found, ended, rows
    <3>. QED  BY <1>1, <2>8, <3>1, <3>2 DEF CommandRecord
  <2>12. CommandKnows(moved)
    <3>. HIDE DEF step, found, ended, rows, moved
    <3>. QED  BY <2>1, <2>3, <2>4, <2>5, <2>6, <2>7, <2>9, <2>10, <2>11
              DEF CommandKnows, Registry!Operations
  <2>. HIDE DEF moved
  <2>. QED  BY <1>5, <2>2, <2>11, <2>12, OnlyTheCommandMoves DEF Registry!Resolve
<1>6. ASSUME Registry!Finish(p),
             UNCHANGED <<session, active, beat, snapshot, entries, files, artifacts>>
      PROVE  SessionsInv'
  BY <1>2, <1>6, OnlyTheCommandMoves DEF Registry!Finish
<1>7. CASE Registry!RefuseCommand(p) \/ Registry!Abandon(p)
  BY <1>6, <1>7 DEF Registry!RefuseCommand, Registry!Abandon
<1>8. CASE Registry!ReportCorruption(p)
  <2>1. c.pc = "resolve" /\ ~Registry!Consistent(p)
    BY <1>8 DEF Registry!ReportCorruption
  <2>2. PICK s \in Registry!Resolved(p) :
          /\ c.op \in {"heartbeat", "capture", "artifact_only"}
          /\ s \notin Registry!InState(c.rows, "open")
    BY <2>1 DEF Registry!Consistent
  <2>. QED  BY <2>1, <2>2, ResolvedSessions DEF Registry!InState
<1>9. CASE Registry!ReadStoredSnapshot(p)
  <2>. DEFINE step == IF Registry!LiveSnapshot(p) THEN "observe" ELSE "file"
              moved == [c EXCEPT !.pc = step]
  <2>1. c.pc = "stored" /\ command' = [command EXCEPT ![p] = moved]
    BY <1>1, <1>9 DEF Registry!ReadStoredSnapshot, Registry!Continue
  <2>2. /\ moved.pc = step /\ moved.op = c.op /\ moved.todo = c.todo
        /\ moved.ended = c.ended /\ moved.rows = c.rows /\ moved.found = c.found
        /\ moved \in CommandRecord
    BY <1>1 DEF CommandRecord, Registry!Steps
  <2>3. step = "observe" => c.ended = {}
    <3>1. SUFFICES ASSUME Registry!LiveSnapshot(p), NEW s \in c.ended PROVE FALSE
      <4>1. c.ended = {} <=> \A s \in c.ended : FALSE
        OBVIOUS
      <4>. QED  BY <4>1
    <3>2. c.todo = {s} /\ c.rows[s] = "ended" /\ s \in Sessions
      BY <1>1, <2>1 DEF CommandKnows, CommandRecord
    <3>3. Registry!Target(p) = s
      BY <3>2 DEF Registry!Target
    <3>4. session[s] # "absent"
      BY <1>1, <3>2 DEF CommandKnows
    <3>5. snapshot[s] # NoCommit
      BY <3>2, <3>4 DEF SessionsInv, RowsTogether
    <3>. QED  BY <3>1, <3>2, <3>3, <3>5 DEF Registry!LiveSnapshot
  <2>4. CommandKnows(moved)
    <3>1. step \in {"observe", "file"}
      OBVIOUS
    <3>. HIDE DEF step, moved
    <3>. QED  BY <1>1, <2>1, <2>2, <2>3, <3>1 DEF CommandKnows
  <2>. HIDE DEF moved
  <2>. QED  BY <1>9, <2>1, <2>2, <2>4, OnlyTheCommandMoves DEF Registry!ReadStoredSnapshot
<1>10. CASE Registry!Observe(p)
  <2>1. PICK commit \in Commits :
          command' = [command EXCEPT ![p].pc = "write", ![p].found = commit,
                                     ![p].rows = Registry!Idle.rows]
    BY <1>10 DEF Registry!Observe
  <2>. DEFINE moved == [c EXCEPT !.pc = "write", !.found = commit, !.rows = Registry!Idle.rows]
  <2>2. c.pc = "observe" /\ command' = [command EXCEPT ![p] = moved]
    BY <1>1, <1>10, <2>1 DEF Registry!Observe
  <2>3. /\ moved.pc = "write" /\ moved.op = c.op /\ moved.todo = c.todo
        /\ moved.ended = c.ended /\ moved.rows = Registry!Idle.rows /\ moved.found = commit
        /\ moved \in CommandRecord
    BY <1>1, <1>2 DEF CommandRecord, Registry!Steps
  <2>4. CommandKnows(moved)
    <3>. HIDE DEF moved
    <3>. QED  BY <1>1, <1>2, <2>2, <2>3 DEF CommandKnows
  <2>. HIDE DEF moved
  <2>. QED  BY <1>10, <2>2, <2>3, <2>4, OnlyTheCommandMoves DEF Registry!Observe
<1>. QED  BY <1>3, <1>4, <1>5, <1>7, <1>8, <1>9, <1>10
\* The writes of a command, and completion.
LEMMA WritingKeepsSessions ==
    ASSUME SessionsInv, NEW p \in Processes,
           \/ Registry!StartTask(p) \/ Registry!Heartbeat(p) \/ Registry!CaptureEntry(p)
           \/ Registry!Reconcile(p) \/ Registry!StoreLiveSnapshot(p)
           \/ Registry!WriteArtifactFile(p) \/ Registry!RecordArtifact(p)
    PROVE  SessionsInv'
<1>. DEFINE c == command[p]
            t == Registry!Target(p)
<1>1. /\ command \in [Processes -> CommandRecord] /\ c \in CommandRecord /\ CommandKnows(c)
      /\ session \in Rows
      /\ beat \in [Sessions -> Commits \cup {NoCommit}]
      /\ snapshot \in [Sessions -> Commits \cup {NoCommit}]
      /\ entries \in [Sessions -> 0 .. MaxEntries]
  BY DEF SessionsInv, SessionsTyped
<1>2. /\ Registry!Idle \in CommandRecord /\ CommandKnows(Registry!Idle)'
      /\ Registry!Idle.rows \in Rows
      /\ \A s \in Sessions : Registry!Idle.rows[s] = "absent"
  BY IdleCommand, RegistryAssumption DEF Registry!Idle, Rows
<1>3. c.pc \notin {"idle", "resolve"} => t \in c.todo /\ t \in Sessions
  <2>1. c.todo \subseteq Sessions
    BY <1>1 DEF CommandRecord
  <2>2. c.todo # {} => t \in c.todo
    BY DEF Registry!Target
  <2>. QED  BY <1>1, <2>1, <2>2 DEF CommandKnows
<1>4. TargetOf(c) = t
  BY DEF TargetOf, Registry!Target
<1>5. RowsTogether
  BY DEF SessionsInv
<1>6. MaxEntries \in Nat \ {0} /\ NoCommit \notin Commits
  BY RegistryAssumption
<1>7. CASE Registry!StartTask(p)
  <2>1. /\ c.pc = "write" /\ c.op = "start"
        /\ session' = [session EXCEPT ![t] = "open"]
        /\ active' = Registry!InState(session', "open")
        /\ beat' = [beat EXCEPT ![t] = c.found]
        /\ snapshot' = [snapshot EXCEPT ![t] = c.found]
        /\ entries' = [entries EXCEPT ![t] = 1]
        /\ command' = [command EXCEPT ![p] = Registry!Idle]
        /\ UNCHANGED <<files, artifacts>>
    BY <1>7 DEF Registry!StartTask, Registry!Finish
  <2>2. t \in Sessions /\ c.found \in Commits
    BY <1>1, <1>3, <2>1 DEF CommandKnows
  <2>3. session' \in Rows /\ \A s \in Sessions : session'[s] = IF s = t THEN "open" ELSE session[s]
    BY <1>1, <2>1 DEF Rows
  <2>4. /\ command' \in [Processes -> CommandRecord]
        /\ \A q \in Processes : CommandKnows(command[q])'
    <3>1. \A s \in Sessions : session[s] # "absent" => session'[s] # "absent"
      BY <2>3
    <3>2. files \subseteq files'
      BY <2>1
    <3>. QED  BY <1>2, <2>1, <3>1, <3>2, CommandMoves
  <2>5. SessionsTyped'
    BY <1>1, <1>6, <2>1, <2>2, <2>3, <2>4 DEF SessionsTyped
  <2>6. /\ \A s \in Sessions : beat'[s] = IF s = t THEN c.found ELSE beat[s]
        /\ \A s \in Sessions : snapshot'[s] = IF s = t THEN c.found ELSE snapshot[s]
        /\ \A s \in Sessions : entries'[s] = IF s = t THEN 1 ELSE entries[s]
    BY <1>1, <2>1
  <2>7. RowsTogether'
    BY <1>5, <1>6, <2>1, <2>2, <2>3, <2>6 DEF RowsTogether
  <2>. QED  BY <2>4, <2>5, <2>7 DEF SessionsInv
<1>8. CASE Registry!Heartbeat(p)
  <2>1. /\ c.pc = "write" /\ c.op = "heartbeat"
        /\ beat' = [beat EXCEPT ![t] = c.found]
        /\ command' = [command EXCEPT ![p] = Registry!Idle]
        /\ UNCHANGED <<session, active, snapshot, entries, files, artifacts>>
    BY <1>8 DEF Registry!Heartbeat, Registry!Finish
  <2>2. t \in Sessions /\ c.found \in Commits /\ session[t] # "absent"
    BY <1>1, <1>3, <2>1 DEF CommandKnows
  <2>3. /\ command' \in [Processes -> CommandRecord]
        /\ \A q \in Processes : CommandKnows(command[q])'
    BY <1>2, <2>1, CommandMoves
  <2>4. SessionsTyped'
    BY <1>1, <2>1, <2>2, <2>3 DEF SessionsTyped
  <2>5. \A s \in Sessions : beat'[s] = IF s = t THEN c.found ELSE beat[s]
    BY <1>1, <2>1
  <2>6. RowsTogether'
    BY <1>5, <1>6, <2>1, <2>2, <2>5 DEF RowsTogether, Registry!InState
  <2>. QED  BY <2>3, <2>4, <2>6 DEF SessionsInv
<1>9. CASE Registry!CaptureEntry(p)
  <2>1. /\ c.pc = "write" /\ c.op = "capture" /\ entries[t] < MaxEntries
        /\ entries' = [entries EXCEPT ![t] = @ + 1]
        /\ command' = [command EXCEPT ![p] = Registry!Idle]
        /\ UNCHANGED <<session, active, beat, snapshot, files, artifacts>>
    BY <1>9 DEF Registry!CaptureEntry, Registry!Finish
  <2>2. t \in Sessions /\ session[t] # "absent" /\ entries[t] + 1 \in 1 .. MaxEntries
    BY <1>1, <1>3, <1>6, <2>1 DEF CommandKnows
  <2>3. /\ command' \in [Processes -> CommandRecord]
        /\ \A q \in Processes : CommandKnows(command[q])'
    BY <1>2, <2>1, CommandMoves
  <2>4. entries' \in [Sessions -> 0 .. MaxEntries]
    BY <1>1, <1>6, <2>1, <2>2
  <2>5. SessionsTyped'
    BY <1>1, <2>1, <2>3, <2>4 DEF SessionsTyped
  <2>6. \A s \in Sessions : entries'[s] = IF s = t THEN entries[t] + 1 ELSE entries[s]
    BY <1>1, <2>1
  <2>7. RowsTogether'
    BY <1>5, <2>1, <2>2, <2>6 DEF RowsTogether, Registry!InState
  <2>. QED  BY <2>3, <2>5, <2>7 DEF SessionsInv
<1>10. CASE Registry!Reconcile(p)
  <2>1. PICK s \in c.todo :
          /\ snapshot' = [snapshot EXCEPT ![s] = c.found]
          /\ IF c.todo = {s} THEN Registry!Finish(p)
             ELSE command' = [command EXCEPT ![p].pc = "observe", ![p].todo = @ \ {s},
                                             ![p].found = NoCommit]
    BY <1>10 DEF Registry!Reconcile
  <2>2. /\ c.pc = "write" /\ c.op \in {"reconcile", "reconcile_all"}
        /\ UNCHANGED <<session, active, beat, entries, files, artifacts>>
    BY <1>10 DEF Registry!Reconcile
  <2>3. s \in Sessions /\ c.found \in Commits /\ session[s] # "absent"
    BY <1>1, <2>1, <2>2 DEF CommandKnows, CommandRecord
  <2>4. /\ command' \in [Processes -> CommandRecord]
        /\ \A q \in Processes : CommandKnows(command[q])'
    <3>1. CASE c.todo = {s}
      BY <1>2, <2>1, <2>2, <3>1, CommandMoves DEF Registry!Finish
    <3>2. CASE c.todo # {s}
      <4>0. PICK moved :
              moved = [c EXCEPT !.pc = "observe", !.todo = @ \ {s}, !.found = NoCommit]
        OBVIOUS
      <4>1. command' = [command EXCEPT ![p] = moved]
        BY <1>1, <2>1, <3>2, <4>0
      <4>2. /\ moved.pc = "observe" /\ moved.op = c.op /\ moved.todo = c.todo \ {s}
            /\ moved.ended = c.ended /\ moved.rows = c.rows /\ moved.found = NoCommit
            /\ moved \in CommandRecord
        BY <1>1, <4>0 DEF CommandRecord, Registry!Steps
      <4>3. c.todo \ {s} # {}
        BY <2>1, <3>2
      <4>4. CommandKnows(moved)'
        BY <1>1, <2>2, <4>2, <4>3 DEF CommandKnows
      <4>. QED  BY <2>2, <4>1, <4>2, <4>4, CommandMoves
    <3>. QED  BY <3>1, <3>2
  <2>5. SessionsTyped'
    BY <1>1, <2>1, <2>2, <2>3, <2>4 DEF SessionsTyped
  <2>6. \A r \in Sessions : snapshot'[r] = IF r = s THEN c.found ELSE snapshot[r]
    BY <1>1, <2>1
  <2>7. RowsTogether'
    BY <1>5, <1>6, <2>2, <2>3, <2>6 DEF RowsTogether, Registry!InState
  <2>. QED  BY <2>4, <2>5, <2>7 DEF SessionsInv
<1>11. CASE Registry!StoreLiveSnapshot(p)
  <2>0. PICK moved : moved = [c EXCEPT !.pc = "file"]
    OBVIOUS
  <2>1. /\ c.pc = "write" /\ c.op \in {"artifact", "artifact_only"}
        /\ snapshot' = [snapshot EXCEPT ![t] = c.found]
        /\ command' = [command EXCEPT ![p] = moved]
        /\ UNCHANGED <<session, active, beat, entries, files, artifacts>>
    BY <1>1, <1>11, <2>0 DEF Registry!StoreLiveSnapshot, Registry!Continue
  <2>2. t \in Sessions /\ c.found \in Commits /\ session[t] # "absent"
    BY <1>1, <1>3, <2>1 DEF CommandKnows
  <2>3. /\ moved.pc = "file" /\ moved.op = c.op /\ moved.todo = c.todo
        /\ moved.ended = c.ended /\ moved.rows = c.rows /\ moved.found = c.found
        /\ moved \in CommandRecord
    BY <1>1, <2>0 DEF CommandRecord, Registry!Steps
  <2>4. CommandKnows(moved)'
    BY <1>1, <2>1, <2>3 DEF CommandKnows
  <2>5. /\ command' \in [Processes -> CommandRecord]
        /\ \A q \in Processes : CommandKnows(command[q])'
    BY <2>1, <2>3, <2>4, CommandMoves
  <2>6. SessionsTyped'
    BY <1>1, <2>1, <2>2, <2>5 DEF SessionsTyped
  <2>7. \A s \in Sessions : snapshot'[s] = IF s = t THEN c.found ELSE snapshot[s]
    BY <1>1, <2>1
  <2>8. RowsTogether'
    BY <1>5, <1>6, <2>1, <2>2, <2>7 DEF RowsTogether, Registry!InState
  <2>. QED  BY <2>5, <2>6, <2>8 DEF SessionsInv
<1>12. CASE Registry!WriteArtifactFile(p)
  <2>0. PICK moved :
          moved = [c EXCEPT !.pc = "record", !.rows = Registry!Idle.rows, !.found = NoCommit]
    OBVIOUS
  <2>1. /\ c.pc = "file" /\ files' = files \cup {SlugOf[t]}
        /\ command' = [command EXCEPT ![p] = moved]
        /\ UNCHANGED <<session, active, beat, snapshot, entries, artifacts>>
    BY <1>1, <1>12, <2>0 DEF Registry!WriteArtifactFile
  <2>2. /\ moved.pc = "record" /\ moved.op = c.op /\ moved.todo = c.todo
        /\ moved.ended = c.ended /\ moved.rows = Registry!Idle.rows
        /\ moved \in CommandRecord
    BY <1>1, <1>2, <2>0 DEF CommandRecord, Registry!Steps
  <2>3. TargetOf(moved) = t
    BY <1>4, <2>2 DEF TargetOf
  <2>4. CommandKnows(moved)'
    BY <1>1, <1>2, <2>1, <2>2, <2>3 DEF CommandKnows
  <2>5. /\ command' \in [Processes -> CommandRecord]
        /\ \A q \in Processes : CommandKnows(command[q])'
    BY <2>1, <2>2, <2>4, CommandMoves
  <2>6. SessionsTyped'
    BY <1>1, <2>1, <2>5 DEF SessionsTyped
  <2>7. RowsTogether'
    BY <1>5, <2>1 DEF RowsTogether, Registry!InState
  <2>. QED  BY <2>5, <2>6, <2>7 DEF SessionsInv
<1>13. CASE Registry!RecordArtifact(p)
  <2>1. /\ c.pc = "record" /\ artifacts' = artifacts \cup {t}
        /\ command' = [command EXCEPT ![p] = Registry!Idle]
        /\ UNCHANGED <<session, active, beat, snapshot, entries, files>>
    BY <1>13 DEF Registry!RecordArtifact, Registry!Finish
  <2>2. SlugOf[t] \in files
    BY <1>1, <1>4, <2>1 DEF CommandKnows
  <2>3. /\ command' \in [Processes -> CommandRecord]
        /\ \A q \in Processes : CommandKnows(command[q])'
    BY <1>2, <2>1, CommandMoves
  <2>4. SessionsTyped'
    BY <1>1, <2>1, <2>3 DEF SessionsTyped
  <2>5. RowsTogether'
    BY <1>5, <2>1, <2>2 DEF RowsTogether, Registry!InState
  <2>. QED  BY <2>3, <2>4, <2>5 DEF SessionsInv
<1>. QED  BY <1>7, <1>8, <1>9, <1>10, <1>11, <1>12, <1>13

LEMMA CompletionKeepsSessions ==
    ASSUME SessionsInv, NEW s \in Sessions, Registry!Complete(s)
    PROVE  SessionsInv'
<1>1. /\ session[s] = "open" /\ session' = [session EXCEPT ![s] = "ended"]
      /\ active' = Registry!InState(session', "open")
      /\ UNCHANGED <<beat, snapshot, entries, files, artifacts, command>>
  BY DEF Registry!Complete
<1>2. /\ session' \in Rows
      /\ \A r \in Sessions : session'[r] = IF r = s THEN "ended" ELSE session[r]
  BY <1>1 DEF SessionsInv, SessionsTyped, Rows
<1>3. SessionsTyped' /\ RowsTogether'
  BY <1>1, <1>2 DEF SessionsInv, SessionsTyped, RowsTogether
<1>4. ASSUME NEW q \in Processes PROVE CommandKnows(command[q])'
  <2>1. command[q] \in CommandRecord /\ CommandKnows(command[q])
    BY DEF SessionsInv, SessionsTyped
  <2>2. command[q].todo \subseteq Sessions
    BY <2>1 DEF CommandRecord
  <2>. QED  BY <1>1, <1>2, <2>1, <2>2 DEF CommandKnows
<1>. QED  BY <1>3, <1>4 DEF SessionsInv

LEMMA SessionsNext == SessionsInv /\ [Registry!Next]_(Registry!vars) => SessionsInv'
<1>. SUFFICES ASSUME SessionsInv, [Registry!Next]_(Registry!vars) PROVE SessionsInv'
  OBVIOUS
<1>1. CASE UNCHANGED Registry!vars
  <2>1. UNCHANGED <<session, active, beat, snapshot, entries, files, artifacts, command>>
    BY <1>1 DEF Registry!vars
  <2>2. SessionsTyped' /\ RowsTogether'
    BY <2>1 DEF SessionsInv, SessionsTyped, RowsTogether, Registry!InState
  <2>3. \A q \in Processes : CommandKnows(command[q])'
    BY <2>1 DEF SessionsInv, CommandKnows
  <2>. QED  BY <2>2, <2>3 DEF SessionsInv
<1>2. CASE Registry!Next
  BY <1>2, ReadingKeepsSessions, WritingKeepsSessions, CompletionKeepsSessions DEF Registry!Next
<1>. QED  BY <1>1, <1>2
-----------------------------------------------------------------------------
\* The theorems.

CommandsInv == LedgerInv /\ UndamagedInv /\ SessionsInv

LEMMA CommandsInvHolds == CommandsSpec => []CommandsInv
<1>1. CommandsInit => CommandsInv
  BY LedgerInit, UndamagedInit, SessionsInit DEF CommandsInit, CommandsInv
<1>2. CommandsInv /\ [CommandsNext]_commandsVars => CommandsInv'
  <2>. SUFFICES ASSUME CommandsInv, [CommandsNext]_commandsVars PROVE CommandsInv'
    OBVIOUS
  <2>1. [Next]_vars /\ [Registry!Next]_(Registry!vars)
    BY DEF CommandsNext, commandsVars, registryOnly, Registry!vars
  <2>. QED  BY <2>1, LedgerNext, UndamagedNext, SessionsNext DEF CommandsInv
<1>. QED  BY <1>1, <1>2, PTL DEF CommandsSpec

\* Whatever races, damage and newer builds do, the variables keep their shapes: the
\* ledger's numbers increase, each session started has all its rows.
THEOREM CommandsTypeCorrect == CommandsSpec => []CommandsTypeOK
<1>1. LedgerInv => TypeOK
  <2>. SUFFICES ASSUME LedgerInv PROVE TypeOK
    OBVIOUS
  <2>1. LedgerTyped /\ IsLedger(ledger) /\ LedgerOrdered
    BY DEF LedgerInv
  <2>2. recorded = [i \in 1 .. Len(recorded) |-> i] /\ Len(recorded) \in Nat
    BY <2>1 DEF LedgerTyped
  <2>3. Len(ledger) \in Nat /\ DOMAIN ledger = 1 .. Len(ledger)
    BY <2>1 DEF IsLedger
  <2>4. ASSUME NEW i \in DOMAIN ledger
        PROVE  /\ ledger[i].value.sequence \in 1 .. MaxEvents
               /\ i > 1 => ledger[i].value.sequence > ledger[i - 1].value.sequence
    <3>1. ledger[i].value.sequence \in 1 .. Len(recorded)
      BY <2>1 DEF LedgerOrdered
    <3>2. ledger[i].value.sequence \in 1 .. MaxEvents
      BY <2>1, <2>2, <3>1, DatabaseAssumption DEF LedgerTyped
    <3>3. ASSUME i > 1 PROVE ledger[i].value.sequence > ledger[i - 1].value.sequence
      <4>1. i - 1 \in DOMAIN ledger /\ i - 1 < i
        BY <2>3, <3>3
      <4>2. ledger[i - 1].value.sequence < ledger[i].value.sequence
        BY <2>1, <4>1 DEF LedgerOrdered
      <4>3. ledger[i - 1].value.sequence \in 1 .. Len(recorded)
        BY <2>1, <4>1 DEF LedgerOrdered
      <4>. QED  BY <2>2, <3>1, <4>2, <4>3
    <3>. QED  BY <3>2, <3>3
  <2>. QED  BY <2>1, <2>2, <2>4 DEF TypeOK, LedgerTyped
<1>2. SessionsInv => Registry!TypeOK
  <2>. SUFFICES ASSUME SessionsInv PROVE Registry!TypeOK
    OBVIOUS
  <2>1. SessionsTyped /\ RowsTogether
    BY DEF SessionsInv
  <2>2. ASSUME NEW s \in Sessions
        PROVE  /\ {beat[s], snapshot[s]} \subseteq Commits \cup {NoCommit}
               /\ entries[s] \in 0 .. MaxEntries
               /\ {beat[s] = NoCommit, snapshot[s] = NoCommit, entries[s] = 0}
                     = {session[s] = "absent"}
               /\ s \in artifacts => SlugOf[s] \in files
    <3>1. /\ beat[s] \in Commits \cup {NoCommit} /\ snapshot[s] \in Commits \cup {NoCommit}
          /\ entries[s] \in 0 .. MaxEntries
      BY <2>1 DEF SessionsTyped
    <3>2. /\ beat[s] = NoCommit <=> session[s] = "absent"
          /\ snapshot[s] = NoCommit <=> session[s] = "absent"
          /\ entries[s] = 0 <=> session[s] = "absent"
          /\ s \in artifacts => SlugOf[s] \in files
      BY <2>1 DEF RowsTogether
    <3>3. /\ (beat[s] = NoCommit) = (session[s] = "absent")
          /\ (snapshot[s] = NoCommit) = (session[s] = "absent")
          /\ (entries[s] = 0) = (session[s] = "absent")
      BY <3>2
    <3>4. {beat[s] = NoCommit, snapshot[s] = NoCommit, entries[s] = 0}
             = {session[s] = "absent"}
      BY <3>3, Zenon
    <3>. QED  BY <3>1, <3>2, <3>4
  <2>3. ASSUME NEW p \in Processes
        PROVE  /\ command[p].pc \in Registry!Steps /\ command[p].op \in Registry!Operations
               /\ command[p].pc \in {"stored", "write", "file", "record"} =>
                     command[p].todo # {}
    BY DEF SessionsInv, SessionsTyped, CommandRecord, CommandKnows
  <2>. QED  BY <2>1, <2>2, <2>3 DEF Registry!TypeOK, SessionsTyped, RowsTogether, Rows
<1>3. CommandsInv => CommandsTypeOK
  BY <1>1, <1>2 DEF CommandsInv, CommandsTypeOK
<1>. QED  BY <1>3, CommandsInvHolds, PTL

\* Altered or lost rows keep the ledger from verifying for good, rows lost from its
\* end excepted, and those are told by the root of an export from before.
THEOREM DamageIsDetected == CommandsSpec => []DamageIsNeverHidden
<1>1. ASSUME LedgerInv, Verified(ledger) PROVE truncated \/ Payloads(ledger) = recorded
  BY <1>1, VerifiedHoldsAll
<1>2. ASSUME LedgerInv, NEW path \in Outputs, exports[path] # <<>>,
             VerifyAuditChain(ledger, Root(exports[path]))
      PROVE  Payloads(ledger) = Payloads(exports[path])
  <2>1. IsLedger(ledger) /\ Exported(exports[path])
    BY <1>2 DEF LedgerInv, ExportsVerified
  <2>2. /\ IsLedger(exports[path]) /\ ChainVerifies(exports[path]) /\ ChainVerifies(ledger)
    BY <1>2, <2>1 DEF Exported, Verified, VerifyAuditChain
  <2>3. Root(exports[path]) # NoRoot
    <3>1. /\ Len(exports[path]) \in 1 .. Len(exports[path])
          /\ DOMAIN exports[path] = 1 .. Len(exports[path])
      BY <1>2, <2>2 DEF IsLedger
    <3>2. Root(exports[path]) = Digest(exports[path][Len(exports[path])].value)
      BY <1>2, <2>2, <3>1 DEF Root, ChainVerifies, Integrity
    <3>. QED  BY <3>2 DEF Digest, NoRoot
  <2>4. Root(ledger) = Root(exports[path])
    BY <1>2, <2>3 DEF VerifyAuditChain
  <2>5. ledger = exports[path]
    BY <1>2, <2>1, <2>2, <2>4, RootNamesTheLedger
  <2>. QED  BY <2>5
<1>3. CommandsInv => DamageIsNeverHidden
  BY <1>1, <1>2 DEF CommandsInv, DamageIsNeverHidden
<1>. QED  BY <1>3, CommandsInvHolds, PTL

\* However many processes append, migrate and export, an undamaged ledger verifies,
\* so that commands never lock one another out of it, and it begins with what was
\* exported.
THEOREM CommandsKeepTheLedgerVerified == CommandsSpec => []UndamagedLedgerVerifies
<1>1. ASSUME LedgerInv, UndamagedInv, damage = 0, NEW path \in Outputs
      PROVE  IsPrefix(exports[path], ledger)
  <2>. DEFINE rows == exports[path]
  <2>1. ledger \in Seq(Range(ledger)) /\ Len(ledger) \in Nat
    BY <1>1 DEF LedgerInv, IsLedger
  <2>2. CASE rows = <<>>
    <3>1. Len(<<>>) = 0 /\ SubSeq(<<>>, 1, 0) = <<>> /\ SubSeq(ledger, 1, 0) = <<>>
      BY <2>1
    <3>. QED  BY <2>1, <2>2, <3>1 DEF IsPrefix
  <2>3. CASE rows # <<>>
    <3>1. rows \in Seq(Range(rows)) /\ Begins(rows)
      BY <1>1, <2>3 DEF LedgerInv, ExportsVerified, Exported, IsLedger, UndamagedInv
    <3>. HIDE DEF rows
    <3>2. /\ Len(rows) \in Nat /\ Len(rows) <= Len(ledger)
          /\ \A i \in 1 .. Len(rows) : rows[i] = ledger[i]
      BY <3>1 DEF Begins
    <3>3. /\ SubSeq(rows, 1, Len(rows)) = [i \in 1 .. Len(rows) |-> rows[i]]
          /\ SubSeq(ledger, 1, Len(rows)) = [i \in 1 .. Len(rows) |-> ledger[i]]
      BY <2>1, <3>1, <3>2
    <3>4. IsPrefix(rows, ledger)
      BY <3>2, <3>3 DEF IsPrefix
    <3>. QED  BY <3>4 DEF rows
  <2>. QED  BY <2>2, <2>3
<1>2. CommandsInv => UndamagedLedgerVerifies
  BY <1>1 DEF CommandsInv, UndamagedLedgerVerifies, UndamagedInv
<1>. QED  BY <1>2, CommandsInvHolds, PTL

\* The schema version never decreases.
THEOREM SchemaIsMonotonic == CommandsSpec => SchemaNeverGoesBack
<1>1. LedgerInv /\ [CommandsNext]_commandsVars => [version' >= version]_vars
  <2>. SUFFICES ASSUME LedgerInv, CommandsNext, vars' # vars PROVE version' >= version
    BY DEF commandsVars
  <2>1. Next
    BY DEF CommandsNext
  <2>2. version \in Nat
    BY DEF LedgerInv, LedgerTyped, MIN_SUPPORTED, NEWER
  <2>3. ASSUME NEW p \in Processes, Migrate(p) PROVE version' >= version
    BY <2>2, <2>3 DEF Migrate, Supported, CURRENT, MIN_SUPPORTED
  <2>4. ASSUME UpgradeFurther PROVE version' >= version
    BY <2>2, <2>4 DEF UpgradeFurther, NEWER
  <2>. QED  BY <2>1, <2>2, <2>3, <2>4 DEF Next, StartMigration, OpenToWrite, AppendAuditEvent,
                ReadLedger, PublishExport, Abandon, AlterRow, LoseRow
<1>2. CommandsInv => LedgerInv
  BY DEF CommandsInv
<1>. QED  BY <1>1, <1>2, CommandsInvHolds, PTL DEF CommandsSpec, SchemaNeverGoesBack

\* An export is published once, and of a ledger that verified and held what was
\* recorded first, whatever became of the ledger after it was read.
THEOREM ExportsAreKept == CommandsSpec => ExportsStand
<1>1. LedgerInv /\ [CommandsNext]_commandsVars => [PublishesWhatVerified]_vars
  <2>. SUFFICES ASSUME LedgerInv, CommandsNext, vars' # vars,
                       NEW path \in Outputs, exports'[path] # exports[path]
                PROVE  /\ exports[path] = <<>>
                       /\ Verified(exports'[path])
                       /\ truncated \/ IsPrefix(Payloads(exports'[path]), recorded)
    BY DEF commandsVars, PublishesWhatVerified
  <2>1. Next
    BY DEF CommandsNext
  <2>2. PICK p \in Processes : PublishExport(p)
    BY <2>1 DEF Next, StartMigration, Migrate, OpenToWrite, AppendAuditEvent, ReadLedger,
                Abandon, UpgradeFurther, AlterRow, LoseRow
  <2>3. DOMAIN exports = Outputs
    BY DEF LedgerInv, LedgerTyped
  <2>4. exports[path] = <<>> /\ exports'[path] = process[p].content
    BY <2>2, <2>3 DEF PublishExport, OutputIsFree
  <2>. DEFINE rows == process[p].content
  <2>5. Exported(rows) /\ HoldsWhatWasRecorded(rows)
    BY <2>2 DEF LedgerInv, ExportsVerified, PublishExport
  <2>6. ASSUME ~truncated PROVE IsPrefix(Payloads(rows), recorded)
    <3>1. /\ Len(rows) \in Nat /\ DOMAIN rows = 1 .. Len(rows)
          /\ Len(rows) <= Len(recorded)
          /\ \A i \in 1 .. Len(rows) : rows[i].value.payload = i
      BY <2>5, <2>6 DEF Exported, IsLedger, HoldsWhatWasRecorded
    <3>2. /\ recorded \in Seq(Nat) /\ Len(recorded) \in Nat
          /\ \A i \in 1 .. Len(recorded) : recorded[i] = i
      BY DEF LedgerInv, LedgerTyped
    <3>. HIDE DEF rows
    <3>3. Payloads(rows) = [i \in 1 .. Len(rows) |-> i]
      BY <3>1 DEF Payloads
    <3>4. Payloads(rows) \in Seq(Nat) /\ Len(Payloads(rows)) = Len(rows)
      BY <3>1, <3>3
    <3>5. /\ SubSeq(Payloads(rows), 1, Len(rows)) = [i \in 1 .. Len(rows) |-> i]
          /\ SubSeq(recorded, 1, Len(rows)) = [i \in 1 .. Len(rows) |-> i]
      BY <3>1, <3>2, <3>3, <3>4
    <3>. QED  BY <3>1, <3>4, <3>5 DEF IsPrefix
  <2>. QED  BY <2>4, <2>5, <2>6 DEF Exported
<1>2. CommandsInv => LedgerInv
  BY DEF CommandsInv
<1>. QED  BY <1>1, <1>2, CommandsInvHolds, PTL DEF CommandsSpec, ExportsStand

\* However the queries of a read are interleaved with starts and completions, no
\* command finds the registry inconsistent with itself.
THEOREM NoTornRead == CommandsSpec => []ReadsAreNotTorn
<1>1. CommandsInv => ReadsAreNotTorn
  BY DEF CommandsInv, SessionsInv, CommandKnows, ReadsAreNotTorn, Registry!ReadsAreNotTorn
<1>. QED  BY <1>1, CommandsInvHolds, PTL

\* What a completed session has changes only through a command that began before,
\* or one asked to reconcile it.
THEOREM CompletedStays == CommandsSpec => CompletedIsLeftAlone
<1>1. SessionsInv /\ [CommandsNext]_commandsVars
        => [Registry!LeavesCompletedAlone]_(Registry!vars)
  <2>. SUFFICES ASSUME SessionsInv, CommandsNext, Registry!vars' # Registry!vars,
                       NEW s \in Registry!InState(session, "ended"),
                       <<beat[s], entries[s], snapshot[s]>>' # <<beat[s], entries[s], snapshot[s]>>
                PROVE  \E p \in Processes :
                          /\ command'[p] # command[p]
                          /\ s \in command[p].todo
                          /\ s \notin command[p].ended \/ command[p].op = "reconcile"
    BY DEF commandsVars, registryOnly, Registry!vars, Registry!LeavesCompletedAlone
  <2>1. Registry!Next
    BY DEF CommandsNext, registryOnly, Registry!vars
  <2>2. PICK p \in Processes :
          \/ Registry!StartTask(p) \/ Registry!Heartbeat(p) \/ Registry!CaptureEntry(p)
          \/ Registry!Reconcile(p) \/ Registry!StoreLiveSnapshot(p)
    BY <2>1 DEF Registry!Next, Registry!BeginTask, Registry!Begin, Registry!Resolve,
                Registry!RefuseCommand, Registry!ReportCorruption, Registry!ReadStoredSnapshot,
                Registry!Observe, Registry!WriteArtifactFile, Registry!RecordArtifact,
                Registry!Abandon, Registry!Complete
  <2>3. /\ command[p] \in CommandRecord /\ CommandKnows(command[p])
        /\ command \in [Processes -> CommandRecord]
        /\ beat \in [Sessions -> Commits \cup {NoCommit}]
        /\ snapshot \in [Sessions -> Commits \cup {NoCommit}]
        /\ entries \in [Sessions -> 0 .. MaxEntries]
        /\ s \in Sessions
    BY DEF SessionsInv, SessionsTyped, Registry!InState
  <2>4. command[p].pc = "write"
    BY <2>2 DEF Registry!StartTask, Registry!Heartbeat, Registry!CaptureEntry,
                Registry!Reconcile, Registry!StoreLiveSnapshot
  <2>5. command'[p] # command[p]
    <3>1. command'[p].pc \in {"idle", "observe", "file"}
      <4>1. CASE Registry!Finish(p)
        BY <2>3, <4>1 DEF Registry!Finish, Registry!Idle
      <4>2. CASE Registry!Reconcile(p) /\ ~Registry!Finish(p)
        BY <2>3, <4>2 DEF Registry!Reconcile, CommandRecord
      <4>3. CASE Registry!StoreLiveSnapshot(p)
        BY <2>3, <4>3 DEF Registry!StoreLiveSnapshot, Registry!Continue, CommandRecord
      <4>. QED  BY <2>2, <4>1, <4>2, <4>3
                DEF Registry!StartTask, Registry!Heartbeat, Registry!CaptureEntry
    <3>. QED  BY <2>4, <3>1
  <2>6. s \in command[p].todo
    <3>1. Registry!Target(p) \in command[p].todo
      BY <2>3, <2>4 DEF CommandKnows, Registry!Target
    <3>2. CASE \/ Registry!StartTask(p) \/ Registry!Heartbeat(p) \/ Registry!CaptureEntry(p)
               \/ Registry!StoreLiveSnapshot(p)
      <4>1. s = Registry!Target(p)
        BY <2>3, <3>2 DEF Registry!StartTask, Registry!Heartbeat, Registry!CaptureEntry,
                          Registry!StoreLiveSnapshot
      <4>. QED  BY <3>1, <4>1
    <3>3. CASE Registry!Reconcile(p)
      BY <2>3, <3>3 DEF Registry!Reconcile
    <3>. QED  BY <2>2, <3>2, <3>3
  <2>7. command[p].ended = {} \/ command[p].op = "reconcile"
    BY <2>3, <2>4 DEF CommandKnows
  <2>. QED  BY <2>5, <2>6, <2>7
<1>2. CommandsInv => SessionsInv
  BY DEF CommandsInv
<1>. QED  BY <1>1, <1>2, CommandsInvHolds, PTL
          DEF CommandsSpec, CompletedIsLeftAlone, Registry!CompletedIsLeftAlone
=============================================================================
