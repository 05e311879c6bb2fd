----------------------------- MODULE ReviewIntake -----------------------------
(***************************************************************************)
(* Signed packages on their way into a session: SignedImport, whose        *)
(* packages are given, and the same import fed by the review sensor, whose *)
(* reports name what GitHub said.  The two are behaviours of their own:    *)
(* concurrent importers and faults in the one, concurrent observation in   *)
(* the other.                                                              *)
(***************************************************************************)
EXTENDS SignedImport, ReviewSensor

VARIABLE origin     \* where the packages of this behaviour come from

\* The sensor numbers its receipts by the run of the job.
Receipt(c) == [kind |-> "review", id |-> c, pr |-> 1, observed |-> collector[c].observed, body |-> 1]

\* What there is to import.
Available ==
    IF origin = "sensor"
    THEN {Receipt(c) : c \in {d \in Collectors : collector[d].pc = "signed"}}
    ELSE {package \in Packages : package.id \notin Collectors}

IntakeInit ==
    /\ origin \in {"given", "sensor"}
    /\ Init
    /\ SensorInit
    /\ origin = "sensor" => faults = {} /\ session.status = "reviewing"
    /\ origin = "given" => past[1] = Untouched

\* The steps of an import.  Reports are imported one after another, into a session
\* that stays where it is.
ImportStep ==
    /\ Next
    /\ \A p \in Importers : importer'[p].pc = "append" => importer'[p].package \in Available
    /\ origin = "sensor" =>
          /\ session' = session
          /\ \A p, q \in Importers : importer'[p].pc # "idle" /\ importer'[q].pc # "idle" => p = q
    /\ UNCHANGED <<origin, sensorVars>>

SensorStep ==
    /\ origin = "sensor"
    /\ SensorNext
    /\ UNCHANGED <<origin, vars>>

IntakeNext == ImportStep \/ SensorStep

intakeVars == <<origin, vars, sensorVars>>

Intake == IntakeInit /\ [][IntakeNext]_intakeVars
-----------------------------------------------------------------------------
\* The newest snapshot imported hides no blocker: a thread that an earlier row
\* shows as blocking and a later one does not was settled between the beginning of
\* the first collection and the end of the last.  docs/attestations/review-v1.md:133-135,
\* "a previously signed approval cannot be imported after a newer blocking review to
\* hide it"; the rows are ordered by the observed_at at which collection began.
NoBlockerIsHidden ==
    origin = "sensor" =>
        \A i, j \in DOMAIN rows : i < j =>
            \A thread \in collector[rows[i].id].blocking \ collector[rows[j].id].blocking :
                \E k \in During(rows[i].id) \cup During(rows[j].id) :
                    Settled(thread, k)
=============================================================================
