--------------------------- MODULE ProcessAdapters ---------------------------
(***************************************************************************)
(* The two adapters that run commands, each over a process tree of its     *)
(* own: the gate of a session, and the process of the GAAP executor.       *)
(***************************************************************************)
EXTENDS Naturals, Sequences

CONSTANTS SetupSteps, MaxChanges, NoObservation     \* see GateRun

ASSUME AdaptersAssumption == SetupSteps \in Nat /\ MaxChanges \in Nat

VARIABLES
    adapter,                                                    \* which of them runs
    alive, traits, immune, code,                                \* ProcessTree
    repository, changes, verifying, command, run, receipt,      \* GateRun
    witnessed, codes,
    runner                                                      \* GaapProcess

Gate == INSTANCE GateRun
Gaap == INSTANCE GaapProcess

gateOnly == <<repository, changes, verifying, command, run, receipt, witnessed, codes>>
vars == <<adapter, alive, traits, immune, code, gateOnly, runner>>

Init ==
    /\ adapter \in {"gate", "gaap"}
    /\ Gate!Init
    /\ Gaap!Init
    /\ adapter = "gaap" => repository = [head |-> 1, clean |-> TRUE, onBranch |-> TRUE]

Next ==
    \/ adapter = "gate" /\ Gate!Next /\ UNCHANGED <<adapter, runner>>
    \/ adapter = "gaap" /\ Gaap!Next /\ UNCHANGED <<adapter, gateOnly>>

Spec == Init /\ [][Next]_vars

\* A timer that is set expires, an event that has happened is delivered, and a
\* promise that has resolved continues.  Nothing is asked of the commands.
GateScheduling ==
    \/ Gate!Preflight \/ Gate!RefuseGate \/ Gate!StartCommand
    \/ Gate!OnError \/ Gate!OnClose
    \/ Gate!ObserveSetup \/ Gate!ObserveGate \/ Gate!Conclude \/ Gate!Record

OfGate(A) == adapter = "gate" /\ A /\ UNCHANGED <<adapter, runner>>
OfGaap(A) == adapter = "gaap" /\ A /\ UNCHANGED <<adapter, gateOnly>>

FairSpec ==
    /\ Spec
    /\ WF_vars(OfGate(GateScheduling))
    /\ WF_vars(OfGate(Gate!Timeout))
    /\ WF_vars(OfGate(Gate!ForceStop))
    /\ WF_vars(OfGaap(Gaap!RefuseLaunch \/ Gaap!Launch))
    /\ WF_vars(OfGaap(Gaap!OnError \/ Gaap!OnExit \/ Gaap!OnClose))
    /\ WF_vars(OfGaap(Gaap!Timeout))
    /\ WF_vars(OfGaap(Gaap!Drain))
-----------------------------------------------------------------------------
\* Each adapter keeps its variables in shape.
TypeOK == IF adapter = "gate" THEN Gate!TypeOK ELSE Gaap!TypeOK

\* See GateRun.
PassedReceiptDescribesOneHead == Gate!PassedReceiptDescribesOneHead

\* See GateRun.
ReceiptsAreAccepted == Gate!ReceiptsAreAccepted

\* See GateRun.
TimeoutStopsEverything == Gate!TimeoutStopsEverything

\* See GaapProcess.
StoppedUnlessReported == Gaap!StoppedUnlessReported

\* The executor process is always answered for, whatever it ignores, keeps open
\* or cannot be sent; a gate run ends if its commands can be signalled and stay
\* in their group.
CommandsEnd ==
    /\ adapter = "gaap" => <>(runner.pc = "finished")
    /\ adapter = "gate" /\ [](~immune /\ traits.outside = {}) => <>(run.pc = "done")
=============================================================================
