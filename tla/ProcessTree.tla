----------------------------- MODULE ProcessTree -----------------------------
(***************************************************************************)
(* A command and what it starts, as the operating system shows them to the *)
(* process adapters: one leader, and a descendant that stands for all the  *)
(* others.  External: modelled from how gate-runner.ts and gaap-runner.ts  *)
(* use child_process and process groups.                                   *)
(***************************************************************************)
EXTENDS Naturals

VARIABLES
    alive,      \* members that run
    traits,     \* what this command's members do, see Traits
    immune,     \* kill(2) fails while a member of the group runs
    code        \* how the leader ended

tree == <<alive, traits, immune, code>>

Members == {"leader", "descendant"}
ExitCodes == {"none", "zero", "nonzero", "signal"}

\* Members that survive SIGTERM, that keep the leader's output pipes open, and
\* that have left the process group.
Traits == [stubborn : SUBSET Members, holding : SUBSET {"descendant"},
           outside : SUBSET {"descendant"}]

NoTraits == [stubborn |-> {}, holding |-> {}, outside |-> {}]

NoTree ==
    /\ alive = {}
    /\ traits = NoTraits
    /\ immune = FALSE
    /\ code = "none"

Group == alive \ traits.outside
PipesOpen == alive \cap traits.holding # {}

ForgetTree ==
    /\ alive' = {}
    /\ traits' = NoTraits
    /\ immune' = FALSE
    /\ code' = "none"

\* spawn, detached: the command is the leader of a group of its own.
Spawn ==
    /\ alive' \in {{"leader"}, Members}
    /\ traits' \in [stubborn : SUBSET alive', holding : SUBSET (alive' \ {"leader"}),
                   outside : SUBSET (alive' \ {"leader"})]
    /\ immune' \in BOOLEAN
    /\ code' = "none"

\* The executable cannot be started.
SpawnNothing == ForgetTree

\* ESRCH, the group has gone, is a success.
SignalSucceeds == ~immune \/ Group = {}

Survivors(signal) ==
    IF immune THEN alive
    ELSE alive \ (IF signal = "SIGKILL" THEN Group ELSE Group \ traits.stubborn)

Signal(signal) ==
    /\ alive' = Survivors(signal)
    /\ code' = IF "leader" \in alive \ Survivors(signal) THEN "signal" ELSE code
    /\ UNCHANGED <<traits, immune>>

\* A member ends of its own accord, or because of a SIGTERM it has handled.
Exit(member) ==
    /\ member \in alive
    /\ alive' = alive \ {member}
    /\ IF member = "leader" THEN code' \in {"zero", "nonzero"} ELSE UNCHANGED code
    /\ UNCHANGED <<traits, immune>>

\* EPERM was transient, as it is on macOS while a leader exits.
Settle ==
    /\ immune
    /\ immune' = FALSE
    /\ UNCHANGED <<alive, traits, code>>
=============================================================================
