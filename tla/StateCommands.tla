----------------------------- MODULE StateCommands -----------------------------
(***************************************************************************)
(* The two sides of the state database, each in a behaviour of its own:    *)
(* its schema and audit ledger (StateDatabase), and the sessions that      *)
(* commands start, refresh and describe in it (SessionRegistry).           *)
(***************************************************************************)
EXTENDS StateDatabase

CONSTANTS Sessions, SlugOf, Commits, NoCommit, MaxEntries   \* see SessionRegistry

ASSUME RegistryAssumption ==
    /\ MaxEntries \in Nat \ {0}
    /\ SlugOf \in [Sessions -> STRING]
    /\ NoCommit \notin Commits

VARIABLES
    side,                                                   \* which of them runs
    session, active, beat, snapshot, entries, files,        \* SessionRegistry
    artifacts, command

Registry == INSTANCE SessionRegistry

registryOnly == <<session, active, beat, snapshot, entries, files, artifacts, command>>
commandsVars == <<side, vars, registryOnly>>

CommandsInit ==
    /\ side \in {"ledger", "sessions"}
    /\ Init
    /\ Registry!Init
    /\ side = "sessions" => version = CURRENT
    /\ side = "ledger" => session = [s \in Sessions |-> "absent"]

CommandsNext ==
    \/ side = "ledger" /\ Next /\ UNCHANGED <<side, registryOnly>>
    \/ side = "sessions" /\ Registry!Next /\ UNCHANGED <<side, vars>>

CommandsSpec == CommandsInit /\ [][CommandsNext]_commandsVars
-----------------------------------------------------------------------------
\* Each side keeps its variables in shape.
CommandsTypeOK == IF side = "ledger" THEN TypeOK ELSE Registry!TypeOK

\* See SessionRegistry.
ReadsAreNotTorn == Registry!ReadsAreNotTorn

\* See SessionRegistry.
CompletedIsLeftAlone == Registry!CompletedIsLeftAlone
=============================================================================
