----------------------------- MODULE GaapProcess -----------------------------
(***************************************************************************)
(* The callbacks of runGaapProcess (src/src/adapters/process/gaap-         *)
(* runner.ts): a request is written to an executor process, which is       *)
(* stopped on every way out, and the promise resolves once.                *)
(*                                                                         *)
(* A timer may expire as soon as it is set: nothing here depends on how    *)
(* long one takes.  The bytes of the output are left out.                  *)
(***************************************************************************)
EXTENDS ProcessTree

VARIABLE runner     \* the closure's variables

vars == <<tree, runner>>

Unset == [pc |-> "idle", status |-> "ok", delivered |-> FALSE, exited |-> FALSE,
          uncleaned |-> FALSE, force |-> "unset", drain |-> FALSE]

Init ==
    /\ NoTree
    /\ runner = Unset

Waiting == runner.pc = "waiting"

\* finish: an error of the cleanup hides every other outcome.
FinalStatus(r, exit) ==
    IF r.uncleaned THEN "cleanup_failed"
    ELSE IF r.status = "ok" /\ ~r.delivered THEN "input_failed"
    ELSE IF r.status = "ok" /\ exit # "zero" THEN "exit_failed"
    ELSE r.status

Finished(r) == [r EXCEPT !.pc = "finished", !.status = FinalStatus(r, code)]
-----------------------------------------------------------------------------
\* Authority cancelled, or the deadline passed, before there is a process; or
\* spawn throws.
RefuseLaunch ==
    /\ runner.pc = "idle"
    /\ \E status \in {"cancelled", "timeout", "spawn_failed"} :
          runner' = [runner EXCEPT !.pc = "finished", !.status = status]
    /\ UNCHANGED tree

Launch ==
    /\ runner.pc = "idle"
    /\ Spawn \/ SpawnNothing
    /\ runner' = [runner EXCEPT !.pc = "waiting"]

Deliver ==
    /\ Waiting
    /\ alive # {} \/ code # "none"
    /\ ~runner.delivered
    /\ runner' = [runner EXCEPT !.delivered = TRUE]
    /\ UNCHANGED tree

\* Slip: nothing bounds the drain.
WithoutDrain(r) == r

WithDrain(r) == [r EXCEPT !.drain = TRUE]

\* terminate: the first reason stays.
Terminate(reason) ==
    /\ Waiting
    /\ Signal("SIGTERM")
    /\ runner' = WithDrain([runner EXCEPT
           !.status = IF @ = "ok" THEN reason ELSE @,
           !.uncleaned = @ \/ ~SignalSucceeds,
           !.force = IF @ = "unset" THEN "set" ELSE @])

Timeout == Terminate("timeout")

\* Authority is cancelled, too much output arrives, a stream fails.
Interrupt == \E reason \in {"cancelled", "output_limit", "io_failed", "input_failed"} :
    Terminate(reason)

\* forceTimer.
ForceStop ==
    /\ Waiting
    /\ runner.force = "set"
    /\ Signal("SIGKILL")
    /\ runner' = [runner EXCEPT !.force = "fired", !.uncleaned = @ \/ ~SignalSucceeds]

\* The error event: there is no process, and no exit event.
OnError ==
    /\ Waiting
    /\ alive = {} /\ code = "none"
    /\ ~runner.exited
    /\ runner' = WithDrain([runner EXCEPT
           !.exited = TRUE, !.status = IF @ = "ok" THEN "spawn_failed" ELSE @])
    /\ UNCHANGED tree

\* Slip: the exit of the leader ends the cleanup.
StopNothing == UNCHANGED tree

StopDescendants == Signal("SIGKILL")

\* The exit event: what the leader has left behind is stopped.  If that
\* succeeds, errors of earlier signals are forgotten.
OnExit ==
    /\ Waiting
    /\ "leader" \notin alive
    /\ code # "none"
    /\ ~runner.exited
    /\ StopDescendants
    /\ runner' = WithDrain([runner EXCEPT !.exited = TRUE, !.uncleaned = ~SignalSucceeds])

\* The close event: the process has ended and its pipes are closed.
OnClose ==
    /\ Waiting
    /\ runner.exited
    /\ ~PipesOpen
    /\ runner' = Finished(runner)
    /\ UNCHANGED tree

\* drainTimer: the caller is answered whatever still runs.
Drain ==
    /\ Waiting
    /\ runner.drain
    /\ Signal("SIGKILL")
    /\ runner' = [Finished(runner) EXCEPT !.status = "cleanup_failed"]

World ==
    /\ runner.pc # "idle"
    /\ (\E member \in Members : Exit(member)) \/ Settle
    /\ UNCHANGED runner

Next ==
    \/ RefuseLaunch
    \/ Launch
    \/ Deliver
    \/ Timeout
    \/ Interrupt
    \/ ForceStop
    \/ OnError
    \/ OnExit
    \/ OnClose
    \/ Drain
    \/ World

Spec == Init /\ [][Next]_vars
-----------------------------------------------------------------------------
Statuses == {"ok", "timeout", "cancelled", "exit_failed", "spawn_failed", "input_failed",
             "output_limit", "io_failed", "cleanup_failed"}

TypeOK ==
    /\ alive \subseteq Members
    /\ traits \in Traits
    /\ immune \in BOOLEAN
    /\ code \in ExitCodes
    /\ runner \in [pc : {"idle", "waiting", "finished"}, status : Statuses,
                   delivered : BOOLEAN, exited : BOOLEAN, uncleaned : BOOLEAN,
                   force : {"unset", "set", "fired"}, drain : BOOLEAN]

\* A command that is reported as anything but cleanup_failed has left nothing
\* running in its group, however its members end, ignore signals or keep the
\* pipes open.
StoppedUnlessReported ==
    runner.pc = "finished" /\ runner.status # "cleanup_failed" => Group = {}
=============================================================================
