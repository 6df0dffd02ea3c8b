---------------------------- MODULE InstallTask ----------------------------
(***************************************************************************)
(* What the service relies on of an install task, and what the engine      *)
(* promises: a task works, commits once to its finalize step unless it was *)
(* cancelled by then, and after that it can only succeed or die with the   *)
(* process.  Engine.tla and, per call, Daemon.tla implement it.            *)
(***************************************************************************)
VARIABLES
    phase,      \* "idle", "working", "finishing"
    cancelled,  \* the token has been cancelled
    outcome     \* of the last task that ended: "none", "ok", "error"

taskVars == <<phase, cancelled, outcome>>

Init == phase = "idle" /\ cancelled = FALSE /\ outcome = "none"

\* The caller may have cancelled the token before the task is first polled.
Begin ==
    /\ phase = "idle" /\ phase' = "working"
    /\ cancelled' \in BOOLEAN /\ outcome' = "none"

\* A spec that is refused before any work.
Refuse ==
    /\ phase = "idle" /\ UNCHANGED phase
    /\ cancelled' \in BOOLEAN /\ outcome' = "error"

Cancel == cancelled' = TRUE /\ UNCHANGED <<phase, outcome>>

Commit ==
    /\ phase = "working" /\ ~cancelled /\ phase' = "finishing"
    /\ UNCHANGED <<cancelled, outcome>>

Fail ==
    /\ phase = "working" /\ phase' = "idle"
    /\ outcome' = "error" /\ UNCHANGED cancelled

Succeed ==
    /\ phase = "finishing" /\ phase' = "idle"
    /\ outcome' = "ok" /\ UNCHANGED cancelled

\* The task panics or its process dies.
Die ==
    /\ phase # "idle" /\ phase' = "idle"
    /\ outcome' = "none" /\ UNCHANGED cancelled

Next == Begin \/ Refuse \/ Cancel \/ Commit \/ Fail \/ Succeed \/ Die

Spec == Init /\ [][Next]_taskVars

=============================================================================
