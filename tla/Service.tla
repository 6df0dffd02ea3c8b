------------------------------ MODULE Service ------------------------------
(***************************************************************************)
(* What a client relies on of the D-Bus service: installs do not overlap,  *)
(* an accepted one announces its steps, can be cancelled until it commits, *)
(* and is answered when it has ended.  Daemon.tla implements it and        *)
(* Session.tla is a client of it.                                          *)
(***************************************************************************)
EXTENDS Naturals

CONSTANTS
    Calls,  \* InstallJson calls
    NoCall,
    NSteps  \* bound: steps an install announces

VARIABLES
    serving,   \* the call whose install is running, or NoCall
    stage,     \* how far it is
    cancelled, \* its token has been cancelled
    step,      \* the last step announced
    answer     \* what each call has been told

serviceVars == <<serving, stage, cancelled, step, answer>>

Answers == {"ok", "error"}
Stages == {"idle", "working", "committed", "failed", "succeeded", "panicked"}

Init ==
    /\ serving = NoCall /\ stage = "idle" /\ cancelled = FALSE /\ step = 0
    /\ answer = [c \in Calls |-> "none"]

Accept(c) ==
    /\ answer[c] = "none" /\ serving = NoCall
    /\ serving' = c /\ stage' = "working" /\ cancelled' = FALSE /\ step' = 0
    /\ answer' = [answer EXCEPT ![c] = "pending"]

\* Bad arguments, or an overlapping install.
Reject(c) ==
    /\ answer[c] = "none"
    /\ answer' = [answer EXCEPT ![c] = "error"]
    /\ UNCHANGED <<serving, stage, cancelled, step>>

\* A StepChanged signal.
Announce ==
    /\ serving # NoCall /\ step < NSteps
    /\ step' = step + 1
    /\ UNCHANGED <<serving, stage, cancelled, answer>>

\* Cancel(): without an install to cancel it does nothing.
Cancel ==
    /\ serving # NoCall
    /\ cancelled' = TRUE
    /\ UNCHANGED <<serving, stage, step, answer>>

GoTo(from, to) ==
    /\ stage \in from
    /\ stage' = to
    /\ UNCHANGED <<serving, cancelled, step, answer>>

Commit == ~cancelled /\ GoTo({"working"}, "committed")
Fail == GoTo({"working"}, "failed")
Succeed == GoTo({"committed"}, "succeeded")
Panic == GoTo({"working", "committed"}, "panicked")

\* The service is free again before the caller is told.
Finish ==
    /\ stage \in {"failed", "succeeded"}
    /\ serving' = NoCall /\ stage' = "idle" /\ cancelled' = FALSE
    /\ answer' = [answer EXCEPT ![serving] =
                    IF stage = "succeeded" THEN "succeeding" ELSE "failing"]
    /\ UNCHANGED step

\* The reply.  A panicked install is answered, and never leaves the service.
Reply(c) ==
    /\ \/ answer[c] = "succeeding" /\ answer' = [answer EXCEPT ![c] = "ok"]
       \/ answer[c] = "failing" /\ answer' = [answer EXCEPT ![c] = "error"]
       \/ /\ answer[c] = "pending" /\ serving = c /\ stage = "panicked"
          /\ answer' = [answer EXCEPT ![c] = "error"]
    /\ UNCHANGED <<serving, stage, cancelled, step>>

Unanswered == {"pending", "succeeding", "failing"}

\* The process dies; the next one starts afresh.
Die ==
    /\ serving' = NoCall /\ stage' = "idle" /\ cancelled' = FALSE /\ step' = 0
    /\ answer' = [c \in Calls |-> IF answer[c] \in Unanswered THEN "error"
                                  ELSE answer[c]]

Work == Commit \/ Fail \/ Succeed \/ Panic \/ Finish \/ \E c \in Calls : Reply(c)

Next ==
    \/ \E c \in Calls : Accept(c) \/ Reject(c)
    \/ Announce \/ Cancel \/ Work \/ Die

Spec == Init /\ [][Next]_serviceVars

=============================================================================
