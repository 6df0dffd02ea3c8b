------------------------------ MODULE Session ------------------------------
(***************************************************************************)
(* The GUI's install sessions: app.rs from StartInstall to the reboot, and *)
(* the tasks daemon.rs spawns for each session, over the Service the       *)
(* daemon implements, which other clients use too.                         *)
(*                                                                         *)
(* Each session has a driver (connect, subscribe, InstallJson, Completed), *)
(* a task waiting to forward Cancel(), one task per signal stream, and a   *)
(* channel of events to update().  All of them run concurrently; channels  *)
(* of different sessions are merged in any order.  LogLine and Progress are *)
(* left out: each has a stream, and a task, like StepChanged.              *)
(***************************************************************************)
EXTENDS Integers, Sequences

CONSTANTS
    MaxSessions,     \* bound: StartInstall and Retry
    Others,          \* InstallJson calls of other clients
    NoCall,
    NSteps,          \* steps an install announces, in order
    PointOfNoReturn, \* the first of them ("bootc") that takes the Cancel button away
    Countdown,       \* REBOOT_COUNTDOWN_SECS
    MaxEvents        \* bound: signals, clicks on Cancel, calls of other clients, deaths

Sessions == 1..MaxSessions
Calls == Sessions \cup Others

ASSUME SessionAssumption ==
    /\ MaxSessions \in Nat \ {0} /\ NSteps \in Nat /\ Countdown \in Nat \ {0}
    /\ PointOfNoReturn \in Nat /\ MaxEvents \in Nat
    /\ NoCall \notin Calls /\ Others \cap Sessions = {}

VARIABLES serving, stage, cancelled, step, answer

VARIABLES
    page,       \* "confirm", "progress", "done"; "gone" after Quit
    session,    \* the last session started
    inFlight,   \* install_in_flight
    cancelTx,   \* cancel_tx: not taken yet
    shown,      \* install_step, 0 while None
    success,    \* install_success
    countdown,  \* reboot_countdown, -1 while None
    tick,       \* a RebootTick is due
    reboots     \* reboots asked for

VARIABLES
    driver,     \* each session's driver task
    canceller,  \* its cancel forwarder
    clicked,    \* whether a session's cancel_tx has been used, and when
    stepQ,      \* StepChanged signals received, not yet forwarded
    chan,       \* events sent to update()
    events      \* counter of its bound

service == <<serving, stage, cancelled, step, answer>>
gui == <<page, session, inFlight, cancelTx, shown, success,
         countdown, tick, reboots>>
queues == <<stepQ, chan>>
tasks == <<driver, canceller, clicked, queues>>
vars == <<service, gui, tasks, events>>

Service == INSTANCE Service

\* A step, or Completed or ConnectionError with n = 1 for success.
Events == [kind : {"step"}, n : 1..NSteps] \cup [kind : {"end"}, n : {0, 1}]
Event(kind, n) == [kind |-> kind, n |-> n]

-----------------------------------------------------------------------------
Happens == events < MaxEvents /\ events' = events + 1

Each(v) == [i \in Sessions |-> v]

Init ==
    /\ Service!Init /\ events = 0
    /\ page = "confirm" /\ session = 0 /\ inFlight = FALSE /\ cancelTx = FALSE
    /\ shown = 0 /\ success = FALSE
    /\ countdown = -1 /\ tick = FALSE /\ reboots = 0
    /\ driver = Each("none") /\ canceller = Each("none") /\ clicked = Each("no")
    /\ stepQ = Each(<<>>) /\ chan = Each(<<>>)

-----------------------------------------------------------------------------
(* The user.                                                               *)

\* start_install.  The last session's cancel_tx is dropped.
StartInstall ==
    /\ session < MaxSessions
    /\ session' = session + 1
    /\ page' = "progress" /\ inFlight' = TRUE /\ cancelTx' = TRUE
    /\ shown' = 0
    /\ driver' = [driver EXCEPT ![session'] = "connecting"]
    /\ UNCHANGED <<service, success, countdown, tick, reboots, canceller, clicked,
                   queues, events>>

FirstInstall == page = "confirm" /\ StartInstall

\* mutant: Retry is offered while the install is still running
RetryWhileRunning == page \in {"progress", "done"} /\ StartInstall

RetryInstall == page = "done" /\ ~success /\ StartInstall

\* cancellable_now, and install_in_flight.
CancelActive ==
    /\ page = "progress" /\ inFlight
    /\ shown < PointOfNoReturn

CancelInstall ==
    /\ Happens
    /\ CancelActive /\ cancelTx
    /\ cancelTx' = FALSE
    /\ clicked' = [clicked EXCEPT ![session] =
                      IF serving = session THEN "running" ELSE "early"]
    /\ UNCHANGED <<service, page, session, inFlight, shown, success,
                   countdown, tick, reboots, driver, canceller, queues>>

Reboot == reboots' = reboots + 1

RebootNow ==
    /\ page = "done" /\ success /\ reboots = 0
    /\ countdown' = 0 /\ Reboot
    /\ UNCHANGED <<service, page, session, inFlight, cancelTx, shown,
                   success, tick, tasks, events>>

\* mutant: the timer is not started again
RebootTickOnce ==
    /\ tick /\ page # "gone"
    /\ tick' = FALSE
    /\ IF countdown <= 1 THEN countdown' = 0 /\ Reboot
       ELSE countdown' = countdown - 1 /\ UNCHANGED reboots
    /\ UNCHANGED <<service, page, session, inFlight, cancelTx, shown,
                   success, tasks, events>>

\* mutant: the countdown runs on
RebootTickUnbounded ==
    /\ tick /\ page # "gone"
    /\ countdown' = countdown - 1 /\ UNCHANGED <<tick, reboots>>
    /\ UNCHANGED <<service, page, session, inFlight, cancelTx, shown,
                   success, tasks, events>>

\* A task of its own: it runs whatever page is shown.
RebootTick ==
    /\ tick /\ page # "gone"
    /\ IF countdown <= 1
       THEN countdown' = 0 /\ tick' = FALSE /\ Reboot
       ELSE countdown' = countdown - 1 /\ UNCHANGED <<tick, reboots>>
    /\ UNCHANGED <<service, page, session, inFlight, cancelTx, shown,
                   success, tasks, events>>

\* process::exit: the tasks and their channels are gone with the process.
Quit ==
    /\ page = "done"
    /\ page' = "gone" /\ shown' = 0 /\ cancelTx' = FALSE /\ tick' = FALSE
    /\ driver' = Each("none") /\ canceller' = Each("none") /\ clicked' = Each("no")
    /\ stepQ' = Each(<<>>) /\ chan' = Each(<<>>)
    /\ UNCHANGED <<service, session, inFlight, success,
                   countdown, reboots, events>>

-----------------------------------------------------------------------------
(* update() on a DaemonEvent.                                              *)

\* mutant: a failure leaves the progress page's state as it was
EndKeepingFlight(ok) ==
    /\ success' = ok /\ page' = "done"
    /\ IF ok THEN countdown' = Countdown /\ tick' = TRUE
             ELSE UNCHANGED <<countdown, tick>>
    /\ UNCHANGED <<inFlight, shown>>

\* Completed, and ConnectionError, which is a failure.
End(ok) ==
    /\ inFlight' = FALSE /\ success' = ok /\ page' = "done"
    /\ IF ok THEN countdown' = Countdown /\ tick' = TRUE
             ELSE UNCHANGED <<countdown, tick>>
    /\ UNCHANGED shown

Show(n) ==
    /\ shown' = n
    /\ UNCHANGED <<page, inFlight, success, countdown, tick>>

Update(i) ==
    /\ page # "gone" /\ chan[i] # <<>>
    /\ LET e == Head(chan[i]) IN
       IF e.kind = "end" THEN End(e.n = 1) ELSE Show(e.n)
    /\ chan' = [chan EXCEPT ![i] = Tail(@)]
    /\ UNCHANGED <<service, session, cancelTx, reboots, driver, canceller, clicked,
                   stepQ, events>>

-----------------------------------------------------------------------------
(* The tasks of session i.                                                 *)

Running == page # "gone"

Send(i, e) == chan' = [chan EXCEPT ![i] = Append(@, e)]

\* Bus, proxy or a subscription fails: no call is made.
ConnectFails(i) ==
    /\ Running /\ driver[i] = "connecting"
    /\ driver' = [driver EXCEPT ![i] = "over"]
    /\ Send(i, Event("end", 0))
    /\ UNCHANGED <<service, gui, canceller, clicked, stepQ, events>>

\* Subscribed to every signal; the cancel forwarder and the call are spawned.
Connects(i) ==
    /\ Running /\ driver[i] = "connecting"
    /\ driver' = [driver EXCEPT ![i] = "calling"]
    /\ canceller' = [canceller EXCEPT ![i] = "waiting"]
    /\ UNCHANGED <<service, gui, clicked, queues, events>>

\* InstallJson arrives at the service.
Call(i) ==
    /\ Running /\ driver[i] = "calling"
    /\ Service!Accept(i) \/ Service!Reject(i)
    /\ driver' = [driver EXCEPT ![i] = "awaiting"]
    /\ UNCHANGED <<gui, canceller, clicked, queues, events>>

\* mutant: the forwarder ends without the call when the session has been waited for
CancelFiresDropped(i) ==
    /\ Running /\ canceller[i] = "waiting"
    /\ clicked[i] # "no" \/ session > i
    /\ canceller' = [canceller EXCEPT ![i] = "over"]
    /\ UNCHANGED <<service, gui, driver, clicked, queues, events>>

\* The oneshot resolves with the click, or because cancel_tx was dropped.
CancelFires(i) ==
    /\ Running /\ canceller[i] = "waiting"
    /\ \/ clicked[i] # "no" /\ canceller' = [canceller EXCEPT ![i] = "calling"]
       \/ /\ clicked[i] = "no" /\ session > i
          /\ canceller' = [canceller EXCEPT ![i] = "over"]
    /\ UNCHANGED <<service, gui, driver, clicked, queues, events>>

\* Cancel() arrives.  Whether it found anything to cancel is ignored.
CancelArrives(i) ==
    /\ Running /\ canceller[i] = "calling"
    /\ Service!Cancel \/ (serving = NoCall /\ UNCHANGED service)
    /\ canceller' = [canceller EXCEPT ![i] = "over"]
    /\ UNCHANGED <<gui, driver, clicked, queues, events>>

\* The streams are open until the forwarders are aborted.
Listening(i) == driver[i] \in {"calling", "awaiting", "closing"}

ForwardStep(i) ==
    /\ Running /\ stepQ[i] # <<>>
    /\ Send(i, Event("step", Head(stepQ[i])))
    /\ stepQ' = [stepQ EXCEPT ![i] = Tail(@)]
    /\ UNCHANGED <<service, gui, driver, canceller, clicked, events>>

\* mutant: Completed is taken from the service's signal, whoever it is for
AnsweredByAnyone(i) ==
    /\ Running /\ driver[i] = "awaiting"
    /\ \E c \in Calls :
          /\ answer[c] \in Service!Answers
          /\ Send(i, Event("end", IF answer[c] = "ok" THEN 1 ELSE 0))
    /\ driver' = [driver EXCEPT ![i] = "closing"]
    /\ UNCHANGED <<service, gui, canceller, clicked, stepQ, events>>

\* The reply becomes a Completed of the session's own, ...
Answered(i) ==
    /\ Running /\ driver[i] = "awaiting" /\ answer[i] \in Service!Answers
    /\ Send(i, Event("end", IF answer[i] = "ok" THEN 1 ELSE 0))
    /\ driver' = [driver EXCEPT ![i] = "closing"]
    /\ UNCHANGED <<service, gui, canceller, clicked, stepQ, events>>

\* ... and what has not been forwarded by then is dropped.
Closes(i) ==
    /\ Running /\ driver[i] = "closing"
    /\ driver' = [driver EXCEPT ![i] = "over"]
    /\ stepQ' = [stepQ EXCEPT ![i] = <<>>]
    /\ UNCHANGED <<service, gui, canceller, clicked, chan, events>>

-----------------------------------------------------------------------------
(* The service, and its other clients.                                     *)

\* A StepChanged signal, to everybody who listens.
Announces ==
    /\ Happens
    /\ Service!Announce
    /\ stepQ' = [i \in Sessions |-> IF Listening(i) THEN Append(stepQ[i], step')
                                    ELSE stepQ[i]]
    /\ UNCHANGED <<gui, driver, canceller, clicked, chan>>

Works == Service!Work /\ UNCHANGED <<gui, tasks, events>>

Dies ==
    /\ Happens
    /\ Service!Die
    /\ UNCHANGED <<gui, tasks>>

OtherClient ==
    /\ Happens
    /\ \E c \in Others : Service!Accept(c)
    /\ UNCHANGED <<gui, tasks>>

-----------------------------------------------------------------------------
Driver(i) == ConnectFails(i) \/ Connects(i) \/ Call(i) \/ Answered(i) \/ Closes(i)
Canceller(i) == CancelFires(i) \/ CancelArrives(i)

User == FirstInstall \/ RetryInstall \/ CancelInstall \/ RebootNow \/ Quit

Next ==
    \/ User \/ RebootTick
    \/ \E i \in Sessions : Update(i) \/ Driver(i) \/ Canceller(i) \/ ForwardStep(i)
    \/ Announces \/ Works \/ Dies \/ OtherClient

Spec == Init /\ [][Next]_vars

\* As long as a task can run, an event is waiting for update(), a timer is due or
\* the service owes an answer (EveryCallAnswered in Daemon.tla), one of them happens.
FairSpec == Spec /\ WF_vars((\E i \in Sessions : Update(i) \/ Driver(i)) \/ RebootTick \/ Works)

-----------------------------------------------------------------------------
(* Properties.                                                             *)

TypeOK ==
    /\ serving \in Calls \cup {NoCall} /\ stage \in Service!Stages
    /\ cancelled \in BOOLEAN /\ step \in 0..NSteps
    /\ answer \in [Calls -> {"none"} \cup Service!Unanswered \cup Service!Answers]
    /\ page \in {"confirm", "progress", "done", "gone"}
    /\ session \in 0..MaxSessions
    /\ inFlight \in BOOLEAN /\ cancelTx \in BOOLEAN /\ success \in BOOLEAN
    /\ shown \in 0..NSteps
    /\ countdown \in -1..Countdown /\ tick \in BOOLEAN /\ reboots \in Nat
    /\ driver \in [Sessions -> {"none", "connecting", "calling", "awaiting",
                                "closing", "over"}]
    /\ canceller \in [Sessions -> {"none", "waiting", "calling", "over"}]
    /\ clicked \in [Sessions -> {"no", "early", "running"}]
    /\ stepQ \in [Sessions -> Seq(1..NSteps)]
    /\ chan \in [Sessions -> Seq(Events)]
    /\ events \in 0..MaxEvents

Pending(i) == driver[i] \in {"connecting", "calling", "awaiting"}
Ends(i) == {k \in DOMAIN chan[i] : chan[i][k].kind = "end"}

\* Every session ends once: while it is on the progress page, and only then, its
\* driver is to send the one event that ends it or that event is on its way; no
\* event of an earlier session can end the present one.
EndsOnce ==
    page # "gone" =>
        /\ inFlight <=> page = "progress"
        /\ \A i \in Sessions :
              IF i = session /\ page = "progress"
              THEN \/ Pending(i) /\ Ends(i) = {}
                   \/ ~Pending(i) /\ \E k \in Ends(i) : Ends(i) = {k}
              ELSE ~Pending(i) /\ Ends(i) = {}

\* What the Done page says is what the service answered to this session's call,
\* whatever other clients were told.
ResultIsOwn ==
    page = "done" => /\ success <=> answer[session] = "ok"
                     /\ answer[session] \in {"none"} \cup Service!Answers

\* The GUI never leaves the progress page (and so never offers a retry, a
\* restart or to quit) while its install is still working on the machine.
NeverLeavesInstall ==
    serving \in Sessions /\ stage # "panicked" => serving = session /\ page = "progress"

\* The machine is rebooted only after a success, when no install of this GUI runs.
RebootsWhenDone ==
    [][reboots' # reboots => answer[session] = "ok" /\ serving \notin Sessions]_vars

\* Every session comes to a failure the user is shown, or to a reboot, unless the
\* user quits; also when the daemon dies during it: its call is then answered with an
\* error, which spawn_install turns into Completed (daemon.rs:270-288), where README.md:182
\* says that the GUI "receives no further signals and never hits Done".
SessionEnds ==
    (page = "progress" \/ (page = "done" /\ success))
        ~> ((page = "done" /\ ~success) \/ reboots > 0 \/ page = "gone")

\* A click on Cancel once the service runs this session's install is not lost, with
\* a retry, another client and a dying daemon in between: it is on its way until
\* the install is cancelled or over.  (Earlier ones are: see CancelArrives.)
CancelReaches ==
    \A i \in Sessions :
        clicked[i] = "running" /\ serving = i /\ stage = "working" =>
            canceller[i] \in {"waiting", "calling"} \/ cancelled

=============================================================================
