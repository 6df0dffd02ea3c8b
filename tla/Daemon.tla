------------------------------- MODULE Daemon -------------------------------
(***************************************************************************)
(* The D-Bus service of cosmonaut-installer-daemon: the InstallJson,       *)
(* Cancel and ProbeDisks handlers (service.rs), which zbus runs as         *)
(* concurrent tasks over one Mutex<Inner>, the engine task each accepted   *)
(* InstallJson spawns, and main's idle-exit loop over a watch channel.     *)
(*                                                                         *)
(* The engine is abstract here: it announces steps, may fail at any point, *)
(* polls its token before it announces the last one (finalize) and cannot  *)
(* fail after that.  Engine.tla has the detail.                            *)
(***************************************************************************)
EXTENDS Integers, FiniteSets

CONSTANTS
    Calls,       \* InstallJson calls, each made at most once
    NoCall,      \* "no token"
    Probes,      \* ProbeDisks calls, each made at most once
    NSteps,      \* bound: steps an engine announces, the last is finalize
    ChanCap,     \* capacity of the engine's event channel
    MaxParts,    \* bound: partitions a probe mounts
    MaxSignals,  \* bound: SIGTERM or SIGINT deliveries
    MayPanic     \* whether the engine task may panic

ASSUME NoCallAssumption == NoCall \notin Calls
ASSUME StepsAssumption == NSteps \in Nat \ {0} /\ ChanCap \in Nat \ {0}
ASSUME DaemonBoundsAssumption ==
    MaxParts \in Nat /\ MaxSignals \in Nat /\ MayPanic \in BOOLEAN

VARIABLES
    state,     \* Inner.state
    current,   \* Inner.current_step, with the call it came from
    token,     \* Inner.cancel: whose CancellationToken, or NoCall
    idle,      \* the value in the idle watch channel
    unseen,    \* it was sent since main's receiver last looked
    main,      \* where main's select! loop is
    cause,     \* why main left it
    handler,   \* where each InstallJson call is, or its reply
    engine,    \* each call's engine task
    emitted,   \* steps it has sent into its channel
    handled,   \* steps its handler has taken out
    readers,   \* calls whose channel is still held by a killed child's pipes
    honored,   \* calls whose token a Cancel() cancelled, returning true
    scan,      \* where each ProbeDisks call is
    threads,   \* its detect_os threads with a partition mounted
    parts,     \* partitions it has looked at
    signals    \* counter of its bound

inner == <<state, current, token, idle, unseen>>
mainLoop == <<main, cause>>
tasks == <<engine, emitted, readers>>
probing == <<scan, threads, parts>>
vars == <<inner, mainLoop, handler, handled, tasks, honored, probing, signals>>

-----------------------------------------------------------------------------
\* A handler that was accepted and has not yet reset Inner.
Unsettled == {"fetch", "drain", "settle"}
InFlight == Unsettled \cup {"complete"}
Answers == {"ok", "error", "busy", "badargs", "panic", "noreply"}
HandlerPCs == {"ready"} \cup InFlight \cup Answers

LiveEngine == {"working", "finishing"}
EngineStates == {"none", "ok", "failed", "panicked", "killed"} \cup LiveEngine

NoStep == <<NoCall, 0>>

\* RunState::Idle, an empty Inner and watch::channel(true); no process runs
\* until a call activates it.
Init ==
    /\ state = "idle" /\ current = NoStep /\ token = NoCall
    /\ idle = TRUE /\ unseen = FALSE
    /\ main = "gone" /\ cause = "none"
    /\ handler = [c \in Calls |-> "ready"]
    /\ handled = [c \in Calls |-> 0]
    /\ engine = [c \in Calls |-> "none"]
    /\ emitted = [c \in Calls |-> 0]
    /\ readers = {} /\ honored = {}
    /\ scan = [p \in Probes |-> "ready"]
    /\ threads = [p \in Probes |-> 0]
    /\ parts = [p \in Probes |-> 0]
    /\ signals = 0

Up == main # "gone"

\* idle_tx.send(v)
SendIdle(v) == idle' = v /\ unseen' = TRUE

-----------------------------------------------------------------------------
(* Process life: bus activation, the idle loop, signals, exit.             *)

\* The bus starts the service for the first call that finds no owner.
Activate ==
    /\ ~Up
    /\ \/ \E c \in Calls : handler[c] = "ready"
       \/ \E p \in Probes : scan[p] = "ready"
    /\ main' = "look"
    /\ UNCHANGED <<inner, cause, handler, handled, tasks, honored, probing, signals>>

\* borrow_and_update() at the top of idle_exit's loop.
Look ==
    /\ main = "look"
    /\ unseen' = FALSE
    /\ main' = IF idle THEN "debounce" ELSE "busy"
    /\ UNCHANGED <<state, current, token, idle, cause, handler, handled, tasks,
                   honored, probing, signals>>

\* changed() resolves, in either await.
Wake ==
    /\ main \in {"debounce", "busy"} /\ unseen
    /\ unseen' = FALSE
    /\ main' = "look"
    /\ UNCHANGED <<state, current, token, idle, cause, handler, handled, tasks,
                   honored, probing, signals>>

\* sleep(IDLE_EXIT_AFTER) resolves.  select! is not biased: when both branches
\* are ready it may take this one.
SleepElapses ==
    /\ main = "debounce"
    /\ main' = "leaving" /\ cause' = "idle"
    /\ UNCHANGED <<inner, handler, handled, tasks, honored, probing, signals>>

Terminate ==
    /\ main \in {"look", "debounce", "busy"} /\ signals < MaxSignals
    /\ signals' = signals + 1
    /\ main' = "leaving" /\ cause' = "signal"
    /\ UNCHANGED <<inner, handler, handled, tasks, honored, probing>>

\* drop(conn), then the runtime drops every task; the next process starts with
\* a new Inner.  Callers get NoReply and the engine dies without teardown.  A
\* detect_os thread runs on: dropping the runtime waits for blocking threads,
\* when the bus name is already free.
Exit ==
    /\ main = "leaving"
    /\ main' = "gone" /\ cause' = "none"
    /\ state' = "idle" /\ current' = NoStep /\ token' = NoCall
    /\ idle' = TRUE /\ unseen' = FALSE
    /\ handler' = [c \in Calls |-> IF handler[c] \in InFlight THEN "noreply"
                                   ELSE handler[c]]
    /\ engine' = [c \in Calls |-> IF engine[c] \in LiveEngine THEN "killed"
                                  ELSE engine[c]]
    /\ readers' = {}
    /\ scan' = [p \in Probes |-> IF scan[p] \in {"scanning", "waiting"}
                                 THEN "answered" ELSE scan[p]]
    /\ UNCHANGED <<handled, emitted, honored, threads, parts, signals>>

-----------------------------------------------------------------------------
(* InstallJson.                                                            *)

RejectJson(c) ==
    /\ Up /\ handler[c] = "ready"
    /\ handler' = [handler EXCEPT ![c] = "badargs"]
    /\ UNCHANGED <<inner, mainLoop, handled, tasks, honored, probing, signals>>

RejectOverlap(c) ==
    /\ Up /\ handler[c] = "ready" /\ state = "running"
    /\ handler' = [handler EXCEPT ![c] = "busy"]
    /\ UNCHANGED <<inner, mainLoop, handled, tasks, honored, probing, signals>>

\* mutant: the idle loop is not told that an install has started
AcceptSilently(c) ==
    /\ Up /\ handler[c] = "ready" /\ state # "running"
    /\ state' = "running" /\ current' = NoStep /\ token' = c
    /\ handler' = [handler EXCEPT ![c] = "fetch"]
    /\ UNCHANGED <<idle, unseen, mainLoop, handled, tasks, honored, probing, signals>>

\* mutant: CurrentStep is not reset for the new install
AcceptKeepsStep(c) ==
    /\ Up /\ handler[c] = "ready" /\ state # "running"
    /\ state' = "running" /\ token' = c
    /\ SendIdle(FALSE)
    /\ handler' = [handler EXCEPT ![c] = "fetch"]
    /\ UNCHANGED <<current, mainLoop, handled, tasks, honored, probing, signals>>

\* The first critical section.
Accept(c) ==
    /\ Up /\ handler[c] = "ready" /\ state # "running"
    /\ state' = "running" /\ current' = NoStep /\ token' = c
    /\ SendIdle(FALSE)
    /\ handler' = [handler EXCEPT ![c] = "fetch"]
    /\ UNCHANGED <<mainLoop, handled, tasks, honored, probing, signals>>

\* The second: clones the token, .expect("cancel set above"), and spawns the
\* engine on it.
Spawn(c) ==
    /\ Up /\ handler[c] = "fetch" /\ token # NoCall
    /\ handler' = [handler EXCEPT ![c] = "drain"]
    /\ engine' = [engine EXCEPT ![c] = "working"]
    /\ UNCHANGED <<inner, mainLoop, handled, emitted, readers, honored, probing, signals>>

Pending(c) == emitted[c] - handled[c]

\* A StepChanged event: current_step under the lock, then the D-Bus signal.
Drain(c) ==
    /\ Up /\ handler[c] = "drain" /\ Pending(c) > 0
    /\ handled' = [handled EXCEPT ![c] = @ + 1]
    /\ current' = <<c, handled'[c]>>
    /\ UNCHANGED <<state, token, idle, unseen, mainLoop, handler, tasks, honored,
                   probing, signals>>

\* mutant: the handler drains until the last step, not until the channel closes
JoinAfterLastStep(c) ==
    /\ Up /\ handler[c] = "drain" /\ handled[c] = NSteps
    /\ engine[c] \notin LiveEngine
    /\ handler' = [handler EXCEPT ![c] = "settle"]
    /\ UNCHANGED <<inner, mainLoop, handled, tasks, honored, probing, signals>>

\* recv() returns None once every sender is gone: the engine's and those of the
\* tasks reading a child's output.  Then the task is joined; a panic returns
\* through `?` and leaves Inner as it is.
Join(c) ==
    /\ Up /\ handler[c] = "drain" /\ Pending(c) = 0
    /\ engine[c] \notin LiveEngine /\ c \notin readers
    /\ handler' = [handler EXCEPT ![c] = IF engine[c] = "panicked" THEN "panic"
                                         ELSE "settle"]
    /\ UNCHANGED <<inner, mainLoop, handled, tasks, honored, probing, signals>>

\* mutant: the finished install's token stays in Inner
SettleKeepsToken(c) ==
    /\ Up /\ handler[c] = "settle"
    /\ state' = IF engine[c] = "ok" THEN "done" ELSE "error"
    /\ SendIdle(TRUE)
    /\ handler' = [handler EXCEPT ![c] = "complete"]
    /\ UNCHANGED <<token, current, mainLoop, handled, tasks, honored, probing, signals>>

\* mutant: the idle loop is not told that the install has ended
SettleSilently(c) ==
    /\ Up /\ handler[c] = "settle"
    /\ state' = IF engine[c] = "ok" THEN "done" ELSE "error"
    /\ token' = NoCall
    /\ handler' = [handler EXCEPT ![c] = "complete"]
    /\ UNCHANGED <<current, idle, unseen, mainLoop, handled, tasks, honored, probing, signals>>

\* The last critical section.
Settle(c) ==
    /\ Up /\ handler[c] = "settle"
    /\ state' = IF engine[c] = "ok" THEN "done" ELSE "error"
    /\ token' = NoCall
    /\ SendIdle(TRUE)
    /\ handler' = [handler EXCEPT ![c] = "complete"]
    /\ UNCHANGED <<current, mainLoop, handled, tasks, honored, probing, signals>>

\* The Completed signal, outside the lock, and the reply.
Complete(c) ==
    /\ Up /\ handler[c] = "complete"
    /\ handler' = [handler EXCEPT ![c] = IF engine[c] = "ok" THEN "ok" ELSE "error"]
    /\ UNCHANGED <<inner, mainLoop, handled, tasks, honored, probing, signals>>

\* mutant: Cancel() ends the install at once as far as Inner is concerned
CancelEagerly ==
    /\ Up /\ token # NoCall
    /\ honored' = honored \cup {token}
    /\ state' = "error" /\ token' = NoCall /\ SendIdle(TRUE)
    /\ UNCHANGED <<current, mainLoop, handler, handled, tasks, probing, signals>>

\* Cancel() with a token to cancel; without one it changes nothing.
Cancel ==
    /\ Up /\ token # NoCall
    /\ honored' = honored \cup {token}
    /\ UNCHANGED <<inner, mainLoop, handler, handled, tasks, probing, signals>>

-----------------------------------------------------------------------------
(* The engine task of an accepted call.                                    *)

\* mutant: the engine does not poll its token before finalize
EmitStepUnchecked(c) ==
    /\ Up /\ engine[c] = "working"
    /\ Pending(c) < ChanCap /\ emitted[c] < NSteps
    /\ emitted' = [emitted EXCEPT ![c] = @ + 1]
    /\ engine' = [engine EXCEPT ![c] = IF emitted'[c] = NSteps THEN "finishing" ELSE @]
    /\ UNCHANGED <<inner, mainLoop, handler, handled, readers, honored, probing, signals>>

\* mutant: the channel is not bounded
EmitStepUnbounded(c) ==
    /\ Up /\ engine[c] = "working" /\ emitted[c] < NSteps
    /\ emitted[c] + 1 = NSteps => c \notin honored
    /\ emitted' = [emitted EXCEPT ![c] = @ + 1]
    /\ engine' = [engine EXCEPT ![c] = IF emitted'[c] = NSteps THEN "finishing" ELSE @]
    /\ UNCHANGED <<inner, mainLoop, handler, handled, readers, honored, probing, signals>>

\* emit_step: blocks while the channel is full.
EmitStep(c) ==
    /\ Up /\ engine[c] = "working"
    /\ Pending(c) < ChanCap /\ emitted[c] < NSteps
    /\ emitted[c] + 1 = NSteps => c \notin honored
    /\ emitted' = [emitted EXCEPT ![c] = @ + 1]
    /\ engine' = [engine EXCEPT ![c] = IF emitted'[c] = NSteps THEN "finishing" ELSE @]
    /\ UNCHANGED <<inner, mainLoop, handler, handled, readers, honored, probing, signals>>

\* Cancelled, or a step failed.  A child killed by the cancellation may have
\* left processes behind that keep its pipes, and so the channel, open.
EngineFails(c) ==
    /\ Up /\ engine[c] = "working"
    /\ engine' = [engine EXCEPT ![c] = "failed"]
    /\ readers' \in {readers, readers \cup (honored \cap {c})}
    /\ UNCHANGED <<inner, mainLoop, handler, handled, emitted, honored, probing, signals>>

EngineSucceeds(c) ==
    /\ Up /\ engine[c] = "finishing"
    /\ engine' = [engine EXCEPT ![c] = "ok"]
    /\ UNCHANGED <<inner, mainLoop, handler, handled, emitted, readers, honored,
                   probing, signals>>

EnginePanics(c) ==
    /\ Up /\ MayPanic /\ engine[c] \in LiveEngine
    /\ engine' = [engine EXCEPT ![c] = "panicked"]
    /\ UNCHANGED <<inner, mainLoop, handler, handled, emitted, readers, honored,
                   probing, signals>>

ReadersEnd(c) ==
    /\ Up /\ c \in readers
    /\ readers' = readers \ {c}
    /\ UNCHANGED <<inner, mainLoop, handler, handled, engine, emitted, honored,
                   probing, signals>>

-----------------------------------------------------------------------------
(* ProbeDisks.                                                             *)

\* The lock is released before anything is mounted.
ProbeCheck(p) ==
    /\ Up /\ scan[p] = "ready"
    /\ scan' = [scan EXCEPT ![p] = IF state = "running" THEN "answered" ELSE "scanning"]
    /\ UNCHANGED <<inner, mainLoop, handler, handled, tasks, honored, threads,
                   parts, signals>>

\* spawn_blocking(detect_os) of an unmounted partition: with_ro_mount.
DetectStarts(p) ==
    /\ Up /\ scan[p] = "scanning" /\ parts[p] < MaxParts
    /\ scan' = [scan EXCEPT ![p] = "waiting"]
    /\ threads' = [threads EXCEPT ![p] = @ + 1]
    /\ parts' = [parts EXCEPT ![p] = @ + 1]
    /\ UNCHANGED <<inner, mainLoop, handler, handled, tasks, honored, signals>>

\* Unmounted again: the thread the handler awaits, or one it gave up on.
DetectEnds(p) ==
    /\ threads[p] > 0
    /\ threads' = [threads EXCEPT ![p] = @ - 1]
    /\ \/ scan[p] = "waiting" /\ scan' = [scan EXCEPT ![p] = "scanning"]
       \/ (scan[p] = "waiting" => threads[p] > 1) /\ UNCHANGED scan
    /\ UNCHANGED <<inner, mainLoop, handler, handled, tasks, honored, parts, signals>>

\* PER_PARTITION_TIMEOUT: the handler goes on, the thread keeps its mount.
DetectTimesOut(p) ==
    /\ Up /\ scan[p] = "waiting"
    /\ scan' = [scan EXCEPT ![p] = "scanning"]
    /\ UNCHANGED <<inner, mainLoop, handler, handled, tasks, honored, threads,
                   parts, signals>>

ProbeAnswers(p) ==
    /\ Up /\ scan[p] = "scanning"
    /\ scan' = [scan EXCEPT ![p] = "answered"]
    /\ UNCHANGED <<inner, mainLoop, handler, handled, tasks, honored, threads,
                   parts, signals>>

-----------------------------------------------------------------------------
MainStep == Look \/ Wake \/ Exit

HandlerStep(c) == Spawn(c) \/ Drain(c) \/ Join(c) \/ Settle(c) \/ Complete(c)

EngineEnds(c) == EngineFails(c) \/ EngineSucceeds(c) \/ EnginePanics(c)

Next ==
    \/ Activate \/ MainStep \/ SleepElapses \/ Terminate \/ Cancel
    \/ \E c \in Calls :
          \/ RejectJson(c) \/ RejectOverlap(c) \/ Accept(c) \/ HandlerStep(c)
          \/ EmitStep(c) \/ EngineEnds(c) \/ ReadersEnd(c)
    \/ \E p \in Probes :
          ProbeCheck(p) \/ DetectStarts(p) \/ DetectEnds(p) \/ DetectTimesOut(p)
          \/ ProbeAnswers(p)

Spec == Init /\ [][Next]_vars

\* The runtime polls every ready task, the timer fires, an engine ends (its
\* commands terminate) unless it is blocked on a full channel, and orphaned
\* children exit.
FairSpec ==
    /\ Spec
    /\ WF_vars(MainStep) /\ WF_vars(SleepElapses)
    /\ WF_vars(\E c \in Calls : HandlerStep(c))
    /\ WF_vars(\E c \in Calls : EngineEnds(c) /\ Pending(c) < ChanCap)
    /\ WF_vars(\E c \in Calls : ReadersEnd(c))

-----------------------------------------------------------------------------
(* Properties.                                                             *)

TypeOK ==
    /\ state \in {"idle", "running", "done", "error"}
    /\ current \in (Calls \cup {NoCall}) \X Nat
    /\ token \in Calls \cup {NoCall}
    /\ idle \in BOOLEAN /\ unseen \in BOOLEAN
    /\ main \in {"look", "busy", "debounce", "leaving", "gone"}
    /\ cause \in {"none", "idle", "signal"}
    /\ handler \in [Calls -> HandlerPCs]
    /\ engine \in [Calls -> EngineStates]
    /\ emitted \in [Calls -> 0..NSteps] /\ handled \in [Calls -> 0..NSteps]
    /\ \A c \in Calls : handled[c] <= emitted[c] /\ Pending(c) <= ChanCap
    /\ readers \subseteq Calls /\ honored \subseteq Calls
    /\ scan \in [Probes -> {"ready", "scanning", "waiting", "answered"}]
    /\ threads \in [Probes -> Nat] /\ parts \in [Probes -> Nat]
    /\ signals \in Nat

\* Overlapping installs are refused: no two engines work on the machine, even
\* while one of them is being cancelled, torn down or has yet to be joined.
OneEngine ==
    \A c, d \in Calls :
        engine[c] \in LiveEngine /\ engine[d] \in LiveEngine => c = d

\* Cancel() can only reach the install that is running: Inner.cancel is the
\* token of the one call that is between its first and its last critical
\* section (or whose engine panicked), and a call about to fetch its token
\* finds its own, so expect("cancel set above") holds.
TokenIsRunners ==
    Up => \A c \in Calls :
             /\ handler[c] \in Unsettled => token = c
             /\ token = c => handler[c] \in Unsettled \cup {"panic"}

\* idle_exit misses no transition: when its loop waits on the wrong side of the
\* state, a notification is on its way.  It may still lose the race to the timer
\* (SleepElapses), where main.rs:69-71 says that "the rx fires again and we reset".
NoLostWakeup ==
    /\ main = "debounce" /\ state = "running" => unseen
    /\ main = "busy" /\ state # "running" => unseen

\* Every accepted InstallJson is answered, whatever the interleaving with
\* Cancel, panics, signals and the idle exit: also when the engine waits for room
\* in the channel, or a killed child's pipes keep the channel open.
EveryCallAnswered ==
    []<>(\A c \in Calls : handler[c] \notin InFlight)

\* A daemon that is left alone goes away ("idle-exits ~30s after the install
\* completes"): unless an engine panicked, it does not stay for ever.
IdleDaemonExits == []<>(main = "gone" \/ \E c \in Calls : handler[c] = "panic")

\* service.rs on ProbeDisks: "Refused while an install is running - the probe
\* mounts things."  No partition is mounted by a probe while an engine works.
ProbeExcludesInstall ==
    (\E p \in Probes : threads[p] > 0) => \A c \in Calls : engine[c] \notin LiveEngine

-----------------------------------------------------------------------------
(* Refinement: the engine of each call behaves as an InstallTask.          *)

Phase(c) == IF engine[c] \in LiveEngine THEN engine[c] ELSE "idle"

Outcome(c) ==
    CASE engine[c] = "ok" -> "ok"
      [] engine[c] = "failed" -> "error"
      [] OTHER -> "none"

Task(c) == INSTANCE InstallTask
           WITH phase <- Phase(c), cancelled <- c \in honored, outcome <- Outcome(c)

TasksBegin == \A c \in Calls : Task(c)!Init

TasksStep ==
    \A c \in Calls :
        Task(c)!Next \/ UNCHANGED <<Phase(c), c \in honored, Outcome(c)>>

\* The handlers' view of the engine is the promise Engine.tla keeps.
EnginesKeepPromise == TasksBegin /\ [][TasksStep]_vars

-----------------------------------------------------------------------------
(* Refinement: the daemon is the Service its clients rely on.              *)

Serving == IF Up /\ state = "running" THEN token ELSE NoCall

Stage ==
    IF Serving = NoCall THEN "idle"
    ELSE CASE engine[token] = "finishing" -> "committed"
           [] engine[token] = "ok" -> "succeeded"
           [] engine[token] \in {"failed", "panicked"} -> engine[token]
           [] OTHER -> "working"

Answer(c) ==
    CASE handler[c] = "ready" -> "none"
      [] handler[c] \in Unsettled -> "pending"
      [] handler[c] = "complete" -> IF engine[c] = "ok" THEN "succeeding" ELSE "failing"
      [] handler[c] = "ok" -> "ok"
      [] OTHER -> "error"

Promise == INSTANCE Service
           WITH serving <- Serving, stage <- Stage, cancelled <- Serving \in honored,
                step <- current[2], answer <- [c \in Calls |-> Answer(c)]

\* What Session.tla assumes of the service: installs are exclusive, an accepted
\* one can be cancelled until it commits, "ok" is answered only after it has
\* committed and the service is free by then, a death answers everybody.
ImplementsService == Promise!Spec

=============================================================================
