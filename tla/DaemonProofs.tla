---------------------------- MODULE DaemonProofs ----------------------------
(***************************************************************************)
(* Proofs about Daemon.tla: its type invariant, the safety invariants of   *)
(* the service's shared state, that each call's engine task is an          *)
(* InstallTask, and that the daemon implements Service.tla, what its       *)
(* clients rely on, for any number of calls, probes, steps and signals.    *)
(***************************************************************************)
EXTENDS Daemon, TLAPS

-----------------------------------------------------------------------------
(* The inductive invariant.                                                *)

\* Inner is running exactly while it holds a token, and the idle channel's
\* value is the negation: the three are only ever changed together.
InnerAgrees ==
    /\ state = "running" <=> token # NoCall
    /\ idle <=> state # "running"

\* Between processes there is a fresh Inner and nothing in flight.
GoneIsFresh ==
    ~Up => /\ token = NoCall
           /\ \A c \in Calls : handler[c] \notin InFlight

\* An engine only works while its handler drains its channel.
EngineIsDrained ==
    \A c \in Calls : engine[c] \in LiveEngine => Up /\ handler[c] = "drain"

\* The CurrentStep property shown during an install is a step of that install,
\* never one left over from the previous.
CurrentStepIsRunners ==
    Up /\ state = "running" /\ current # NoStep => current[1] = token

SharedInv ==
    /\ InnerAgrees /\ GoneIsFresh /\ EngineIsDrained
    /\ TokenIsRunners /\ CurrentStepIsRunners /\ NoLostWakeup

-----------------------------------------------------------------------------
(* Type correctness.                                                       *)

LEMMA TypeInit == Init => TypeOK
<1> SUFFICES ASSUME Init
             PROVE  TypeOK
    OBVIOUS
<1>1. handled \in [Calls -> 0..NSteps] /\ emitted \in [Calls -> 0..NSteps]
    BY StepsAssumption DEF Init
<1>2. \A c \in Calls : handled[c] <= emitted[c] /\ Pending(c) <= ChanCap
    BY StepsAssumption DEF Init, Pending
<1>3. handler \in [Calls -> HandlerPCs] /\ engine \in [Calls -> EngineStates]
    BY DEF Init, HandlerPCs, EngineStates
<1>4. current \in (Calls \cup {NoCall}) \X Nat
    BY DEF Init, NoStep
<1> QED BY <1>1, <1>2, <1>3, <1>4 DEF Init, TypeOK

\* Process life and Cancel().
LEMMA TypeProcess ==
    ASSUME TypeOK,
           Activate \/ MainStep \/ SleepElapses \/ Terminate \/ Cancel
    PROVE  TypeOK'
<1>1. CASE Activate
    BY <1>1 DEF TypeOK, Activate, inner, tasks, probing, Pending
<1>2. CASE Look
    BY <1>2 DEF TypeOK, Look, tasks, probing, Pending
<1>3. CASE Wake
    BY <1>3 DEF TypeOK, Wake, tasks, probing, Pending
<1>4. CASE Exit
    <2>1. handler' \in [Calls -> HandlerPCs]
        BY <1>4 DEF TypeOK, Exit, HandlerPCs, Answers
    <2>2. engine' \in [Calls -> EngineStates]
        BY <1>4 DEF TypeOK, Exit, EngineStates
    <2>3. scan' \in [Probes -> {"ready", "scanning", "waiting", "answered"}]
        BY <1>4 DEF TypeOK, Exit
    <2>4. current' \in (Calls \cup {NoCall}) \X Nat
        BY <1>4 DEF Exit, NoStep
    <2> QED BY <1>4, <2>1, <2>2, <2>3, <2>4 DEF TypeOK, Exit, Pending
<1>5. CASE SleepElapses
    BY <1>5 DEF TypeOK, SleepElapses, inner, tasks, probing, Pending
<1>6. CASE Terminate
    BY <1>6, DaemonBoundsAssumption
       DEF TypeOK, Terminate, inner, tasks, probing, Pending
<1>7. CASE Cancel
    BY <1>7 DEF TypeOK, Cancel, inner, mainLoop, tasks, probing, Pending
<1> QED BY <1>1, <1>2, <1>3, <1>4, <1>5, <1>6, <1>7 DEF MainStep

\* The handler of an InstallJson call.
LEMMA TypeHandler ==
    ASSUME TypeOK, NEW c \in Calls,
           RejectJson(c) \/ RejectOverlap(c) \/ Accept(c) \/ HandlerStep(c)
    PROVE  TypeOK'
<1>1. CASE RejectJson(c)
    BY <1>1 DEF TypeOK, RejectJson, HandlerPCs, Answers, inner, mainLoop, tasks,
                probing, Pending
<1>2. CASE RejectOverlap(c)
    BY <1>2 DEF TypeOK, RejectOverlap, HandlerPCs, Answers, inner, mainLoop, tasks,
                probing, Pending
<1>3. CASE Accept(c)
    BY <1>3 DEF TypeOK, Accept, SendIdle, NoStep, HandlerPCs, InFlight, Unsettled,
                mainLoop, tasks, probing, Pending
<1>4. CASE Spawn(c)
    BY <1>4 DEF TypeOK, Spawn, HandlerPCs, InFlight, Unsettled, EngineStates,
                LiveEngine, inner, mainLoop, probing, Pending
<1>5. CASE Drain(c)
    <2>1. handled[c] + 1 \in 0..NSteps /\ handled[c] + 1 <= emitted[c]
        BY <1>5, StepsAssumption DEF TypeOK, Drain, Pending
    <2>2. handled' \in [Calls -> 0..NSteps] /\ handled'[c] = handled[c] + 1
        BY <1>5, <2>1 DEF TypeOK, Drain
    <2>3. current' \in (Calls \cup {NoCall}) \X Nat
        BY <1>5, <2>1, <2>2 DEF Drain
    <2>4. \A d \in Calls : handled'[d] <= emitted'[d] /\ Pending(d)' <= ChanCap
        <3> SUFFICES ASSUME NEW d \in Calls
                     PROVE  handled'[d] <= emitted'[d] /\ Pending(d)' <= ChanCap
            OBVIOUS
        <3>1. CASE d = c
            BY <1>5, <2>1, <2>2, <3>1, StepsAssumption DEF TypeOK, Drain, tasks, Pending
        <3>2. CASE d # c
            BY <1>5, <3>2 DEF TypeOK, Drain, tasks, Pending
        <3> QED BY <3>1, <3>2
    <2> QED BY <1>5, <2>2, <2>3, <2>4
               DEF TypeOK, Drain, mainLoop, tasks, probing
<1>6. CASE Join(c)
    BY <1>6 DEF TypeOK, Join, HandlerPCs, InFlight, Unsettled, Answers, inner,
                mainLoop, tasks, probing, Pending
<1>7. CASE Settle(c)
    BY <1>7 DEF TypeOK, Settle, SendIdle, HandlerPCs, InFlight, mainLoop, tasks,
                probing, Pending
<1>8. CASE Complete(c)
    BY <1>8 DEF TypeOK, Complete, HandlerPCs, Answers, inner, mainLoop, tasks,
                probing, Pending
<1> QED BY <1>1, <1>2, <1>3, <1>4, <1>5, <1>6, <1>7, <1>8 DEF HandlerStep

\* The engine task of an InstallJson call.
LEMMA TypeEngine ==
    ASSUME TypeOK, NEW c \in Calls,
           EmitStep(c) \/ EngineEnds(c) \/ ReadersEnd(c)
    PROVE  TypeOK'
<1>1. CASE EmitStep(c)
    <2>1. emitted[c] + 1 \in 0..NSteps
        BY <1>1, StepsAssumption DEF TypeOK, EmitStep
    <2>2. emitted' \in [Calls -> 0..NSteps] /\ emitted'[c] = emitted[c] + 1
        BY <1>1, <2>1 DEF TypeOK, EmitStep
    <2>3. engine' \in [Calls -> EngineStates]
        BY <1>1 DEF TypeOK, EmitStep, EngineStates, LiveEngine
    <2>4. \A d \in Calls : handled'[d] <= emitted'[d] /\ Pending(d)' <= ChanCap
        <3> SUFFICES ASSUME NEW d \in Calls
                     PROVE  handled'[d] <= emitted'[d] /\ Pending(d)' <= ChanCap
            OBVIOUS
        <3>1. CASE d = c
            BY <1>1, <2>1, <2>2, <3>1, StepsAssumption DEF TypeOK, EmitStep, Pending
        <3>2. CASE d # c
            BY <1>1, <3>2 DEF TypeOK, EmitStep, Pending
        <3> QED BY <3>1, <3>2
    <2> QED BY <1>1, <2>2, <2>3, <2>4 DEF TypeOK, EmitStep, inner, mainLoop, probing
<1>2. CASE EngineFails(c)
    BY <1>2 DEF TypeOK, EngineFails, EngineStates, inner, mainLoop, probing, Pending
<1>3. CASE EngineSucceeds(c)
    BY <1>3 DEF TypeOK, EngineSucceeds, EngineStates, inner, mainLoop, probing, Pending
<1>4. CASE EnginePanics(c)
    BY <1>4 DEF TypeOK, EnginePanics, EngineStates, inner, mainLoop, probing, Pending
<1>5. CASE ReadersEnd(c)
    BY <1>5 DEF TypeOK, ReadersEnd, inner, mainLoop, probing, Pending
<1> QED BY <1>1, <1>2, <1>3, <1>4, <1>5 DEF EngineEnds

ProbeStep(p) ==
    \/ ProbeCheck(p) \/ DetectStarts(p) \/ DetectEnds(p) \/ DetectTimesOut(p)
    \/ ProbeAnswers(p)

\* A ProbeDisks call.
LEMMA TypeProbe ==
    ASSUME TypeOK, NEW p \in Probes, ProbeStep(p)
    PROVE  TypeOK'
<1>1. CASE ProbeCheck(p)
    BY <1>1 DEF TypeOK, ProbeCheck, inner, mainLoop, tasks, Pending
<1>2. CASE DetectStarts(p)
    BY <1>2 DEF TypeOK, DetectStarts, inner, mainLoop, tasks, Pending
<1>3. CASE DetectEnds(p)
    <2>1. threads' \in [Probes -> Nat]
        BY <1>3 DEF TypeOK, DetectEnds
    <2>2. scan' \in [Probes -> {"ready", "scanning", "waiting", "answered"}]
        BY <1>3 DEF TypeOK, DetectEnds
    <2> QED BY <1>3, <2>1, <2>2 DEF TypeOK, DetectEnds, inner, mainLoop, tasks, Pending
<1>4. CASE DetectTimesOut(p)
    BY <1>4 DEF TypeOK, DetectTimesOut, inner, mainLoop, tasks, Pending
<1>5. CASE ProbeAnswers(p)
    BY <1>5 DEF TypeOK, ProbeAnswers, inner, mainLoop, tasks, Pending
<1> QED BY <1>1, <1>2, <1>3, <1>4, <1>5 DEF ProbeStep

LEMMA TypeNext ==
    ASSUME TypeOK, [Next]_vars
    PROVE  TypeOK'
<1>1. CASE UNCHANGED vars
    BY <1>1 DEF TypeOK, vars, inner, mainLoop, tasks, probing, Pending
<1>2. CASE Activate \/ MainStep \/ SleepElapses \/ Terminate \/ Cancel
    BY <1>2, TypeProcess
<1>3. ASSUME NEW c \in Calls,
             RejectJson(c) \/ RejectOverlap(c) \/ Accept(c) \/ HandlerStep(c)
      PROVE  TypeOK'
    BY <1>3, TypeHandler
<1>4. ASSUME NEW c \in Calls, EmitStep(c) \/ EngineEnds(c) \/ ReadersEnd(c)
      PROVE  TypeOK'
    BY <1>4, TypeEngine
<1>5. ASSUME NEW p \in Probes, ProbeStep(p)
      PROVE  TypeOK'
    BY <1>5, TypeProbe
<1> QED BY <1>1, <1>2, <1>3, <1>4, <1>5 DEF Next, ProbeStep

\* The service's state is well typed, no handler takes out more steps than its
\* engine has sent, and no channel ever holds more than its capacity.
THEOREM ServiceTypeCorrect == Spec => []TypeOK
<1>1. Init => TypeOK
    BY TypeInit
<1>2. TypeOK /\ [Next]_vars => TypeOK'
    BY TypeNext
<1> QED BY <1>1, <1>2, PTL DEF Spec

-----------------------------------------------------------------------------
(* The shared state.                                                       *)

LEMMA SharedInit == Init => SharedInv
BY NoCallAssumption
   DEF Init, SharedInv, InnerAgrees, GoneIsFresh, EngineIsDrained, TokenIsRunners,
       CurrentStepIsRunners, NoLostWakeup, Up, NoStep, Unsettled, InFlight, LiveEngine

LEMMA SharedProcess ==
    ASSUME TypeOK, SharedInv,
           Activate \/ MainStep \/ SleepElapses \/ Terminate \/ Cancel
    PROVE  SharedInv'
<1> USE NoCallAssumption
    DEF SharedInv, InnerAgrees, GoneIsFresh, EngineIsDrained, TokenIsRunners,
        CurrentStepIsRunners, NoLostWakeup, Up, NoStep
<1>1. CASE Activate
    BY <1>1 DEF Activate, inner, tasks, Unsettled, InFlight
<1>2. CASE Look
    BY <1>2 DEF Look, tasks
<1>3. CASE Wake
    BY <1>3 DEF Wake, tasks
<1>4. CASE Exit
    <2>1. ~Up' /\ token' = NoCall /\ state' = "idle" /\ idle' = TRUE
        BY <1>4 DEF Exit
    <2>2. \A c \in Calls : handler'[c] \notin InFlight
        BY <1>4 DEF Exit, InFlight, Unsettled
    <2>3. \A c \in Calls : engine'[c] \notin LiveEngine
        BY <1>4 DEF Exit, LiveEngine
    <2> QED BY <2>1, <2>2, <2>3
<1>5. CASE SleepElapses
    BY <1>5 DEF SleepElapses, inner, tasks
<1>6. CASE Terminate
    BY <1>6 DEF Terminate, inner, tasks
<1>7. CASE Cancel
    BY <1>7 DEF Cancel, inner, mainLoop, tasks
<1> QED BY <1>1, <1>2, <1>3, <1>4, <1>5, <1>6, <1>7 DEF MainStep

LEMMA SharedHandler ==
    ASSUME TypeOK, SharedInv, NEW c \in Calls,
           RejectJson(c) \/ RejectOverlap(c) \/ Accept(c) \/ HandlerStep(c)
    PROVE  SharedInv'
<1> USE NoCallAssumption
    DEF SharedInv, InnerAgrees, GoneIsFresh, EngineIsDrained, TokenIsRunners,
        CurrentStepIsRunners, NoLostWakeup, Up, Unsettled, InFlight
<1>1. handler \in [Calls -> HandlerPCs] /\ engine \in [Calls -> EngineStates]
    BY DEF TypeOK
<1>2. CASE RejectJson(c)
    BY <1>1, <1>2 DEF RejectJson, inner, mainLoop, tasks
<1>3. CASE RejectOverlap(c)
    BY <1>1, <1>3 DEF RejectOverlap, inner, mainLoop, tasks
<1>4. CASE Accept(c)
    <2>1. \A d \in Calls : handler[d] \notin Unsettled
        BY <1>4 DEF Accept
    <2>2. handler' = [handler EXCEPT ![c] = "fetch"] /\ token' = c
        BY <1>4 DEF Accept
    <2>3. TokenIsRunners'
        BY <1>1, <2>1, <2>2
    <2>4. EngineIsDrained'
        BY <1>1, <1>4, <2>1, <2>2 DEF Accept, tasks, mainLoop
    <2> QED BY <1>4, <2>3, <2>4 DEF Accept, SendIdle, mainLoop
<1>5. CASE Spawn(c)
    BY <1>1, <1>5 DEF Spawn, inner, mainLoop
<1>6. CASE Drain(c)
    <2>1. token = c
        BY <1>6 DEF Drain
    <2>2. current'[1] = c
        BY <1>6 DEF Drain
    <2> QED BY <1>6, <2>1, <2>2 DEF Drain, mainLoop, tasks
<1>7. CASE Join(c)
    BY <1>1, <1>7 DEF Join, inner, mainLoop, tasks
<1>8. CASE Settle(c)
    <2>1. token = c
        BY <1>8 DEF Settle
    <2>2. \A d \in Calls : d # c => handler[d] \notin Unsettled
        BY <1>8, <2>1 DEF Settle
    <2>3. handler' = [handler EXCEPT ![c] = "complete"] /\ token' = NoCall
        BY <1>8 DEF Settle
    <2>4. TokenIsRunners'
        BY <1>1, <2>2, <2>3
    <2>5. EngineIsDrained'
        BY <1>1, <1>8, <2>3 DEF Settle, tasks, mainLoop
    <2>6. state' # "running" /\ idle' = TRUE /\ unseen' = TRUE
        BY <1>8 DEF Settle, SendIdle
    <2> QED BY <1>8, <2>3, <2>4, <2>5, <2>6 DEF Settle, mainLoop
<1>9. CASE Complete(c)
    BY <1>1, <1>9 DEF Complete, inner, mainLoop, tasks
<1> QED BY <1>2, <1>3, <1>4, <1>5, <1>6, <1>7, <1>8, <1>9 DEF HandlerStep

LEMMA SharedEngine ==
    ASSUME TypeOK, SharedInv, NEW c \in Calls,
           EmitStep(c) \/ EngineEnds(c) \/ ReadersEnd(c)
    PROVE  SharedInv'
<1> USE DEF SharedInv, InnerAgrees, GoneIsFresh, EngineIsDrained, TokenIsRunners,
            CurrentStepIsRunners, NoLostWakeup, Up
<1>1. engine \in [Calls -> EngineStates]
    BY DEF TypeOK
<1>2. CASE EmitStep(c)
    BY <1>1, <1>2 DEF EmitStep, LiveEngine, inner, mainLoop
<1>3. CASE EngineFails(c)
    BY <1>1, <1>3 DEF EngineFails, LiveEngine, inner, mainLoop
<1>4. CASE EngineSucceeds(c)
    BY <1>1, <1>4 DEF EngineSucceeds, LiveEngine, inner, mainLoop
<1>5. CASE EnginePanics(c)
    BY <1>1, <1>5 DEF EnginePanics, LiveEngine, inner, mainLoop
<1>6. CASE ReadersEnd(c)
    BY <1>6 DEF ReadersEnd, inner, mainLoop
<1> QED BY <1>2, <1>3, <1>4, <1>5, <1>6 DEF EngineEnds

LEMMA SharedProbe ==
    ASSUME SharedInv, NEW p \in Probes, ProbeStep(p)
    PROVE  SharedInv'
<1>1. UNCHANGED <<inner, mainLoop, handler, engine>>
    BY DEF ProbeStep, ProbeCheck, DetectStarts, DetectEnds, DetectTimesOut,
           ProbeAnswers, tasks
<1> QED BY <1>1 DEF SharedInv, InnerAgrees, GoneIsFresh, EngineIsDrained,
                    TokenIsRunners, CurrentStepIsRunners, NoLostWakeup, Up,
                    inner, mainLoop

LEMMA SharedNext ==
    ASSUME TypeOK, SharedInv, [Next]_vars
    PROVE  SharedInv'
<1>1. CASE UNCHANGED vars
    BY <1>1 DEF SharedInv, InnerAgrees, GoneIsFresh, EngineIsDrained,
                TokenIsRunners, CurrentStepIsRunners, NoLostWakeup, Up,
                vars, inner, mainLoop, tasks
<1>2. CASE Activate \/ MainStep \/ SleepElapses \/ Terminate \/ Cancel
    BY <1>2, SharedProcess
<1>3. ASSUME NEW c \in Calls,
             RejectJson(c) \/ RejectOverlap(c) \/ Accept(c) \/ HandlerStep(c)
      PROVE  SharedInv'
    BY <1>3, SharedHandler
<1>4. ASSUME NEW c \in Calls, EmitStep(c) \/ EngineEnds(c) \/ ReadersEnd(c)
      PROVE  SharedInv'
    BY <1>4, SharedEngine
<1>5. ASSUME NEW p \in Probes, ProbeStep(p)
      PROVE  SharedInv'
    BY <1>5, SharedProbe
<1> QED BY <1>1, <1>2, <1>3, <1>4, <1>5 DEF Next, ProbeStep

LEMMA SharedAlways == Spec => [](TypeOK /\ SharedInv)
<1>1. Init => TypeOK /\ SharedInv
    BY TypeInit, SharedInit
<1>2. TypeOK /\ SharedInv /\ [Next]_vars => (TypeOK /\ SharedInv)'
    BY TypeNext, SharedNext
<1> QED BY <1>1, <1>2, PTL DEF Spec

\* No two engines work on the machine at the same time, even while one of them
\* is being cancelled, torn down or has yet to be joined.
THEOREM EnginesExclude == Spec => []OneEngine
<1>1. SharedInv => OneEngine
    BY DEF SharedInv, EngineIsDrained, TokenIsRunners, OneEngine, Unsettled
<1> QED BY <1>1, SharedAlways, PTL

\* Inner.cancel is the token of the call between its first and its last critical
\* section, and that call finds its own: expect("cancel set above") holds.
THEOREM TokenCorrect == Spec => []TokenIsRunners
<1>1. SharedInv => TokenIsRunners
    BY DEF SharedInv
<1> QED BY <1>1, SharedAlways, PTL

\* CurrentStep never shows a step of an install that is over.
THEOREM CurrentStepCorrect == Spec => []CurrentStepIsRunners
<1>1. SharedInv => CurrentStepIsRunners
    BY DEF SharedInv
<1> QED BY <1>1, SharedAlways, PTL

\* The idle loop misses no transition of the service's state.
THEOREM WakeupsArrive == Spec => []NoLostWakeup
<1>1. SharedInv => NoLostWakeup
    BY DEF SharedInv
<1> QED BY <1>1, SharedAlways, PTL

-----------------------------------------------------------------------------
(* Refinement: each call's engine is an InstallTask.                       *)

\* A step that leaves the engines and the cancelled tokens alone.
LEMMA TaskStutters ==
    ASSUME UNCHANGED <<engine, honored>>
    PROVE  TasksStep
BY DEF TasksStep, Phase, Outcome

\* A step of one call's engine is a step of that task and no other.
LEMMA TaskMoves ==
    ASSUME TypeOK, NEW c \in Calls, NEW s,
           engine' = [engine EXCEPT ![c] = s], honored' = honored,
           Task(c)!Next \/ UNCHANGED <<Phase(c), c \in honored, Outcome(c)>>
    PROVE  TasksStep
<1> SUFFICES ASSUME NEW d \in Calls, d # c
             PROVE  UNCHANGED <<Phase(d), d \in honored, Outcome(d)>>
    BY DEF TasksStep
<1>1. engine'[d] = engine[d]
    BY DEF TypeOK
<1> QED BY <1>1 DEF Phase, Outcome

LEMMA TaskNext ==
    ASSUME TypeOK, SharedInv, [Next]_vars
    PROVE  TasksStep
<1> USE DEF Task!Next, LiveEngine
<1>1. ASSUME NEW c \in Calls, Spawn(c)
      PROVE  TasksStep
    <2>1. engine'[c] = "working" /\ honored' = honored
        BY <1>1 DEF Spawn, TypeOK
    <2>2. Phase(c) = "idle"
        BY <1>1 DEF Spawn, SharedInv, EngineIsDrained, Phase
    <2>3. Task(c)!Begin
        BY <2>1, <2>2 DEF Task!Begin, Phase, Outcome
    <2> QED BY <1>1, <2>3, TaskMoves DEF Spawn
<1>2. ASSUME NEW c \in Calls, EmitStep(c)
      PROVE  TasksStep
    <2>1. CASE emitted[c] + 1 = NSteps
        <3>1. engine'[c] = "finishing" /\ c \notin honored /\ honored' = honored
            BY <1>2, <2>1 DEF EmitStep, TypeOK
        <3>2. Task(c)!Commit
            BY <1>2, <3>1 DEF Task!Commit, EmitStep, Phase, Outcome
        <3>3. engine' = [engine EXCEPT ![c] = "finishing"]
            BY <1>2, <2>1 DEF EmitStep, TypeOK
        <3> QED BY <3>1, <3>2, <3>3, TaskMoves
    <2>2. CASE emitted[c] + 1 # NSteps
        BY <1>2, <2>2, TaskStutters DEF EmitStep, TypeOK
    <2> QED BY <2>1, <2>2
<1>3. ASSUME NEW c \in Calls, EngineFails(c)
      PROVE  TasksStep
    <2>1. engine'[c] = "failed" /\ engine[c] = "working" /\ honored' = honored
        BY <1>3 DEF EngineFails, TypeOK
    <2>2. Task(c)!Fail
        BY <2>1 DEF Task!Fail, Phase, Outcome
    <2> QED BY <1>3, <2>1, <2>2, TaskMoves DEF EngineFails
<1>4. ASSUME NEW c \in Calls, EngineSucceeds(c)
      PROVE  TasksStep
    <2>1. engine'[c] = "ok" /\ engine[c] = "finishing" /\ honored' = honored
        BY <1>4 DEF EngineSucceeds, TypeOK
    <2>2. Task(c)!Succeed
        BY <2>1 DEF Task!Succeed, Phase, Outcome
    <2> QED BY <1>4, <2>1, <2>2, TaskMoves DEF EngineSucceeds
<1>5. ASSUME NEW c \in Calls, EnginePanics(c)
      PROVE  TasksStep
    <2>1. engine'[c] = "panicked" /\ engine[c] \in LiveEngine /\ honored' = honored
        BY <1>5 DEF EnginePanics, TypeOK
    <2>2. Task(c)!Die
        BY <2>1 DEF Task!Die, Phase, Outcome
    <2> QED BY <1>5, <2>1, <2>2, TaskMoves DEF EnginePanics
<1>6. CASE Cancel
    <2> SUFFICES ASSUME NEW c \in Calls
                 PROVE  \/ Task(c)!Next
                        \/ UNCHANGED <<Phase(c), c \in honored, Outcome(c)>>
        BY DEF TasksStep
    <2>1. UNCHANGED <<Phase(c), Outcome(c)>>
        BY <1>6 DEF Cancel, tasks, Phase, Outcome
    <2>2. honored' = honored \cup {token}
        BY <1>6 DEF Cancel
    <2>3. CASE c = token
        BY <2>1, <2>2, <2>3 DEF Task!Cancel
    <2>4. CASE c # token
        BY <2>1, <2>2, <2>4
    <2> QED BY <2>3, <2>4
<1>7. CASE Exit
    <2> SUFFICES ASSUME NEW c \in Calls
                 PROVE  \/ Task(c)!Next
                        \/ UNCHANGED <<Phase(c), c \in honored, Outcome(c)>>
        BY DEF TasksStep
    <2>1. honored' = honored
        BY <1>7 DEF Exit
    <2>2. CASE engine[c] \in LiveEngine
        <3>1. engine'[c] = "killed"
            BY <1>7, <2>2 DEF Exit
        <3> QED BY <2>1, <2>2, <3>1 DEF Task!Die, Phase, Outcome
    <2>3. CASE engine[c] \notin LiveEngine
        <3>1. engine'[c] = engine[c]
            BY <1>7, <2>3 DEF Exit
        <3> QED BY <2>1, <3>1 DEF Phase, Outcome
    <2> QED BY <2>2, <2>3
<1>8. CASE UNCHANGED vars \/ Activate \/ Look \/ Wake \/ SleepElapses \/ Terminate
    BY <1>8, TaskStutters
       DEF vars, tasks, Activate, Look, Wake, SleepElapses, Terminate
<1>9. ASSUME NEW c \in Calls,
             \/ RejectJson(c) \/ RejectOverlap(c) \/ Accept(c) \/ Drain(c)
             \/ Join(c) \/ Settle(c) \/ Complete(c) \/ ReadersEnd(c)
      PROVE  TasksStep
    BY <1>9, TaskStutters
       DEF RejectJson, RejectOverlap, Accept, Drain, Join, Settle, Complete,
           ReadersEnd, tasks
<1>10. ASSUME NEW p \in Probes, ProbeStep(p)
       PROVE  TasksStep
    BY <1>10, TaskStutters
       DEF ProbeStep, ProbeCheck, DetectStarts, DetectEnds, DetectTimesOut,
           ProbeAnswers, tasks
<1> QED BY <1>1, <1>2, <1>3, <1>4, <1>5, <1>6, <1>7, <1>8, <1>9, <1>10
           DEF Next, MainStep, HandlerStep, EngineEnds, ProbeStep

\* What the handlers see of each call's engine is an InstallTask.
THEOREM EnginesAreTasks == Spec => EnginesKeepPromise
<1>1. Init => TasksBegin
    BY DEF Init, TasksBegin, Task!Init, Phase, Outcome, LiveEngine
<1>2. TypeOK /\ SharedInv /\ [Next]_vars => [TasksStep]_vars
    BY TaskNext
<1> QED BY <1>1, <1>2, SharedAlways, PTL DEF Spec, EnginesKeepPromise

-----------------------------------------------------------------------------
(* Refinement: the daemon is a Service.  What the mapping needs besides    *)
(* SharedInv: how far a call's handler is tells how far its engine, its    *)
(* steps and its cancellation can be.                                      *)

CallAgrees(c) ==
    /\ handler[c] = "ready" => c \notin honored
    /\ handler[c] \in {"ready", "fetch"} => engine[c] = "none" /\ handled[c] = 0
    /\ handler[c] = "drain" => engine[c] \in LiveEngine \cup {"ok", "failed", "panicked"}
    /\ handler[c] = "settle" => engine[c] \in {"ok", "failed"}
    /\ handler[c] \in Unsettled => current[2] = handled[c]
    /\ handler[c] = "panic" /\ token = c => engine[c] = "panicked"

CallsAgree == \A c \in Calls : CallAgrees(c)

LEMMA CallsInit == Init => CallsAgree
BY DEF Init, CallsAgree, CallAgrees, NoStep, Unsettled

\* A step that changes nothing the agreement is about, but who is in honored.
LEMMA CallsStutter ==
    ASSUME CallsAgree, UNCHANGED <<handler, engine, handled, token, honored, current>>
    PROVE  CallsAgree'
BY DEF CallsAgree, CallAgrees

LEMMA CallsProcess ==
    ASSUME TypeOK, SharedInv, CallsAgree,
           Activate \/ MainStep \/ SleepElapses \/ Terminate \/ Cancel
    PROVE  CallsAgree'
<1>1. CASE Activate \/ Look \/ Wake \/ SleepElapses \/ Terminate
    BY <1>1, CallsStutter DEF Activate, Look, Wake, SleepElapses, Terminate, inner, tasks
<1>2. CASE Cancel
    <2>1. Up /\ honored' = honored \cup {token}
          /\ UNCHANGED <<handler, engine, handled, token, current>>
        BY <1>2 DEF Cancel, inner, tasks
    <2>2. \A c \in Calls : handler[c] = "ready" => c # token
        BY <2>1 DEF SharedInv, TokenIsRunners, Unsettled
    <2> QED BY <2>1, <2>2 DEF CallsAgree, CallAgrees
<1>3. CASE Exit
    <2>1. honored' = honored /\ handled' = handled /\ token' = NoCall
        BY <1>3 DEF Exit
    <2> SUFFICES ASSUME NEW c \in Calls
                 PROVE  CallAgrees(c)'
        BY DEF CallsAgree
    <2>2. CASE handler[c] \in InFlight
        <3>1. handler'[c] = "noreply"
            BY <1>3, <2>2 DEF Exit
        <3> QED BY <3>1 DEF CallAgrees, Unsettled
    <2>3. CASE handler[c] \notin InFlight
        <3>1. handler'[c] = handler[c]
            BY <1>3, <2>3 DEF Exit
        <3>2. engine[c] \notin LiveEngine
            BY <2>3 DEF SharedInv, EngineIsDrained, InFlight, Unsettled
        <3>3. engine'[c] = engine[c]
            BY <1>3, <3>2 DEF Exit
        <3> QED BY <2>1, <2>3, <3>1, <3>3, NoCallAssumption
                DEF CallsAgree, CallAgrees, InFlight, Unsettled
    <2> QED BY <2>2, <2>3
<1> QED BY <1>1, <1>2, <1>3 DEF MainStep

LEMMA CallsHandler ==
    ASSUME TypeOK, SharedInv, CallsAgree, NEW c \in Calls,
           RejectJson(c) \/ RejectOverlap(c) \/ Accept(c) \/ HandlerStep(c)
    PROVE  CallsAgree'
<1> USE DEF CallsAgree, CallAgrees, Unsettled
<1>1. handler \in [Calls -> HandlerPCs] /\ engine \in [Calls -> EngineStates]
      /\ handled \in [Calls -> 0..NSteps]
    BY DEF TypeOK
<1>2. Up => \A d \in Calls : handler[d] \in Unsettled => token = d
    BY DEF SharedInv, TokenIsRunners
<1>3. CASE RejectJson(c) \/ RejectOverlap(c)
    BY <1>1, <1>3 DEF RejectJson, RejectOverlap, inner, tasks
<1>4. CASE Accept(c)
    <2>1. \A d \in Calls : handler[d] \notin Unsettled
        BY <1>2, <1>4, NoCallAssumption DEF Accept, SharedInv, InnerAgrees
    <2>2. /\ handler' = [handler EXCEPT ![c] = "fetch"] /\ handler[c] = "ready"
          /\ token' = c /\ current'[2] = 0
          /\ UNCHANGED <<engine, handled, honored>>
        BY <1>4 DEF Accept, NoStep, tasks
    <2> QED BY <1>1, <2>1, <2>2
<1>5. CASE Spawn(c)
    BY <1>1, <1>5 DEF Spawn, LiveEngine, inner
<1>6. CASE Drain(c)
    <2>1. /\ handled' = [handled EXCEPT ![c] = handled[c] + 1]
          /\ current' = <<c, handled'[c]>> /\ handler[c] = "drain"
          /\ UNCHANGED <<handler, engine, token, honored>>
        BY <1>6 DEF Drain, tasks
    <2>2. \A d \in Calls : d # c => handler[d] \notin Unsettled
        BY <1>2, <1>6 DEF Drain
    <2> QED BY <1>1, <2>1, <2>2
<1>7. CASE Join(c)
    BY <1>1, <1>7 DEF Join, LiveEngine, inner, tasks
<1>8. CASE Settle(c)
    <2>1. /\ handler' = [handler EXCEPT ![c] = "complete"] /\ token' = NoCall
          /\ UNCHANGED <<engine, handled, honored, current>>
        BY <1>8 DEF Settle, tasks
    <2> QED BY <1>1, <2>1, NoCallAssumption
<1>9. CASE Complete(c)
    BY <1>1, <1>9 DEF Complete, inner, tasks
<1> QED BY <1>3, <1>4, <1>5, <1>6, <1>7, <1>8, <1>9 DEF HandlerStep

LEMMA CallsEngine ==
    ASSUME TypeOK, SharedInv, CallsAgree, NEW c \in Calls,
           EmitStep(c) \/ EngineEnds(c) \/ ReadersEnd(c)
    PROVE  CallsAgree'
<1>1. engine \in [Calls -> EngineStates]
    BY DEF TypeOK
<1>2. CASE ReadersEnd(c)
    BY <1>2, CallsStutter DEF ReadersEnd, inner
<1>3. CASE EmitStep(c) \/ EngineEnds(c)
    <2>1. UNCHANGED <<handler, handled, token, honored, current>>
        BY <1>3 DEF EmitStep, EngineEnds, EngineFails, EngineSucceeds, EnginePanics, inner
    <2>2. engine[c] \in LiveEngine
        BY <1>3 DEF EmitStep, EngineEnds, EngineFails, EngineSucceeds, EnginePanics, LiveEngine
    <2>3. handler[c] = "drain"
        BY <2>2 DEF SharedInv, EngineIsDrained
    <2>4. \E s \in LiveEngine \cup {"ok", "failed", "panicked"} :
             engine' = [engine EXCEPT ![c] = s]
        BY <1>1, <1>3 DEF EmitStep, EngineEnds, EngineFails, EngineSucceeds, EnginePanics,
                          LiveEngine
    <2> QED BY <1>1, <2>1, <2>3, <2>4 DEF CallsAgree, CallAgrees, Unsettled
<1> QED BY <1>2, <1>3

LEMMA CallsNext ==
    ASSUME TypeOK, SharedInv, CallsAgree, [Next]_vars
    PROVE  CallsAgree'
<1>1. CASE UNCHANGED vars
    BY <1>1, CallsStutter DEF vars, inner, tasks
<1>2. CASE Activate \/ MainStep \/ SleepElapses \/ Terminate \/ Cancel
    BY <1>2, CallsProcess
<1>3. ASSUME NEW c \in Calls,
             RejectJson(c) \/ RejectOverlap(c) \/ Accept(c) \/ HandlerStep(c)
      PROVE  CallsAgree'
    BY <1>3, CallsHandler
<1>4. ASSUME NEW c \in Calls, EmitStep(c) \/ EngineEnds(c) \/ ReadersEnd(c)
      PROVE  CallsAgree'
    BY <1>4, CallsEngine
<1>5. ASSUME NEW p \in Probes, ProbeStep(p)
      PROVE  CallsAgree'
    BY <1>5, CallsStutter DEF ProbeStep, ProbeCheck, DetectStarts, DetectEnds,
                              DetectTimesOut, ProbeAnswers, inner, tasks
<1> QED BY <1>1, <1>2, <1>3, <1>4, <1>5 DEF Next, ProbeStep

-----------------------------------------------------------------------------
(* The mapping.                                                            *)

\* While a call is served, Inner holds its token.
LEMMA ServingIsToken == SharedInv => Serving = token
BY DEF SharedInv, InnerAgrees, GoneIsFresh, Serving

Moves == Promise!Next \/ UNCHANGED Promise!serviceVars

LEMMA MapStutters ==
    ASSUME UNCHANGED <<Serving, Stage, Serving \in honored, current>>,
           \A c \in Calls : Answer(c)' = Answer(c)
    PROVE  Moves
BY DEF Moves, Promise!serviceVars

\* A step that leaves Inner, the handlers and the engines alone.
LEMMA MapIdle ==
    ASSUME SharedInv, SharedInv',
           UNCHANGED <<token, current, handler, engine, honored>>
    PROVE  Moves
<1>1. Serving = token /\ Serving' = token'
    BY ServingIsToken DEF SharedInv, InnerAgrees, GoneIsFresh, Serving
<1>2. Stage' = Stage
    BY <1>1 DEF Stage
<1>3. \A c \in Calls : Answer(c)' = Answer(c)
    BY DEF Answer
<1> QED BY <1>1, <1>2, <1>3, MapStutters

LEMMA AnswerMoves ==
    ASSUME NEW c \in Calls, \A d \in Calls \ {c} : Answer(d)' = Answer(d)
    PROVE  [d \in Calls |-> Answer(d)]'
              = [[d \in Calls |-> Answer(d)] EXCEPT ![c] = Answer(c)']
OBVIOUS

\* The steps of main, and Cancel().
LEMMA MapProcess ==
    ASSUME TypeOK, SharedInv, SharedInv', CallsAgree,
           Activate \/ MainStep \/ SleepElapses \/ Terminate \/ Cancel
    PROVE  Moves
<1>1. Serving = token /\ Serving' = token'
    BY ServingIsToken DEF SharedInv, InnerAgrees, GoneIsFresh, Serving
<1>2. CASE Activate \/ Look \/ Wake \/ SleepElapses \/ Terminate
    BY <1>2, MapIdle DEF Activate, Look, Wake, SleepElapses, Terminate, inner, tasks
<1>3. CASE Cancel
    <2>1. /\ token # NoCall /\ honored' = honored \cup {token}
          /\ UNCHANGED <<token, current, handler, engine>>
        BY <1>3 DEF Cancel, inner, tasks
    <2>2. Stage' = Stage
        BY <1>1, <2>1 DEF Stage
    <2>3. [c \in Calls |-> Answer(c)]' = [c \in Calls |-> Answer(c)]
        BY <2>1 DEF Answer
    <2>4. (Serving \in honored)' = TRUE
        BY <1>1, <2>1
    <2>5. Promise!Cancel
        BY <1>1, <2>1, <2>2, <2>3, <2>4 DEF Promise!Cancel
    <2> QED BY <2>5 DEF Moves, Promise!Next
<1>4. CASE Exit
    <2>1. token' = NoCall /\ current' = NoStep /\ honored' = honored
        BY <1>4 DEF Exit
    <2>2. Serving' = NoCall /\ Stage' = "idle" /\ current'[2] = 0
        BY <1>1, <2>1 DEF Stage, NoStep
    <2>3. (Serving \in honored)' = FALSE
        BY <2>1, <2>2, NoCallAssumption DEF TypeOK
    <2>4. ASSUME NEW c \in Calls
          PROVE  Answer(c)' = IF Answer(c) \in Promise!Unanswered THEN "error" ELSE Answer(c)
        <3>1. CASE handler[c] \in InFlight
            <4>1. handler'[c] = "noreply"
                BY <1>4, <3>1 DEF Exit
            <4>2. Answer(c) \in Promise!Unanswered
                BY <3>1 DEF Answer, InFlight, Unsettled, Promise!Unanswered
            <4> QED BY <4>1, <4>2 DEF Answer, Unsettled
        <3>2. CASE handler[c] \notin InFlight
            <4>1. handler'[c] = handler[c]
                BY <1>4, <3>2 DEF Exit
            <4>2. Answer(c)' = Answer(c) /\ Answer(c) \notin Promise!Unanswered
                BY <3>2, <4>1 DEF Answer, InFlight, Unsettled, Promise!Unanswered
            <4> QED BY <4>2
        <3> QED BY <3>1, <3>2
    <2>5. [c \in Calls |-> Answer(c)]'
             = [c \in Calls |-> IF [d \in Calls |-> Answer(d)][c] \in Promise!Unanswered
                                THEN "error" ELSE [d \in Calls |-> Answer(d)][c]]
        BY <2>4
    <2>6. Promise!Die
        BY <2>2, <2>3, <2>5 DEF Promise!Die
    <2> QED BY <2>6 DEF Moves, Promise!Next
<1> QED BY <1>2, <1>3, <1>4 DEF MainStep

\* A call that is refused, or accepted.
LEMMA MapRequest ==
    ASSUME TypeOK, SharedInv, SharedInv', CallsAgree, NEW c \in Calls,
           RejectJson(c) \/ RejectOverlap(c) \/ Accept(c)
    PROVE  Moves
<1>1. Serving = token /\ Serving' = token'
    BY ServingIsToken DEF SharedInv, InnerAgrees, GoneIsFresh, Serving
<1>2. handler \in [Calls -> HandlerPCs] /\ handler[c] = "ready" /\ Answer(c) = "none"
    BY DEF TypeOK, RejectJson, RejectOverlap, Accept, Answer, Unsettled
<1>3. \A d \in Calls \ {c} : Answer(d)' = Answer(d)
    BY <1>2 DEF Answer, RejectJson, RejectOverlap, Accept, tasks
<1>4. [d \in Calls |-> Answer(d)]'
         = [[d \in Calls |-> Answer(d)] EXCEPT ![c] = Answer(c)']
    BY <1>3, AnswerMoves
<1>5. CASE RejectJson(c) \/ RejectOverlap(c)
    <2>1. UNCHANGED <<token, current, engine, honored>>
        BY <1>5 DEF RejectJson, RejectOverlap, inner, tasks
    <2>2. Answer(c)' = "error"
        BY <1>2, <1>5 DEF RejectJson, RejectOverlap, Answer, Unsettled
    <2>3. Stage' = Stage
        BY <1>1, <2>1 DEF Stage
    <2>4. Promise!Reject(c)
        BY <1>1, <1>2, <1>4, <2>1, <2>2, <2>3 DEF Promise!Reject
    <2> QED BY <2>4 DEF Moves, Promise!Next
<1>6. CASE Accept(c)
    <2>1. /\ token' = c /\ current' = NoStep /\ engine' = engine /\ honored' = honored
          /\ token = NoCall /\ handler'[c] = "fetch"
        BY <1>2, <1>6 DEF Accept, tasks, SharedInv, InnerAgrees
    <2>2. engine[c] = "none" /\ c \notin honored
        BY <1>2 DEF CallsAgree, CallAgrees
    <2>3. Stage' = "working" /\ current'[2] = 0 /\ (Serving \in honored)' = FALSE
        BY <1>1, <2>1, <2>2, NoCallAssumption DEF Stage, NoStep
    <2>4. Answer(c)' = "pending"
        BY <2>1 DEF Answer, Unsettled
    <2>5. Promise!Accept(c)
        BY <1>1, <1>2, <1>4, <2>1, <2>3, <2>4 DEF Promise!Accept
    <2> QED BY <2>5 DEF Moves, Promise!Next
<1> QED BY <1>5, <1>6

\* The handler of an accepted call.
LEMMA MapHandler ==
    ASSUME TypeOK, SharedInv, SharedInv', CallsAgree, NEW c \in Calls, HandlerStep(c)
    PROVE  Moves
<1>1. Serving = token /\ Serving' = token'
    BY ServingIsToken DEF SharedInv, InnerAgrees, GoneIsFresh, Serving
<1>2. handler \in [Calls -> HandlerPCs] /\ engine \in [Calls -> EngineStates]
      /\ handled \in [Calls -> 0..NSteps] /\ NSteps \in Nat
    BY StepsAssumption DEF TypeOK
<1>3. handler[c] \in Unsettled /\ Up => token = c /\ c # NoCall
    BY NoCallAssumption DEF SharedInv, TokenIsRunners
<1>4. CASE Spawn(c)
    <2>1. /\ UNCHANGED <<token, current, honored>> /\ token = c
          /\ handler' = [handler EXCEPT ![c] = "drain"] /\ handler[c] = "fetch"
          /\ engine' = [engine EXCEPT ![c] = "working"]
        BY <1>3, <1>4 DEF Spawn, inner, Unsettled
    <2>2. engine[c] = "none"
        BY <2>1 DEF CallsAgree, CallAgrees
    <2>3. Stage' = Stage
        BY <1>1, <1>2, <2>1, <2>2 DEF Stage
    <2>4. \A d \in Calls : Answer(d)' = Answer(d)
        BY <1>2, <2>1 DEF Answer, Unsettled
    <2> QED BY <1>1, <2>1, <2>3, <2>4, MapStutters
<1>5. CASE Drain(c)
    <2>1. /\ UNCHANGED <<token, honored, handler, engine>> /\ token = c /\ c # NoCall
          /\ current'[2] = handled[c] + 1 /\ current[2] = handled[c]
        BY <1>2, <1>3, <1>5 DEF Drain, tasks, Unsettled, CallsAgree, CallAgrees
    <2>2. handled[c] + 1 <= NSteps
        BY <1>2, <1>5 DEF Drain, Pending, TypeOK
    <2>3. Stage' = Stage
        BY <1>1, <2>1 DEF Stage
    <2>4. [d \in Calls |-> Answer(d)]' = [d \in Calls |-> Answer(d)]
        BY <2>1 DEF Answer
    <2>5. current[2] < NSteps /\ current'[2] = current[2] + 1
        BY <1>2, <2>1, <2>2
    <2>6. Promise!Announce
        BY <1>1, <2>1, <2>3, <2>4, <2>5 DEF Promise!Announce
    <2> QED BY <2>6 DEF Moves, Promise!Next
<1>6. CASE Join(c)
    <2>1. /\ UNCHANGED <<token, current, honored, engine>> /\ token = c /\ c # NoCall
          /\ handler[c] = "drain"
          /\ handler' = [handler EXCEPT ![c] = IF engine[c] = "panicked" THEN "panic"
                                               ELSE "settle"]
        BY <1>3, <1>6 DEF Join, inner, tasks, Unsettled
    <2>2. Stage' = Stage
        BY <1>1, <2>1 DEF Stage
    <2>3. \A d \in Calls \ {c} : Answer(d)' = Answer(d)
        BY <1>2, <2>1 DEF Answer
    <2>4. Answer(c) = "pending"
        BY <2>1 DEF Answer, Unsettled
    <2>5. CASE engine[c] # "panicked"
        <3>1. Answer(c)' = "pending"
            BY <1>2, <2>1, <2>5 DEF Answer, Unsettled
        <3> QED BY <1>1, <2>1, <2>2, <2>3, <2>4, <3>1, MapStutters
    <2>6. CASE engine[c] = "panicked"
        <3>1. Answer(c)' = "error"
            BY <1>2, <2>1, <2>6 DEF Answer, Unsettled
        <3>2. Stage = "panicked"
            BY <1>1, <2>1, <2>6 DEF Stage
        <3>3. [d \in Calls |-> Answer(d)]'
                 = [[d \in Calls |-> Answer(d)] EXCEPT ![c] = "error"]
            BY <2>3, <3>1, AnswerMoves
        <3>4. Promise!Reply(c)
            BY <1>1, <2>1, <2>2, <2>4, <3>2, <3>3 DEF Promise!Reply
        <3> QED BY <3>4 DEF Moves, Promise!Next, Promise!Work
    <2> QED BY <2>5, <2>6
<1>7. CASE Settle(c)
    <2>1. /\ UNCHANGED <<current, honored, engine>> /\ token = c /\ token' = NoCall
          /\ handler[c] = "settle" /\ c # NoCall
          /\ handler' = [handler EXCEPT ![c] = "complete"]
        BY <1>3, <1>7 DEF Settle, tasks, Unsettled
    <2>2. engine[c] \in {"ok", "failed"}
        BY <2>1 DEF CallsAgree, CallAgrees
    <2>3. Stage = (IF engine[c] = "ok" THEN "succeeded" ELSE "failed") /\ Stage' = "idle"
        BY <1>1, <2>1, <2>2 DEF Stage
    <2>4. Answer(c)' = IF Stage = "succeeded" THEN "succeeding" ELSE "failing"
        BY <1>2, <2>1, <2>3 DEF Answer, Unsettled
    <2>5. \A d \in Calls \ {c} : Answer(d)' = Answer(d)
        BY <1>2, <2>1 DEF Answer
    <2>6. [d \in Calls |-> Answer(d)]'
             = [[d \in Calls |-> Answer(d)] EXCEPT
                   ![c] = IF Stage = "succeeded" THEN "succeeding" ELSE "failing"]
        BY <2>4, <2>5, AnswerMoves
    <2>7. (Serving \in honored)' = FALSE
        BY <1>1, <2>1, NoCallAssumption DEF TypeOK
    <2>8. Promise!Finish
        BY <1>1, <2>1, <2>3, <2>6, <2>7 DEF Promise!Finish
    <2> QED BY <2>8 DEF Moves, Promise!Next, Promise!Work
<1>8. CASE Complete(c)
    <2>1. /\ UNCHANGED <<token, current, honored, engine>> /\ handler[c] = "complete"
          /\ handler' = [handler EXCEPT ![c] = IF engine[c] = "ok" THEN "ok" ELSE "error"]
        BY <1>8 DEF Complete, inner, tasks
    <2>2. Stage' = Stage
        BY <1>1, <2>1 DEF Stage
    <2>3. \A d \in Calls \ {c} : Answer(d)' = Answer(d)
        BY <1>2, <2>1 DEF Answer
    <2>4. \/ Answer(c) = "succeeding" /\ Answer(c)' = "ok"
          \/ Answer(c) = "failing" /\ Answer(c)' = "error"
        BY <1>2, <2>1 DEF Answer, Unsettled
    <2>5. [d \in Calls |-> Answer(d)]'
             = [[d \in Calls |-> Answer(d)] EXCEPT ![c] = Answer(c)']
        BY <2>3, AnswerMoves
    <2>6. Promise!Reply(c)
        BY <1>1, <2>1, <2>2, <2>4, <2>5 DEF Promise!Reply
    <2> QED BY <2>6 DEF Moves, Promise!Next, Promise!Work
<1> QED BY <1>4, <1>5, <1>6, <1>7, <1>8 DEF HandlerStep

\* The engine of an accepted call, which is the one served.
LEMMA MapEngine ==
    ASSUME TypeOK, SharedInv, SharedInv', CallsAgree, NEW c \in Calls,
           EmitStep(c) \/ EngineEnds(c) \/ ReadersEnd(c)
    PROVE  Moves
<1>1. Serving = token /\ Serving' = token'
    BY ServingIsToken DEF SharedInv, InnerAgrees, GoneIsFresh, Serving
<1>2. CASE ReadersEnd(c)
    BY <1>2, MapIdle DEF ReadersEnd, inner
<1>3. CASE EmitStep(c) \/ EngineEnds(c)
    <2>1. UNCHANGED <<token, current, handler, honored>>
        BY <1>3 DEF EmitStep, EngineEnds, EngineFails, EngineSucceeds, EnginePanics, inner
    <2>2. engine[c] \in LiveEngine
        BY <1>3 DEF EmitStep, EngineEnds, EngineFails, EngineSucceeds, EnginePanics, LiveEngine
    <2>3. handler[c] = "drain" /\ token = c /\ c # NoCall
        BY <2>2, NoCallAssumption DEF SharedInv, EngineIsDrained, TokenIsRunners, Unsettled
    <2>4. engine \in [Calls -> EngineStates]
        BY DEF TypeOK
    <2>5. \A d \in Calls \ {c} : engine'[d] = engine[d]
        BY <1>3, <2>4 DEF EmitStep, EngineEnds, EngineFails, EngineSucceeds, EnginePanics
    <2>6. [d \in Calls |-> Answer(d)]' = [d \in Calls |-> Answer(d)]
        BY <2>1, <2>3, <2>5 DEF Answer, Unsettled
    <2>7. Stage = CASE engine[c] = "finishing" -> "committed" [] OTHER -> "working"
        BY <1>1, <2>2, <2>3 DEF Stage, LiveEngine
    <2>8. \/ engine'[c] = engine[c]
          \/ engine[c] = "working" /\ engine'[c] = "finishing" /\ c \notin honored
          \/ engine[c] = "working" /\ engine'[c] = "failed"
          \/ engine[c] = "finishing" /\ engine'[c] = "ok"
          \/ engine'[c] = "panicked"
        <3>1. CASE EmitStep(c)
            <4>1. engine'[c] = IF emitted'[c] = NSteps THEN "finishing" ELSE engine[c]
                BY <2>4, <3>1 DEF EmitStep
            <4>2. emitted'[c] = emitted[c] + 1 /\ engine[c] = "working"
                BY <3>1 DEF EmitStep, TypeOK
            <4> QED BY <3>1, <4>1, <4>2 DEF EmitStep
        <3>2. CASE EngineFails(c)
            BY <2>4, <3>2 DEF EngineFails
        <3>3. CASE EngineSucceeds(c) \/ EnginePanics(c)
            BY <2>4, <3>3 DEF EngineSucceeds, EnginePanics
        <3> QED BY <1>3, <3>1, <3>2, <3>3 DEF EngineEnds
    <2>9. Stage' = CASE engine'[c] = "finishing" -> "committed"
                     [] engine'[c] = "ok" -> "succeeded"
                     [] engine'[c] \in {"failed", "panicked"} -> engine'[c]
                     [] OTHER -> "working"
        BY <1>1, <2>1, <2>3 DEF Stage
    <2>10. (Serving \in honored)' = (Serving \in honored)
        BY <1>1, <2>1
    <2>11. CASE engine'[c] = engine[c]
        <3>1. Stage' = Stage
            BY <2>2, <2>7, <2>9, <2>11 DEF LiveEngine
        <3> QED BY <1>1, <2>1, <2>6, <2>10, <3>1 DEF Moves, Promise!serviceVars
    <2>12. CASE engine[c] = "working" /\ engine'[c] = "finishing" /\ c \notin honored
        <3>1. Promise!Commit
            BY <1>1, <2>1, <2>3, <2>6, <2>7, <2>9, <2>10, <2>12
               DEF Promise!Commit, Promise!GoTo
        <3> QED BY <3>1 DEF Moves, Promise!Next, Promise!Work
    <2>13. CASE engine[c] = "working" /\ engine'[c] = "failed"
        <3>1. Promise!Fail
            BY <1>1, <2>1, <2>6, <2>7, <2>9, <2>10, <2>13 DEF Promise!Fail, Promise!GoTo
        <3> QED BY <3>1 DEF Moves, Promise!Next, Promise!Work
    <2>14. CASE engine[c] = "finishing" /\ engine'[c] = "ok"
        <3>1. Promise!Succeed
            BY <1>1, <2>1, <2>6, <2>7, <2>9, <2>10, <2>14 DEF Promise!Succeed, Promise!GoTo
        <3> QED BY <3>1 DEF Moves, Promise!Next, Promise!Work
    <2>15. CASE engine'[c] = "panicked"
        <3>1. Stage \in {"working", "committed"} /\ Stage' = "panicked"
            BY <2>7, <2>9, <2>15
        <3>2. Promise!Panic
            BY <1>1, <2>1, <2>6, <2>10, <3>1 DEF Promise!Panic, Promise!GoTo
        <3> QED BY <3>2 DEF Moves, Promise!Next, Promise!Work
    <2> QED BY <2>8, <2>11, <2>12, <2>13, <2>14, <2>15
<1> QED BY <1>2, <1>3

LEMMA MapNext ==
    ASSUME TypeOK, SharedInv, SharedInv', CallsAgree, [Next]_vars
    PROVE  Moves
<1>1. CASE UNCHANGED vars
    BY <1>1, MapIdle DEF vars, inner, tasks
<1>2. CASE Activate \/ MainStep \/ SleepElapses \/ Terminate \/ Cancel
    BY <1>2, MapProcess
<1>3. ASSUME NEW c \in Calls, RejectJson(c) \/ RejectOverlap(c) \/ Accept(c)
      PROVE  Moves
    BY <1>3, MapRequest
<1>4. ASSUME NEW c \in Calls, HandlerStep(c)
      PROVE  Moves
    BY <1>4, MapHandler
<1>5. ASSUME NEW c \in Calls, EmitStep(c) \/ EngineEnds(c) \/ ReadersEnd(c)
      PROVE  Moves
    BY <1>5, MapEngine
<1>6. ASSUME NEW p \in Probes, ProbeStep(p)
      PROVE  Moves
    BY <1>6, MapIdle DEF ProbeStep, ProbeCheck, DetectStarts, DetectEnds,
                         DetectTimesOut, ProbeAnswers, inner, tasks
<1> QED BY <1>1, <1>2, <1>3, <1>4, <1>5, <1>6 DEF Next, ProbeStep

LEMMA MapInit == Init => Promise!Init
<1> SUFFICES ASSUME Init
             PROVE  Promise!Init
    OBVIOUS
<1>1. Serving = NoCall /\ Stage = "idle" /\ current[2] = 0
    BY DEF Init, Serving, Stage, Up, NoStep
<1>2. (Serving \in honored) = FALSE
    BY DEF Init
<1>3. [c \in Calls |-> Answer(c)] = [c \in Calls |-> "none"]
    BY DEF Init, Answer, Unsettled
<1> QED BY <1>1, <1>2, <1>3 DEF Promise!Init

\* The daemon keeps every promise its clients rely on: installs are exclusive, one
\* that is accepted can be cancelled until it commits and is answered by how it
\* ended once the service is free, and a death answers everybody (service.rs).
THEOREM DaemonIsService == Spec => ImplementsService
<1>1. Spec => [](TypeOK /\ SharedInv /\ CallsAgree)
    <2>1. Init => TypeOK /\ SharedInv /\ CallsAgree
        BY TypeInit, SharedInit, CallsInit
    <2>2. TypeOK /\ SharedInv /\ CallsAgree /\ [Next]_vars
             => (TypeOK /\ SharedInv /\ CallsAgree)'
        BY TypeNext, SharedNext, CallsNext
    <2> QED BY <2>1, <2>2, PTL DEF Spec
<1>2. TypeOK /\ SharedInv /\ SharedInv' /\ CallsAgree /\ [Next]_vars
         => [Promise!Next]_(Promise!serviceVars)
    BY MapNext DEF Moves
<1> QED BY <1>1, <1>2, MapInit, PTL DEF Spec, ImplementsService, Promise!Spec

=============================================================================
