--------------------------- MODULE SessionProofs ---------------------------
(***************************************************************************)
(* Proofs about Session.tla, for any number of sessions, other clients,    *)
(* steps and signals: its type invariant and its safety properties.        *)
(***************************************************************************)
EXTENDS Session, SequenceTheorems, TLAPS

-----------------------------------------------------------------------------
(* Channels.                                                               *)

EndsOf(s) == {k \in DOMAIN s : s[k].kind = "end"}

LEMMA EventTyped ==
    ASSUME NEW e \in Events
    PROVE  /\ e.kind = "step" => e.n \in 1..NSteps
           /\ e.kind # "step" => e.kind = "end" /\ e.n \in {0, 1}
BY DEF Events

LEMMA EndTyped == ASSUME NEW n \in {0, 1} PROVE Event("end", n) \in Events
BY DEF Events, Event

LEMMA StepTyped == ASSUME NEW n \in 1..NSteps PROVE Event("step", n) \in Events
BY DEF Events, Event

LEMMA SendStep ==
    ASSUME NEW s \in Seq(Events), NEW n \in 1..NSteps
    PROVE  /\ Append(s, Event("step", n)) \in Seq(Events)
           /\ EndsOf(Append(s, Event("step", n))) = EndsOf(s)
           /\ \A k \in EndsOf(s) : Append(s, Event("step", n))[k] = s[k]
<1>1. Event("step", n) \in Events
    BY StepTyped
<1>2. DOMAIN s = 1..Len(s) /\ Len(s) \in Nat
    OBVIOUS
<1>3. /\ DOMAIN Append(s, Event("step", n)) = 1..Len(s) + 1
      /\ \A k \in 1..Len(s) : Append(s, Event("step", n))[k] = s[k]
      /\ Append(s, Event("step", n))[Len(s) + 1].kind = "step"
    BY <1>1 DEF Event
<1> QED BY <1>1, <1>2, <1>3 DEF EndsOf

LEMMA SendEnd ==
    ASSUME NEW s \in Seq(Events), NEW n \in {0, 1}, EndsOf(s) = {}
    PROVE  /\ Append(s, Event("end", n)) \in Seq(Events)
           /\ EndsOf(Append(s, Event("end", n))) = {Len(s) + 1}
           /\ Append(s, Event("end", n))[Len(s) + 1] = Event("end", n)
<1>1. Event("end", n) \in Events
    BY EndTyped
<1>2. DOMAIN s = 1..Len(s) /\ Len(s) \in Nat
    OBVIOUS
<1>3. /\ DOMAIN Append(s, Event("end", n)) = 1..Len(s) + 1
      /\ \A k \in 1..Len(s) : Append(s, Event("end", n))[k] = s[k]
      /\ Append(s, Event("end", n))[Len(s) + 1] = Event("end", n)
    BY <1>1
<1>4. Event("end", n).kind = "end"
    BY DEF Event
<1> QED BY <1>1, <1>2, <1>3, <1>4 DEF EndsOf

\* Taking an event out: the ends that are left move up by one.
LEMMA TakeEvent ==
    ASSUME NEW s \in Seq(Events), s # <<>>
    PROVE  /\ Head(s) \in Events /\ Head(s) = s[1] /\ Tail(s) \in Seq(Events)
           /\ Head(s).kind = "end" <=> 1 \in EndsOf(s)
           /\ EndsOf(Tail(s)) = {k - 1 : k \in EndsOf(s) \ {1}}
           /\ \A k \in EndsOf(Tail(s)) : k + 1 \in EndsOf(s) /\ Tail(s)[k] = s[k + 1]
<1>1. Len(s) \in Nat \ {0} /\ DOMAIN s = 1..Len(s) /\ Head(s) = s[1] /\ Tail(s) \in Seq(Events)
    OBVIOUS
<1>2. DOMAIN Tail(s) = 1..(Len(s) - 1) /\ \A k \in 1..(Len(s) - 1) : Tail(s)[k] = s[k + 1]
    BY <1>1
<1>3. Head(s) \in Events
    BY <1>1
<1>4. ASSUME NEW k \in EndsOf(Tail(s))
      PROVE  k + 1 \in EndsOf(s) /\ Tail(s)[k] = s[k + 1] /\ k \in Nat /\ k >= 1
    BY <1>1, <1>2, <1>4 DEF EndsOf
<1>5. ASSUME NEW k \in EndsOf(s), k # 1
      PROVE  k - 1 \in EndsOf(Tail(s))
    BY <1>1, <1>2, <1>5 DEF EndsOf
<1>6. EndsOf(Tail(s)) \subseteq {k - 1 : k \in EndsOf(s) \ {1}}
    <2> SUFFICES ASSUME NEW k \in EndsOf(Tail(s))
                 PROVE  \E j \in EndsOf(s) \ {1} : k = j - 1
        OBVIOUS
    <2>1. k + 1 \in EndsOf(s) \ {1} /\ k = (k + 1) - 1
        BY <1>4
    <2> QED BY <2>1
<1>7. {k - 1 : k \in EndsOf(s) \ {1}} \subseteq EndsOf(Tail(s))
    BY <1>5
<1>8. Head(s).kind = "end" <=> 1 \in EndsOf(s)
    BY <1>1 DEF EndsOf
<1> QED BY <1>1, <1>3, <1>4, <1>6, <1>7, <1>8

\* No end, or the only one.
One(E) == \E k \in E : E = {k}

LEMMA TakeStep ==
    ASSUME NEW s \in Seq(Events), s # <<>>, Head(s).kind # "end"
    PROVE  /\ EndsOf(s) = {} => EndsOf(Tail(s)) = {}
           /\ One(EndsOf(s)) => One(EndsOf(Tail(s)))
<1>1. 1 \notin EndsOf(s) /\ EndsOf(Tail(s)) = {k - 1 : k \in EndsOf(s) \ {1}}
    BY TakeEvent
<1>2. EndsOf(Tail(s)) = {k - 1 : k \in EndsOf(s)}
    BY <1>1
<1>3. ASSUME NEW k \in EndsOf(s), EndsOf(s) = {k}
      PROVE  EndsOf(Tail(s)) = {k - 1}
    BY <1>2, <1>3
<1> QED BY <1>2, <1>3 DEF One

LEMMA TakeEnd ==
    ASSUME NEW s \in Seq(Events), s # <<>>, Head(s).kind = "end", One(EndsOf(s))
    PROVE  EndsOf(Tail(s)) = {}
<1>1. EndsOf(s) = {1}
    BY TakeEvent DEF One
<1> QED BY <1>1, TakeEvent

-----------------------------------------------------------------------------
(* The service's side of the invariant, which holds whatever its clients   *)
(* do.                                                                     *)

ServiceInv ==
    /\ serving = NoCall <=> stage = "idle"
    /\ serving # NoCall => \/ answer[serving] = "pending"
                           \/ answer[serving] = "error" /\ stage = "panicked"
    /\ \A c \in Calls : answer[c] = "pending" => c = serving

ServiceTyped ==
    /\ serving \in Calls \cup {NoCall} /\ stage \in Service!Stages
    /\ cancelled \in BOOLEAN /\ step \in 0..NSteps
    /\ answer \in [Calls -> {"none"} \cup Service!Unanswered \cup Service!Answers]

\* What a step of the service that is not one of the GUI's calls means to the GUI:
\* only a call that is not answered is, and no session comes to be served.
OnItsOwn ==
    /\ \A i \in Sessions :
          \/ answer'[i] = answer[i]
          \/ /\ answer[i] \in Service!Unanswered
             /\ answer'[i] \in Service!Unanswered \cup Service!Answers
    /\ serving' \in Sessions => /\ serving' = serving
                                /\ cancelled => cancelled'
                                /\ stage' = "working" => stage = "working"
                                /\ stage = "panicked" => stage' = "panicked"

LEMMA ServiceWorks ==
    ASSUME ServiceTyped, ServiceInv,
           Service!Announce \/ Service!Work \/ Service!Die \/ Service!Cancel
    PROVE  ServiceTyped' /\ ServiceInv' /\ OnItsOwn
<1> USE DEF ServiceTyped, ServiceInv, OnItsOwn, Service!Stages, Service!Unanswered,
            Service!Answers
<1>1. NoCall \notin Calls /\ NSteps \in Nat /\ Sessions \subseteq Calls
    BY SessionAssumption DEF Calls
<1>2. CASE Service!Announce
    BY <1>1, <1>2 DEF Service!Announce
<1>3. CASE Service!Cancel
    BY <1>1, <1>3 DEF Service!Cancel
<1>4. CASE Service!Die
    <2>1. /\ serving' = NoCall /\ stage' = "idle" /\ cancelled' = FALSE /\ step' = 0
          /\ answer' = [c \in Calls |-> IF answer[c] \in Service!Unanswered THEN "error"
                                        ELSE answer[c]]
        BY <1>4 DEF Service!Die
    <2>2. ServiceTyped'
        <3>1. answer' \in [Calls -> {"none"} \cup Service!Unanswered \cup Service!Answers]
            BY <2>1
        <3>2. step' \in 0..NSteps
            BY <1>1, <2>1
        <3> QED BY <2>1, <3>1, <3>2
    <2>3. \A c \in Calls : answer'[c] = IF answer[c] \in Service!Unanswered THEN "error"
                                         ELSE answer[c]
        BY <2>1
    <2>4. ServiceInv'
        BY <1>1, <2>1, <2>3
    <2>5. OnItsOwn
        BY <1>1, <2>1, <2>3
    <2> QED BY <2>2, <2>4, <2>5
<1>5. CASE Service!Commit \/ Service!Fail \/ Service!Succeed \/ Service!Panic
    BY <1>1, <1>5 DEF Service!Commit, Service!Fail, Service!Succeed, Service!Panic,
                      Service!GoTo
<1>6. CASE Service!Finish
    <2>1. /\ serving' = NoCall /\ stage' = "idle" /\ cancelled' = FALSE /\ step' = step
          /\ \E a \in {"succeeding", "failing"} : answer' = [answer EXCEPT ![serving] = a]
          /\ stage \in {"failed", "succeeded"}
        BY <1>6 DEF Service!Finish
    <2>2. serving # NoCall /\ serving \in Calls /\ answer[serving] = "pending"
        BY <2>1
    <2>3. ServiceTyped'
        BY <1>1, <2>1, <2>2
    <2>4. ServiceInv' /\ OnItsOwn
        BY <1>1, <2>1, <2>2
    <2> QED BY <2>3, <2>4
<1>7. ASSUME NEW c \in Calls, Service!Reply(c)
      PROVE  ServiceTyped' /\ ServiceInv' /\ OnItsOwn
    <2>1. /\ UNCHANGED <<serving, stage, cancelled, step>>
          /\ \E a \in {"ok", "error"} : answer' = [answer EXCEPT ![c] = a]
          /\ answer[c] \in Service!Unanswered
        BY <1>7 DEF Service!Reply
    <2>2. ServiceTyped' /\ OnItsOwn
        BY <1>1, <2>1
    <2>3. ServiceInv'
        BY <1>1, <1>7, <2>1 DEF Service!Reply
    <2> QED BY <2>2, <2>3
<1> QED BY <1>2, <1>3, <1>4, <1>5, <1>6, <1>7 DEF Service!Work

LEMMA ServiceAsked ==
    ASSUME ServiceTyped, ServiceInv, NEW c \in Calls, Service!Accept(c) \/ Service!Reject(c)
    PROVE  /\ ServiceTyped' /\ ServiceInv' /\ answer[c] = "none"
           /\ \A d \in Calls \ {c} : answer'[d] = answer[d]
           /\ \/ serving' = serving /\ stage' = stage /\ cancelled' = cancelled
                 /\ answer'[c] = "error"
              \/ serving = NoCall /\ serving' = c /\ answer'[c] = "pending"
<1> USE DEF ServiceTyped, ServiceInv, Service!Stages, Service!Unanswered, Service!Answers
<1>1. NoCall \notin Calls /\ NSteps \in Nat
    BY SessionAssumption
<1>2. CASE Service!Accept(c)
    <2>1. /\ serving = NoCall /\ serving' = c /\ stage' = "working" /\ cancelled' = FALSE
          /\ step' = 0 /\ answer' = [answer EXCEPT ![c] = "pending"] /\ answer[c] = "none"
        BY <1>2 DEF Service!Accept
    <2>2. ServiceTyped'
        <3>1. answer' \in [Calls -> {"none"} \cup Service!Unanswered \cup Service!Answers]
            BY <2>1
        <3>2. step' \in 0..NSteps
            BY <1>1, <2>1
        <3> QED BY <2>1, <3>1, <3>2
    <2>3. \A d \in Calls : answer[d] # "pending"
        BY <1>1, <2>1
    <2>4. answer'[c] = "pending" /\ \A d \in Calls \ {c} : answer'[d] = answer[d]
        BY <2>1
    <2>5. ServiceInv'
        BY <1>1, <2>1, <2>3, <2>4
    <2> QED BY <2>1, <2>2, <2>4, <2>5
<1>3. CASE Service!Reject(c)
    BY <1>1, <1>3 DEF Service!Reject
<1> QED BY <1>2, <1>3

-----------------------------------------------------------------------------
(* The inductive invariant.                                                *)

\* Nothing is left of a session that has not been started.
Unstarted ==
    \A i \in Sessions : i > session =>
        /\ driver[i] = "none" /\ canceller[i] = "none" /\ clicked[i] = "no"
        /\ answer[i] = "none" /\ EndsOf(chan[i]) = {}

\* A session's call is made once, and its driver waits until it is answered.
Asked ==
    page # "gone" => \A i \in Sessions :
        /\ driver[i] \in {"connecting", "calling"} => answer[i] = "none"
        /\ answer[i] \in Service!Unanswered => driver[i] = "awaiting"

\* EndsOnce, session by session.
Once(i) ==
    IF i = session /\ page = "progress"
    THEN \/ Pending(i) /\ EndsOf(chan[i]) = {}
         \/ ~Pending(i) /\ One(EndsOf(chan[i]))
    ELSE ~Pending(i) /\ EndsOf(chan[i]) = {}

AllOnce ==
    page # "gone" => /\ inFlight <=> page = "progress"
                     /\ \A i \in Sessions : Once(i)

\* The event that ends a session says what its call was answered, for good.
EndsTrue ==
    \A i \in Sessions : \A k \in EndsOf(chan[i]) :
        /\ chan[i][k].n = 1 <=> answer[i] = "ok"
        /\ answer[i] \in {"none"} \cup Service!Answers

\* Later sessions than the one the service is busy with have got nothing from it.
InOrder ==
    serving \in Sessions =>
        \A i \in Sessions : i > serving => answer[i] \in {"none", "error"}

\* A success stays on the Done page, and only it starts the reboot timer.
DonePage ==
    /\ page = "confirm" => session = 0
    /\ page \in {"progress", "done"} => session > 0
    /\ success => page \in {"done", "gone"}
    /\ tick => success /\ page = "done"

\* cancel_tx is the present session's, and its forwarder waits for it.
CancelReady ==
    /\ cancelTx => session > 0 /\ clicked[session] = "no"
    /\ page = "gone" => ~cancelTx /\ \A i \in Sessions : clicked[i] = "no"
    /\ \A i \in Sessions : clicked[i] = "running" => answer[i] # "none"
    /\ page # "gone" /\ session > 0 /\ clicked[session] = "no"
       /\ (driver[session] = "calling" \/ answer[session] # "none")
          => canceller[session] = "waiting"

SessionInv ==
    /\ TypeOK /\ ServiceInv /\ Unstarted /\ Asked /\ AllOnce /\ EndsTrue /\ ResultIsOwn
    /\ InOrder /\ NeverLeavesInstall /\ DonePage /\ CancelReady /\ CancelReaches

LEMMA AllOnceIsEndsOnce == AllOnce => EndsOnce
BY DEF AllOnce, Once, EndsOnce, Ends, EndsOf, One

LEMMA SessionInit == Init => TypeOK /\ SessionInv
<1> SUFFICES ASSUME Init
             PROVE  TypeOK /\ SessionInv
    OBVIOUS
<1> USE DEF Init, Service!Init, Each
<1>1. MaxSessions \in Nat \ {0} /\ NSteps \in Nat /\ Countdown \in Nat \ {0} /\ MaxEvents \in Nat
      /\ NoCall \notin Calls /\ Sessions \subseteq Calls /\ Sessions \subseteq Nat \ {0}
    BY SessionAssumption DEF Sessions, Calls
<1>2. <<>> \in Seq(1..NSteps) /\ <<>> \in Seq(Events) /\ EndsOf(<<>>) = {}
    BY DEF EndsOf
<1>3. /\ answer \in [Calls -> {"none"} \cup Service!Unanswered \cup Service!Answers]
      /\ stage \in Service!Stages
    BY DEF Service!Stages
<1>4. TypeOK
    <2>1. /\ step \in 0..NSteps /\ session \in 0..MaxSessions /\ shown \in 0..NSteps
          /\ countdown \in -1..Countdown /\ reboots \in Nat /\ events \in 0..MaxEvents
        BY <1>1
    <2>2. stepQ \in [Sessions -> Seq(1..NSteps)] /\ chan \in [Sessions -> Seq(Events)]
        BY <1>2
    <2>3. /\ driver \in [Sessions -> {"none", "connecting", "calling", "awaiting",
                                      "closing", "over"}]
          /\ canceller \in [Sessions -> {"none", "waiting", "calling", "over"}]
          /\ clicked \in [Sessions -> {"no", "early", "running"}]
        OBVIOUS
    <2> QED BY <1>3, <2>1, <2>2, <2>3 DEF TypeOK
<1>5. ServiceInv /\ Unstarted /\ Asked /\ AllOnce /\ EndsTrue
    BY <1>1, <1>2 DEF ServiceInv, Unstarted, Asked, AllOnce, Once, Pending, EndsTrue,
                      Service!Unanswered
<1>6. ResultIsOwn /\ InOrder /\ NeverLeavesInstall /\ DonePage
    BY <1>1 DEF ResultIsOwn, InOrder, NeverLeavesInstall, DonePage
<1>7. CancelReady /\ CancelReaches
    BY <1>1 DEF CancelReady, CancelReaches
<1> QED BY <1>4, <1>5, <1>6, <1>7 DEF SessionInv

-----------------------------------------------------------------------------
(* Steps that end nothing.                                                 *)

\* Channels may have other steps in them, and move on by steps.
EndsKept ==
    \A i \in Sessions :
        /\ EndsOf(chan[i]) = {} => EndsOf(chan'[i]) = {}
        /\ One(EndsOf(chan[i])) => One(EndsOf(chan'[i]))
        /\ \A k \in EndsOf(chan'[i]) :
              \E j \in EndsOf(chan[i]) : chan'[i][k] = chan[i][j]

LEMMA SameChannels == UNCHANGED chan => EndsKept
BY DEF EndsKept

\* Steps of the service, of another client and of the cancel forwarders' calls.
LEMMA ServiceSteps ==
    ASSUME SessionInv, TypeOK', ServiceInv', OnItsOwn, EndsKept,
           UNCHANGED <<page, session, inFlight, cancelTx, success, driver, clicked>>,
           tick' => tick,
           \A i \in Sessions :
               \/ canceller'[i] = canceller[i]
               \/ /\ canceller[i] = "calling" /\ canceller'[i] = "over"
                  /\ serving' = i => cancelled'
    PROVE  SessionInv'
<1>1. Unstarted'
    BY DEF SessionInv, Unstarted, OnItsOwn, EndsKept, Service!Unanswered
<1>2. Asked'
    BY DEF SessionInv, Asked, OnItsOwn, Service!Unanswered, Service!Answers
<1>3. AllOnce'
    BY DEF SessionInv, AllOnce, Once, Pending, EndsKept
<1>4. EndsTrue'
    <2> SUFFICES ASSUME NEW i \in Sessions, NEW k \in EndsOf(chan'[i])
                 PROVE  /\ chan'[i][k].n = 1 <=> answer'[i] = "ok"
                        /\ answer'[i] \in {"none"} \cup Service!Answers
        BY DEF EndsTrue
    <2>1. PICK j \in EndsOf(chan[i]) : chan'[i][k] = chan[i][j]
        BY DEF EndsKept
    <2>2. /\ chan[i][j].n = 1 <=> answer[i] = "ok"
          /\ answer[i] \in {"none"} \cup Service!Answers
        BY <2>1 DEF SessionInv, EndsTrue
    <2>3. answer'[i] = answer[i]
        BY <2>2 DEF OnItsOwn, Service!Answers, Service!Unanswered
    <2> QED BY <2>1, <2>2, <2>3
<1>5. ResultIsOwn'
    <2> SUFFICES ASSUME page = "done"
                 PROVE  /\ success <=> answer'[session] = "ok"
                        /\ answer'[session] \in {"none"} \cup Service!Answers
        BY DEF ResultIsOwn
    <2>1. session \in Sessions
        BY DEF SessionInv, DonePage, TypeOK, Sessions
    <2>2. /\ success <=> answer[session] = "ok"
          /\ answer[session] \in {"none"} \cup Service!Answers
        BY DEF SessionInv, ResultIsOwn
    <2>3. answer'[session] = answer[session]
        BY <2>1, <2>2 DEF OnItsOwn, Service!Answers, Service!Unanswered
    <2> QED BY <2>2, <2>3
<1>6. InOrder'
    BY DEF SessionInv, InOrder, OnItsOwn, Service!Unanswered
<1>7. NeverLeavesInstall'
    BY DEF SessionInv, NeverLeavesInstall, OnItsOwn
<1>8. DonePage'
    BY DEF SessionInv, DonePage
<1>9. CancelReady'
    <2>1. session > 0 => session \in Sessions
        BY DEF SessionInv, TypeOK, Sessions
    <2>2. \A i \in Sessions : answer'[i] = "none" <=> answer[i] = "none"
        BY DEF OnItsOwn, Service!Answers, Service!Unanswered
    <2> QED BY <2>1, <2>2 DEF SessionInv, CancelReady
<1>10. CancelReaches'
    BY DEF SessionInv, CancelReaches, OnItsOwn
<1> QED BY <1>1, <1>2, <1>3, <1>4, <1>5, <1>6, <1>7, <1>8, <1>9, <1>10 DEF SessionInv

\* Steps that the service has no part in.
LEMMA QuietSteps ==
    ASSUME SessionInv, TypeOK', EndsKept,
           UNCHANGED <<service, page, session, inFlight, cancelTx, success, driver,
                       clicked, canceller>>,
           tick' => tick
    PROVE  SessionInv'
<1>1. OnItsOwn
    BY DEF OnItsOwn, service
<1>2. ServiceInv'
    BY DEF SessionInv, ServiceInv, service
<1> QED BY <1>1, <1>2, ServiceSteps

LEMMA TypedService == TypeOK => ServiceTyped
BY DEF TypeOK, ServiceTyped

LEMMA AnnouncesInv ==
    ASSUME SessionInv, Announces
    PROVE  SessionInv'
<1> USE DEF SessionInv
<1>1. ServiceTyped' /\ ServiceInv' /\ OnItsOwn
    BY TypedService, ServiceWorks DEF Announces
<1>2. step' \in 1..NSteps
    BY <1>1, SessionAssumption DEF Announces, Service!Announce, ServiceTyped, TypeOK
<1>3. stepQ' \in [Sessions -> Seq(1..NSteps)]
    <2>1. \A i \in Sessions : Append(stepQ[i], step') \in Seq(1..NSteps)
        BY <1>2 DEF TypeOK
    <2> QED BY <2>1 DEF Announces, TypeOK
<1>4. events' \in 0..MaxEvents
    BY SessionAssumption DEF Announces, Happens, TypeOK
<1>5. TypeOK'
    BY <1>1, <1>3, <1>4 DEF Announces, TypeOK, ServiceTyped, gui
<1>6. EndsKept
    BY SameChannels DEF Announces
<1> QED BY <1>1, <1>5, <1>6, ServiceSteps DEF Announces, gui

LEMMA WorksInv ==
    ASSUME SessionInv, Works \/ Dies
    PROVE  SessionInv'
<1> USE DEF SessionInv
<1>1. ServiceTyped' /\ ServiceInv' /\ OnItsOwn
    BY TypedService, ServiceWorks DEF Works, Dies
<1>2. events' \in 0..MaxEvents
    BY SessionAssumption DEF Works, Dies, Happens, TypeOK
<1>3. UNCHANGED <<gui, tasks>>
    BY DEF Works, Dies
<1>4. TypeOK'
    BY <1>1, <1>2, <1>3 DEF TypeOK, ServiceTyped, gui, tasks, queues
<1>5. EndsKept
    BY <1>3, SameChannels DEF tasks, queues
<1> QED BY <1>1, <1>3, <1>4, <1>5, ServiceSteps DEF gui, tasks

LEMMA OtherClientInv ==
    ASSUME SessionInv, OtherClient
    PROVE  SessionInv'
<1> USE DEF SessionInv
<1>1. PICK c \in Others : Service!Accept(c)
    BY DEF OtherClient
<1>2. c \in Calls /\ c \notin Sessions /\ Sessions \subseteq Calls
    BY SessionAssumption DEF Calls
<1>3. /\ ServiceTyped' /\ ServiceInv'
      /\ \A d \in Calls \ {c} : answer'[d] = answer[d]
      /\ \/ serving' = serving /\ stage' = stage /\ cancelled' = cancelled
         \/ serving' = c
    BY <1>1, <1>2, TypedService, ServiceAsked
<1>4. OnItsOwn
    BY <1>2, <1>3 DEF OnItsOwn
<1>5. events' \in 0..MaxEvents
    BY SessionAssumption DEF OtherClient, Happens, TypeOK
<1>6. UNCHANGED <<gui, tasks>>
    BY DEF OtherClient
<1>7. TypeOK'
    BY <1>3, <1>5, <1>6 DEF TypeOK, ServiceTyped, gui, tasks, queues
<1>8. EndsKept
    BY <1>6, SameChannels DEF tasks, queues
<1> QED BY <1>3, <1>4, <1>6, <1>7, <1>8, ServiceSteps DEF gui, tasks

LEMMA CancelArrivesInv ==
    ASSUME SessionInv, NEW i \in Sessions, CancelArrives(i)
    PROVE  SessionInv'
<1> USE DEF SessionInv
<1>1. /\ canceller[i] = "calling" /\ canceller' = [canceller EXCEPT ![i] = "over"]
      /\ Service!Cancel \/ (serving = NoCall /\ UNCHANGED service)
      /\ UNCHANGED <<gui, driver, clicked, queues, events>>
    BY DEF CancelArrives
<1>2. ServiceTyped' /\ ServiceInv' /\ OnItsOwn
    <2>1. CASE Service!Cancel
        BY <2>1, TypedService, ServiceWorks
    <2>2. CASE UNCHANGED service
        BY <2>2, TypedService DEF service, ServiceTyped, ServiceInv, OnItsOwn
    <2> QED BY <1>1, <2>1, <2>2
<1>3. serving' = i => cancelled'
    BY <1>1, SessionAssumption DEF Service!Cancel, service, Calls
<1>4. TypeOK'
    BY <1>1, <1>2 DEF TypeOK, ServiceTyped, gui, queues
<1>5. EndsKept
    BY <1>1, SameChannels DEF queues
<1>6. \A j \in Sessions : j # i => canceller'[j] = canceller[j]
    BY <1>1 DEF TypeOK
<1>7. canceller'[i] = "over"
    BY <1>1 DEF TypeOK
<1> QED BY <1>1, <1>2, <1>3, <1>4, <1>5, <1>6, <1>7, ServiceSteps DEF gui

LEMMA RebootInv ==
    ASSUME SessionInv, RebootNow \/ RebootTick
    PROVE  SessionInv'
<1> USE DEF SessionInv
<1>1. /\ UNCHANGED <<service, page, session, inFlight, cancelTx, shown, success, tasks, events>>
      /\ reboots' \in {reboots, reboots + 1}
      /\ countdown' = 0 \/ (countdown > 1 /\ countdown' = countdown - 1)
    <2>1. CASE RebootNow
        BY <2>1 DEF RebootNow, Reboot
    <2>2. CASE RebootTick
        <3>1. countdown \in Int
            BY SessionAssumption DEF TypeOK
        <3>2. CASE countdown <= 1
            BY <2>2, <3>2 DEF RebootTick, Reboot
        <3>3. CASE ~(countdown <= 1)
            BY <2>2, <3>1, <3>3 DEF RebootTick
        <3> QED BY <3>2, <3>3
    <2> QED BY <2>1, <2>2
<1>2. countdown' \in -1..Countdown /\ reboots' \in Nat
    BY <1>1, SessionAssumption DEF TypeOK
<1>5. tick' \in BOOLEAN /\ (tick' => tick)
    <2>1. tick \in BOOLEAN
        BY DEF TypeOK
    <2>2. tick' = tick \/ (~tick' /\ tick' \in BOOLEAN)
        BY DEF RebootNow, RebootTick
    <2>3. CASE tick' = tick
        BY <2>1, <2>3
    <2>4. CASE ~tick' /\ tick' \in BOOLEAN
        BY <2>4
    <2> QED BY <2>2, <2>3, <2>4
<1>3. TypeOK'
    BY <1>1, <1>2, <1>5 DEF TypeOK, service, tasks, queues
<1>4. EndsKept
    BY <1>1, SameChannels DEF tasks, queues
<1> QED BY <1>1, <1>3, <1>4, <1>5, QuietSteps DEF tasks, queues

LEMMA ForwardStepInv ==
    ASSUME SessionInv, NEW i \in Sessions, ForwardStep(i)
    PROVE  SessionInv'
<1> USE DEF SessionInv
<1>1. /\ UNCHANGED <<service, gui, driver, canceller, clicked, events>>
      /\ stepQ[i] # <<>> /\ stepQ[i] \in Seq(1..NSteps) /\ chan[i] \in Seq(Events)
      /\ stepQ' = [stepQ EXCEPT ![i] = Tail(stepQ[i])]
      /\ chan' = [chan EXCEPT ![i] = Append(chan[i], Event("step", Head(stepQ[i])))]
    BY DEF ForwardStep, Send, TypeOK
<1>2. Head(stepQ[i]) \in 1..NSteps /\ Tail(stepQ[i]) \in Seq(1..NSteps)
    BY <1>1, HeadTailProperties
<1>3. /\ chan'[i] \in Seq(Events) /\ EndsOf(chan'[i]) = EndsOf(chan[i])
      /\ \A k \in EndsOf(chan[i]) : chan'[i][k] = chan[i][k]
    <2>1. chan'[i] = Append(chan[i], Event("step", Head(stepQ[i])))
        BY <1>1 DEF TypeOK
    <2> DEFINE s == Append(chan[i], Event("step", Head(stepQ[i])))
    <2>2. /\ s \in Seq(Events) /\ EndsOf(s) = EndsOf(chan[i])
          /\ \A k \in EndsOf(chan[i]) : s[k] = chan[i][k]
        <3> HIDE DEF s
        <3>1. \A n \in 1..NSteps : \A t \in Seq(Events) :
                 /\ Append(t, Event("step", n)) \in Seq(Events)
                 /\ EndsOf(Append(t, Event("step", n))) = EndsOf(t)
                 /\ \A k \in EndsOf(t) : Append(t, Event("step", n))[k] = t[k]
            BY SendStep
        <3> QED BY <1>1, <1>2, <3>1, Zenon DEF s
    <2> QED BY <2>1, <2>2, Zenon
<1>4. chan' \in [Sessions -> Seq(Events)] /\ stepQ' \in [Sessions -> Seq(1..NSteps)]
      /\ \A j \in Sessions \ {i} : chan'[j] = chan[j]
    BY <1>1, <1>2, <1>3 DEF TypeOK
<1>5. TypeOK'
    BY <1>1, <1>4 DEF TypeOK, service, gui
<1>6. EndsKept
    BY <1>3, <1>4 DEF EndsKept
<1> QED BY <1>1, <1>5, <1>6, QuietSteps DEF gui

LEMMA ShowInv ==
    ASSUME SessionInv, NEW i \in Sessions, Update(i), Head(chan[i]).kind # "end"
    PROVE  SessionInv'
<1> USE DEF SessionInv
<1>1. /\ UNCHANGED <<service, page, session, inFlight, cancelTx, success, countdown, tick,
                     reboots, driver, canceller, clicked, stepQ, events>>
      /\ shown' = Head(chan[i]).n
      /\ chan[i] # <<>> /\ chan[i] \in Seq(Events)
      /\ chan' = [chan EXCEPT ![i] = Tail(chan[i])]
    BY DEF Update, Show, TypeOK
<1>2. Head(chan[i]) \in Events /\ Tail(chan[i]) \in Seq(Events)
    BY <1>1, TakeEvent
<1>3. shown' \in 0..NSteps
    <2>1. Head(chan[i]).kind = "step"
        BY <1>2, EventTyped
    <2> QED BY <1>1, <1>2, <2>1, EventTyped, SessionAssumption
<1>4. chan' \in [Sessions -> Seq(Events)] /\ chan'[i] = Tail(chan[i])
      /\ \A j \in Sessions \ {i} : chan'[j] = chan[j]
    BY <1>1, <1>2 DEF TypeOK
<1>5. TypeOK'
    BY <1>1, <1>3, <1>4 DEF TypeOK, service
<1>6. /\ EndsOf(chan[i]) = {} => EndsOf(chan'[i]) = {}
      /\ One(EndsOf(chan[i])) => One(EndsOf(chan'[i]))
    BY <1>1, <1>4, TakeStep
<1>7. ASSUME NEW k \in EndsOf(chan'[i])
      PROVE  \E j \in EndsOf(chan[i]) : chan'[i][k] = chan[i][j]
    <2>1. k + 1 \in EndsOf(chan[i]) /\ chan'[i][k] = chan[i][k + 1]
        BY <1>1, <1>4, TakeEvent
    <2> QED BY <2>1
<1>8. EndsKept
    BY <1>4, <1>6, <1>7 DEF EndsKept
<1> QED BY <1>1, <1>5, <1>8, QuietSteps

-----------------------------------------------------------------------------
(* The tasks of a session.                                                 *)

\* The driver of the present session only.
LEMMA OnlyPresentPends ==
    ASSUME SessionInv, page # "gone", NEW i \in Sessions, Pending(i)
    PROVE  /\ i = session /\ page = "progress" /\ EndsOf(chan[i]) = {}
           /\ \A j \in Sessions \ {i} : ~Pending(j) /\ EndsOf(chan[j]) = {}
BY DEF SessionInv, AllOnce, Once

\* Ending the session with the event that tells its answer.
LEMMA EndSent ==
    ASSUME SessionInv, TypeOK', page # "gone", NEW i \in Sessions, Pending(i),
           NEW n \in {0, 1}, n = 1 <=> answer[i] = "ok",
           answer[i] \in {"none"} \cup Service!Answers,
           NEW pc \in {"closing", "over"}, driver' = [driver EXCEPT ![i] = pc],
           Send(i, Event("end", n)),
           UNCHANGED <<service, gui, canceller, clicked>>
    PROVE  SessionInv'
<1>1. /\ i = session /\ page = "progress" /\ EndsOf(chan[i]) = {}
      /\ \A j \in Sessions \ {i} : ~Pending(j) /\ EndsOf(chan[j]) = {}
    BY OnlyPresentPends
<1>2. /\ chan \in [Sessions -> Seq(Events)]
      /\ driver \in [Sessions -> {"none", "connecting", "calling", "awaiting",
                                  "closing", "over"}]
      /\ session \in Int
    BY SessionAssumption DEF SessionInv, TypeOK
<1>3. /\ EndsOf(chan'[i]) = {Len(chan[i]) + 1}
      /\ chan'[i][Len(chan[i]) + 1] = Event("end", n)
    BY <1>1, <1>2, SendEnd DEF Send
<1>4. \A j \in Sessions \ {i} : chan'[j] = chan[j] /\ driver'[j] = driver[j]
    BY <1>2 DEF Send
<1>5. driver'[i] = pc
    BY <1>2
<1>6. ServiceInv' /\ ResultIsOwn' /\ InOrder' /\ NeverLeavesInstall' /\ DonePage' /\ CancelReaches'
    BY DEF SessionInv, ServiceInv, ResultIsOwn, InOrder, NeverLeavesInstall, DonePage,
           CancelReaches, service, gui
<1>7. Unstarted'
    BY <1>1, <1>2, <1>4 DEF SessionInv, Unstarted, service, gui
<1>8. Asked'
    BY <1>4, <1>5 DEF SessionInv, Asked, Service!Unanswered, Service!Answers, service, gui
<1>9. AllOnce'
    BY <1>1, <1>3, <1>4, <1>5 DEF SessionInv, AllOnce, Once, One, Pending, gui
<1>10. EndsTrue'
    <2>1. ASSUME NEW k \in EndsOf(chan'[i])
          PROVE  chan'[i][k].n = 1 <=> answer[i] = "ok"
        BY <1>3 DEF Event
    <2> QED BY <1>4, <2>1 DEF SessionInv, EndsTrue, service
<1>11. CancelReady'
    BY <1>4, <1>5 DEF SessionInv, CancelReady, TypeOK, Sessions, service, gui
<1> QED BY <1>6, <1>7, <1>8, <1>9, <1>10, <1>11 DEF SessionInv

LEMMA EndSentTyped ==
    ASSUME TypeOK, NEW i \in Sessions, NEW n \in {0, 1},
           NEW pc \in {"closing", "over"}, driver' = [driver EXCEPT ![i] = pc],
           Send(i, Event("end", n)),
           UNCHANGED <<service, gui, canceller, clicked, stepQ, events>>
    PROVE  TypeOK'
<1>1. chan[i] \in Seq(Events) /\ Event("end", n) \in Events
    BY EndTyped DEF TypeOK
<1>2. Append(chan[i], Event("end", n)) \in Seq(Events)
    BY <1>1
<1>3. chan' \in [Sessions -> Seq(Events)]
    BY <1>2 DEF Send, TypeOK
<1>4. driver' \in [Sessions -> {"none", "connecting", "calling", "awaiting",
                                "closing", "over"}]
    BY DEF TypeOK
<1> QED BY <1>3, <1>4 DEF TypeOK, service, gui

LEMMA DriverEndsInv ==
    ASSUME SessionInv, NEW i \in Sessions, ConnectFails(i) \/ Answered(i)
    PROVE  SessionInv'
<1>1. TypeOK
    BY DEF SessionInv
<1>2. CASE ConnectFails(i)
    <2>1. page # "gone" /\ driver[i] = "connecting" /\ Pending(i)
        BY <1>2 DEF ConnectFails, Running, Pending
    <2>2. answer[i] = "none"
        BY <2>1 DEF SessionInv, Asked
    <2>3. TypeOK'
        BY <1>1, <1>2, EndSentTyped DEF ConnectFails
    <2>4. /\ Send(i, Event("end", 0)) /\ driver' = [driver EXCEPT ![i] = "over"]
          /\ UNCHANGED <<service, gui, canceller, clicked>>
        BY <1>2 DEF ConnectFails
    <2>5. 0 \in {0, 1} /\ (0 = 1 <=> answer[i] = "ok")
        BY <2>2
    <2> QED BY <2>1, <2>2, <2>3, <2>4, <2>5, EndSent
<1>3. CASE Answered(i)
    <2>1. page # "gone" /\ Pending(i) /\ answer[i] \in Service!Answers
        BY <1>3 DEF Answered, Running, Pending
    <2> DEFINE n == IF answer[i] = "ok" THEN 1 ELSE 0
    <2>2. n \in {0, 1} /\ (n = 1 <=> answer[i] = "ok")
        OBVIOUS
    <2>3. /\ Send(i, Event("end", n)) /\ driver' = [driver EXCEPT ![i] = "closing"]
          /\ UNCHANGED <<service, gui, canceller, clicked, stepQ, events>>
        BY <1>3 DEF Answered
    <2> HIDE DEF n
    <2>4. TypeOK'
        BY <1>1, <2>2, <2>3, EndSentTyped
    <2> QED BY <2>1, <2>2, <2>3, <2>4, EndSent
<1> QED BY <1>2, <1>3

LEMMA ConnectsInv ==
    ASSUME SessionInv, NEW i \in Sessions, Connects(i)
    PROVE  SessionInv'
<1>1. TypeOK
    BY DEF SessionInv
<1>2. /\ page # "gone" /\ driver[i] = "connecting"
      /\ driver' = [driver EXCEPT ![i] = "calling"]
      /\ canceller' = [canceller EXCEPT ![i] = "waiting"]
      /\ UNCHANGED <<service, gui, clicked, queues, events>>
    BY DEF Connects, Running
<1>3. TypeOK'
    BY <1>1, <1>2 DEF TypeOK, service, gui, queues
<1>4. i = session /\ answer[i] = "none"
    BY <1>2, OnlyPresentPends DEF Pending, SessionInv, Asked
<1>5. /\ driver'[i] = "calling" /\ canceller'[i] = "waiting"
      /\ \A j \in Sessions \ {i} : driver'[j] = driver[j] /\ canceller'[j] = canceller[j]
    BY <1>1, <1>2 DEF TypeOK
<1>6. ServiceInv' /\ EndsTrue' /\ ResultIsOwn' /\ InOrder' /\ NeverLeavesInstall' /\ DonePage'
    BY <1>2 DEF SessionInv, ServiceInv, EndsTrue, ResultIsOwn, InOrder, NeverLeavesInstall,
                DonePage, service, gui, queues
<1>7. Unstarted' /\ Asked' /\ AllOnce'
    BY <1>1, <1>2, <1>4, <1>5
       DEF SessionInv, Unstarted, Asked, AllOnce, Once, Pending, Service!Unanswered,
           TypeOK, Sessions, service, gui, queues
<1>8. CancelReady' /\ CancelReaches'
    BY <1>1, <1>2, <1>4, <1>5
       DEF SessionInv, CancelReady, CancelReaches, TypeOK, Sessions, service, gui
<1> QED BY <1>3, <1>6, <1>7, <1>8 DEF SessionInv

LEMMA ClosesInv ==
    ASSUME SessionInv, NEW i \in Sessions, Closes(i)
    PROVE  SessionInv'
<1>1. TypeOK
    BY DEF SessionInv
<1>2. /\ page # "gone" /\ driver[i] = "closing"
      /\ driver' = [driver EXCEPT ![i] = "over"]
      /\ stepQ' = [stepQ EXCEPT ![i] = <<>>]
      /\ UNCHANGED <<service, gui, canceller, clicked, chan, events>>
    BY DEF Closes, Running
<1>3. TypeOK'
    <2>1. <<>> \in Seq(1..NSteps)
        OBVIOUS
    <2>2. stepQ' \in [Sessions -> Seq(1..NSteps)]
        BY <1>1, <1>2, <2>1 DEF TypeOK
    <2> QED BY <1>1, <1>2, <2>2 DEF TypeOK, service, gui
<1>4. /\ driver'[i] = "over"
      /\ \A j \in Sessions \ {i} : driver'[j] = driver[j]
    BY <1>1, <1>2 DEF TypeOK
<1>5. /\ ServiceInv' /\ EndsTrue' /\ ResultIsOwn' /\ InOrder' /\ NeverLeavesInstall'
      /\ DonePage' /\ CancelReaches'
    BY <1>2 DEF SessionInv, ServiceInv, EndsTrue, ResultIsOwn, InOrder, NeverLeavesInstall,
                DonePage, CancelReaches, service, gui
<1>6. Unstarted'
    BY <1>2, <1>4 DEF SessionInv, Unstarted, service, gui
<1>8. Asked'
    BY <1>2, <1>4 DEF SessionInv, Asked, service, gui
<1>9. AllOnce'
    BY <1>2, <1>4 DEF SessionInv, AllOnce, Once, Pending, gui
<1>7. CancelReady'
    BY <1>1, <1>2, <1>4 DEF SessionInv, CancelReady, TypeOK, Sessions, service, gui
<1> QED BY <1>3, <1>5, <1>6, <1>7, <1>8, <1>9 DEF SessionInv

LEMMA CancelFiresInv ==
    ASSUME SessionInv, NEW i \in Sessions, CancelFires(i)
    PROVE  SessionInv'
<1>1. TypeOK
    BY DEF SessionInv
<1>2. /\ page # "gone" /\ canceller[i] = "waiting"
      /\ UNCHANGED <<service, gui, driver, clicked, queues, events>>
    BY DEF CancelFires, Running
<1>3. /\ \A j \in Sessions \ {i} : canceller'[j] = canceller[j]
      /\ \/ clicked[i] # "no" /\ canceller'[i] = "calling"
         \/ clicked[i] = "no" /\ session > i /\ canceller'[i] = "over"
      /\ canceller' \in [Sessions -> {"none", "waiting", "calling", "over"}]
    BY <1>1 DEF CancelFires, TypeOK
<1>4. TypeOK'
    BY <1>1, <1>2, <1>3 DEF TypeOK, service, gui, queues
<1>5. /\ ServiceInv' /\ EndsTrue' /\ ResultIsOwn' /\ InOrder' /\ NeverLeavesInstall'
      /\ DonePage'
    BY <1>2 DEF SessionInv, ServiceInv, EndsTrue, ResultIsOwn, InOrder, NeverLeavesInstall,
                DonePage, service, gui, queues
<1>6. Unstarted' /\ Asked' /\ AllOnce'
    BY <1>2, <1>3
       DEF SessionInv, Unstarted, Asked, AllOnce, Once, Pending, service, gui, queues
<1>7. CancelReady'
    BY <1>1, <1>2, <1>3 DEF SessionInv, CancelReady, TypeOK, Sessions, service, gui
<1>8. CancelReaches'
    BY <1>2, <1>3 DEF SessionInv, CancelReaches, service
<1> QED BY <1>4, <1>5, <1>6, <1>7, <1>8 DEF SessionInv

LEMMA CallInv ==
    ASSUME SessionInv, NEW i \in Sessions, Call(i)
    PROVE  SessionInv'
<1>1. TypeOK
    BY DEF SessionInv
<1>2. /\ page # "gone" /\ driver[i] = "calling" /\ Pending(i)
      /\ driver' = [driver EXCEPT ![i] = "awaiting"]
      /\ UNCHANGED <<gui, canceller, clicked, queues, events>>
    BY DEF Call, Running, Pending
<1>3. i \in Calls /\ Sessions \subseteq Calls /\ NoCall \notin Calls /\ MaxSessions \in Nat
    BY SessionAssumption DEF Calls
<1>4. /\ ServiceTyped' /\ ServiceInv' /\ answer[i] = "none"
      /\ \A d \in Calls \ {i} : answer'[d] = answer[d]
      /\ \/ serving' = serving /\ stage' = stage /\ cancelled' = cancelled
            /\ answer'[i] = "error"
         \/ serving = NoCall /\ serving' = i /\ answer'[i] = "pending"
    <2>1. ServiceTyped /\ ServiceInv
        BY <1>1, TypedService DEF SessionInv
    <2> QED BY <1>3, <2>1, ServiceAsked DEF Call
<1>5. /\ i = session /\ page = "progress" /\ EndsOf(chan[i]) = {}
      /\ \A j \in Sessions \ {i} : ~Pending(j)
    BY <1>2, OnlyPresentPends
<1>6. /\ driver' \in [Sessions -> {"none", "connecting", "calling", "awaiting",
                                   "closing", "over"}]
      /\ driver'[i] = "awaiting" /\ \A j \in Sessions \ {i} : driver'[j] = driver[j]
    BY <1>1, <1>2 DEF TypeOK
<1>7. TypeOK'
    BY <1>1, <1>2, <1>4, <1>6 DEF TypeOK, ServiceTyped, gui, queues
<1>8. \A j \in Sessions \ {i} : answer'[j] = answer[j]
    BY <1>3, <1>4
<1>9. session \in Int /\ Sessions \subseteq Int
    BY <1>1, <1>3 DEF TypeOK, Sessions
<1>10. Unstarted'
    BY <1>2, <1>5, <1>6, <1>8, <1>9 DEF SessionInv, Unstarted, gui, queues
<1>11. Asked'
    BY <1>2, <1>4, <1>6, <1>8 DEF SessionInv, Asked, gui, Service!Unanswered
<1>12. AllOnce'
    BY <1>2, <1>5, <1>6 DEF SessionInv, AllOnce, Once, Pending, gui, queues
<1>13. EndsTrue'
    BY <1>2, <1>5, <1>8 DEF SessionInv, EndsTrue, queues
<1>14. ResultIsOwn' /\ DonePage'
    BY <1>2, <1>5 DEF SessionInv, ResultIsOwn, DonePage, gui
<1>15. InOrder'
    <2>1. CASE serving' = serving /\ answer'[i] = "error"
        BY <1>8, <2>1 DEF SessionInv, InOrder
    <2>2. CASE serving' = i
        BY <1>5, <1>8, <1>9, <2>2 DEF SessionInv, InOrder, Unstarted
    <2> QED BY <1>4, <2>1, <2>2
<1>16. NeverLeavesInstall'
    BY <1>2, <1>4, <1>5 DEF SessionInv, NeverLeavesInstall, gui
<1>17. CancelReady'
    BY <1>2, <1>4, <1>5, <1>6, <1>8 DEF SessionInv, CancelReady, gui
<1>18. CancelReaches'
    <2>1. clicked[i] # "running"
        BY <1>4 DEF SessionInv, CancelReady
    <2> QED BY <1>2, <1>4, <2>1 DEF SessionInv, CancelReaches
<1> QED BY <1>4, <1>7, <1>10, <1>11, <1>12, <1>13, <1>14, <1>15, <1>16, <1>17, <1>18
        DEF SessionInv

-----------------------------------------------------------------------------
(* update() and the user.                                                  *)

LEMMA EndInv ==
    ASSUME SessionInv, NEW i \in Sessions, Update(i), Head(chan[i]).kind = "end"
    PROVE  SessionInv'
<1>1. TypeOK
    BY DEF SessionInv
<1>2. chan[i] # <<>> /\ chan[i] \in Seq(Events) /\ page # "gone"
    BY <1>1 DEF Update, TypeOK
<1> DEFINE ok == Head(chan[i]).n = 1
<1>3. /\ inFlight' = FALSE /\ success' = ok /\ page' = "done" /\ shown' = shown
      /\ ok => countdown' = Countdown /\ tick' = TRUE
      /\ ~ok => UNCHANGED <<countdown, tick>>
      /\ chan' = [chan EXCEPT ![i] = Tail(chan[i])]
      /\ UNCHANGED <<service, session, cancelTx, reboots, driver, canceller, clicked,
                     stepQ, events>>
    BY DEF Update, End
<1>4. /\ Tail(chan[i]) \in Seq(Events) /\ 1 \in EndsOf(chan[i]) /\ Head(chan[i]) = chan[i][1]
    BY <1>2, TakeEvent
<1>5. Once(i) /\ EndsOf(chan[i]) # {}
    BY <1>2, <1>4 DEF SessionInv, AllOnce
<1>6. i = session /\ page = "progress" /\ ~Pending(i) /\ One(EndsOf(chan[i]))
    BY <1>5 DEF Once
<1>7. chan' \in [Sessions -> Seq(Events)] /\ chan'[i] = Tail(chan[i])
      /\ \A j \in Sessions \ {i} : chan'[j] = chan[j]
    BY <1>1, <1>3, <1>4 DEF TypeOK
<1>8. EndsOf(chan'[i]) = {}
    BY <1>2, <1>6, <1>7, TakeEnd
<1>9. \A j \in Sessions \ {i} : ~Pending(j) /\ EndsOf(chan[j]) = {}
    BY <1>2, <1>6 DEF SessionInv, AllOnce, Once
<1>10. /\ ok <=> answer[i] = "ok"
       /\ answer[i] \in {"none"} \cup Service!Answers
    BY <1>4 DEF SessionInv, EndsTrue
<1>11. ok \in BOOLEAN
    OBVIOUS
<1> HIDE DEF ok
<1>12. TypeOK'
    <2>1. countdown' \in -1..Countdown
        BY <1>1, <1>3, <1>11, SessionAssumption DEF TypeOK
    <2>2. tick' \in BOOLEAN
        BY <1>1, <1>3, <1>11 DEF TypeOK
    <2>3. inFlight' \in BOOLEAN /\ success' \in BOOLEAN
        BY <1>3, <1>11
    <2> QED BY <1>1, <1>3, <1>7, <2>1, <2>2, <2>3 DEF TypeOK, service
<1>13. ServiceInv' /\ InOrder' /\ CancelReaches'
    BY <1>3 DEF SessionInv, ServiceInv, InOrder, CancelReaches, service
<1>14. Unstarted' /\ Asked' /\ EndsTrue'
    BY <1>2, <1>3, <1>7, <1>8, <1>9 DEF SessionInv, Unstarted, Asked, EndsTrue, service
<1>15. AllOnce'
    BY <1>3, <1>6, <1>7, <1>8, <1>9 DEF AllOnce, Once, Pending
<1>16. ResultIsOwn'
    BY <1>3, <1>6, <1>10 DEF ResultIsOwn, service
<1>17. NeverLeavesInstall'
    <2>1. SUFFICES ASSUME serving \in Sessions, stage # "panicked"
                   PROVE  FALSE
        BY <1>3 DEF NeverLeavesInstall, service
    <2>2. serving = i
        BY <1>6, <2>1 DEF SessionInv, NeverLeavesInstall
    <2>3. answer[i] = "pending"
        BY <2>1, <2>2, SessionAssumption DEF SessionInv, ServiceInv, Calls
    <2> QED BY <1>10, <2>3 DEF Service!Answers
<1>18. DonePage'
    <2>1. tick' => success'
        BY <1>3, <1>6, <1>11 DEF SessionInv, DonePage
    <2> QED BY <1>3, <1>6, <2>1 DEF SessionInv, DonePage
<1>19. CancelReady'
    BY <1>2, <1>3 DEF SessionInv, CancelReady, service
<1> QED BY <1>12, <1>13, <1>14, <1>15, <1>16, <1>17, <1>18, <1>19 DEF SessionInv

LEMMA StartInstallInv ==
    ASSUME SessionInv, FirstInstall \/ RetryInstall
    PROVE  SessionInv'
<1>1. TypeOK
    BY DEF SessionInv
<1>2. /\ session < MaxSessions /\ session' = session + 1
      /\ page' = "progress" /\ inFlight' = TRUE /\ cancelTx' = TRUE /\ shown' = 0
      /\ driver' = [driver EXCEPT ![session'] = "connecting"]
      /\ UNCHANGED <<service, success, countdown, tick, reboots, canceller, clicked,
                     queues, events>>
    BY DEF FirstInstall, RetryInstall, StartInstall
<1>3. page \in {"confirm", "done"} /\ ~success /\ ~tick
    BY DEF FirstInstall, RetryInstall, SessionInv, DonePage
<1>4. session' \in Sessions /\ session \in Nat /\ session' > session /\ session' > 0
    BY <1>1, <1>2, SessionAssumption DEF TypeOK, Sessions
<1>5. /\ driver' \in [Sessions -> {"none", "connecting", "calling", "awaiting",
                                   "closing", "over"}]
      /\ driver'[session'] = "connecting"
      /\ \A j \in Sessions \ {session'} : driver'[j] = driver[j]
    BY <1>1, <1>2, <1>4 DEF TypeOK
<1>6. TypeOK'
    <2>1. session' \in 0..MaxSessions /\ shown' \in 0..NSteps
        BY <1>2, <1>4, SessionAssumption DEF Sessions
    <2> QED BY <1>1, <1>2, <1>5, <2>1 DEF TypeOK, service, queues
<1>7. /\ canceller[session'] = "none" /\ clicked[session'] = "no"
      /\ answer[session'] = "none" /\ EndsOf(chan[session']) = {}
    BY <1>4 DEF SessionInv, Unstarted
<1>8. \A j \in Sessions : ~Pending(j) /\ EndsOf(chan[j]) = {}
    BY <1>3 DEF SessionInv, AllOnce, Once
<1>9. ServiceInv' /\ EndsTrue' /\ InOrder' /\ CancelReaches'
    BY <1>2 DEF SessionInv, ServiceInv, EndsTrue, InOrder, CancelReaches, service, queues
<1>10. Unstarted'
    <2>1. Sessions \subseteq Int
        BY SessionAssumption DEF Sessions
    <2>2. ASSUME NEW j \in Sessions, j > session'
          PROVE  j # session' /\ j > session
        BY <1>2, <1>4, <2>1, <2>2
    <2> QED BY <1>2, <1>5, <2>2 DEF SessionInv, Unstarted, service, queues
<1>11. Asked'
    BY <1>2, <1>3, <1>5, <1>7 DEF SessionInv, Asked, Service!Unanswered, service
<1>12. AllOnce'
    BY <1>2, <1>5, <1>8 DEF AllOnce, Once, Pending, queues
<1>13. ResultIsOwn' /\ DonePage'
    BY <1>2, <1>3, <1>4 DEF ResultIsOwn, DonePage
<1>14. NeverLeavesInstall'
    BY <1>2, <1>3 DEF SessionInv, NeverLeavesInstall, service
<1>15. CancelReady'
    BY <1>2, <1>4, <1>5, <1>7 DEF SessionInv, CancelReady, service
<1> QED BY <1>6, <1>9, <1>10, <1>11, <1>12, <1>13, <1>14, <1>15 DEF SessionInv

LEMMA CancelInstallInv ==
    ASSUME SessionInv, CancelInstall
    PROVE  SessionInv'
<1>1. TypeOK
    BY DEF SessionInv
<1> DEFINE v == IF serving = session THEN "running" ELSE "early"
<1>2. /\ page = "progress" /\ cancelTx /\ cancelTx' = FALSE
      /\ clicked' = [clicked EXCEPT ![session] = v]
      /\ UNCHANGED <<service, page, session, inFlight, shown, success,
                     countdown, tick, reboots, driver, canceller, queues>>
    BY DEF CancelInstall, CancelActive
<1>3. session \in Sessions /\ clicked[session] = "no"
    BY <1>1, <1>2, SessionAssumption DEF SessionInv, CancelReady, TypeOK, Sessions
<1>4. v \in {"running", "early"} /\ (v = "running" => serving = session)
    OBVIOUS
<1> HIDE DEF v
<1>5. /\ clicked' \in [Sessions -> {"no", "early", "running"}]
      /\ clicked'[session] = v
      /\ \A j \in Sessions \ {session} : clicked'[j] = clicked[j]
    BY <1>1, <1>2, <1>3, <1>4 DEF TypeOK
<1>6. TypeOK'
    <2>1. events' \in 0..MaxEvents
        BY <1>1, SessionAssumption DEF CancelInstall, Happens, TypeOK
    <2> QED BY <1>1, <1>2, <1>5, <2>1 DEF TypeOK, service, queues
<1>7. serving = session => answer[session] # "none"
    BY <1>3, SessionAssumption DEF SessionInv, ServiceInv, Calls
<1>8. ServiceInv' /\ Asked' /\ AllOnce' /\ EndsTrue' /\ ResultIsOwn' /\ InOrder'
      /\ NeverLeavesInstall' /\ DonePage'
    BY <1>2 DEF SessionInv, ServiceInv, Asked, AllOnce, Once, Pending, EndsTrue, ResultIsOwn,
                InOrder, NeverLeavesInstall, DonePage, service, queues
<1>9. Unstarted'
    <2>1. ~(session > session)
        BY <1>1, SessionAssumption DEF TypeOK
    <2> QED BY <1>2, <1>5, <2>1 DEF SessionInv, Unstarted, service, queues
<1>10. CancelReady'
    BY <1>2, <1>4, <1>5, <1>7 DEF SessionInv, CancelReady, service
<1>11. CancelReaches'
    <2>1. clicked'[session] = "running" => canceller[session] = "waiting"
        BY <1>2, <1>3, <1>4, <1>5, <1>7, <1>9 DEF SessionInv, CancelReady, DonePage
    <2> QED BY <1>2, <1>5, <2>1 DEF SessionInv, CancelReaches, service
<1> QED BY <1>6, <1>8, <1>9, <1>10, <1>11 DEF SessionInv

LEMMA QuitInv ==
    ASSUME SessionInv, Quit
    PROVE  SessionInv'
<1> USE DEF Each
<1>1. TypeOK
    BY DEF SessionInv
<1>2. /\ page = "done" /\ page' = "gone" /\ shown' = 0 /\ cancelTx' = FALSE /\ tick' = FALSE
      /\ driver' = Each("none") /\ canceller' = Each("none") /\ clicked' = Each("no")
      /\ stepQ' = Each(<<>>) /\ chan' = Each(<<>>)
      /\ UNCHANGED <<service, session, inFlight, success, countdown, reboots, events>>
    BY DEF Quit
<1>3. \A i \in Sessions : EndsOf(chan'[i]) = {}
    BY <1>2 DEF EndsOf
<1>4. TypeOK'
    <2>1. chan' \in [Sessions -> Seq(Events)] /\ stepQ' \in [Sessions -> Seq(1..NSteps)]
        BY <1>2
    <2>2. shown' \in 0..NSteps
        BY <1>2, SessionAssumption
    <2> QED BY <1>1, <1>2, <2>1, <2>2 DEF TypeOK, service
<1>5. ServiceInv' /\ InOrder' /\ ResultIsOwn' /\ Asked' /\ AllOnce' /\ DonePage'
    BY <1>2 DEF SessionInv, ServiceInv, InOrder, ResultIsOwn, Asked, AllOnce, DonePage, service
<1>6. Unstarted' /\ EndsTrue' /\ CancelReaches'
    BY <1>2, <1>3 DEF SessionInv, Unstarted, EndsTrue, CancelReaches, service
<1>7. NeverLeavesInstall'
    BY <1>2 DEF SessionInv, NeverLeavesInstall, service
<1>8. CancelReady'
    BY <1>2 DEF CancelReady
<1> QED BY <1>4, <1>5, <1>6, <1>7, <1>8 DEF SessionInv

-----------------------------------------------------------------------------
(* The invariant holds, and what follows from it.                          *)

LEMMA SessionNext ==
    ASSUME SessionInv, [Next]_vars
    PROVE  SessionInv'
<1>1. CASE User \/ RebootTick
    BY <1>1, StartInstallInv, CancelInstallInv, RebootInv, QuitInv DEF User
<1>2. ASSUME NEW i \in Sessions, Update(i)
      PROVE  SessionInv'
    BY <1>2, ShowInv, EndInv
<1>3. ASSUME NEW i \in Sessions, Driver(i)
      PROVE  SessionInv'
    BY <1>3, DriverEndsInv, ConnectsInv, CallInv, ClosesInv DEF Driver
<1>4. ASSUME NEW i \in Sessions, Canceller(i) \/ ForwardStep(i)
      PROVE  SessionInv'
    BY <1>4, CancelFiresInv, CancelArrivesInv, ForwardStepInv DEF Canceller
<1>5. CASE Announces \/ Works \/ Dies \/ OtherClient
    BY <1>5, AnnouncesInv, WorksInv, OtherClientInv
<1>6. CASE UNCHANGED vars
    <2>1. UNCHANGED <<service, gui, tasks, events>>
        BY <1>6 DEF vars
    <2>2. TypeOK'
        BY <2>1 DEF SessionInv, TypeOK, service, gui, tasks, queues
    <2>3. EndsKept
        BY <2>1, SameChannels DEF tasks, queues
    <2> QED BY <2>1, <2>2, <2>3, QuietSteps DEF gui, tasks
<1> QED BY <1>1, <1>2, <1>3, <1>4, <1>5, <1>6 DEF Next

LEMMA SessionAlways == Spec => []SessionInv
<1>1. Init => SessionInv
    BY SessionInit
<1> QED BY <1>1, SessionNext, PTL DEF Spec

\* The GUI's and the tasks' state is well typed, whatever the user, the service and
\* its other clients do.
THEOREM SessionTypeCorrect == Spec => []TypeOK
<1>1. SessionInv => TypeOK
    BY DEF SessionInv
<1> QED BY <1>1, SessionAlways, PTL

\* Every session has one event to end it, until it has ended (daemon.rs), and no
\* other session's can (app.rs).
THEOREM SessionsEndOnce == Spec => []EndsOnce
<1>1. SessionInv => EndsOnce
    BY AllOnceIsEndsOnce DEF SessionInv
<1> QED BY <1>1, SessionAlways, PTL

\* The Done page shows what the service answered to this session's own call.
THEOREM ResultsAreOwn == Spec => []ResultIsOwn
<1>1. SessionInv => ResultIsOwn
    BY DEF SessionInv
<1> QED BY <1>1, SessionAlways, PTL

\* The GUI stays on the progress page while its install works on the machine.
THEOREM InstallsAreWatched == Spec => []NeverLeavesInstall
<1>1. SessionInv => NeverLeavesInstall
    BY DEF SessionInv
<1> QED BY <1>1, SessionAlways, PTL

\* A click on Cancel that finds the session's install running cancels it, unless it
\* is over first.
THEOREM CancelsReach == Spec => []CancelReaches
<1>1. SessionInv => CancelReaches
    BY DEF SessionInv
<1> QED BY <1>1, SessionAlways, PTL

\* Nothing reboots the machine before the install has succeeded, nor while another
\* session's runs (RebootNow and RebootTick in app.rs).
THEOREM RebootsAreSafe == Spec => RebootsWhenDone
<1>1. ASSUME SessionInv, [Next]_vars, reboots' # reboots
      PROVE  answer[session] = "ok" /\ serving \notin Sessions
    <2>1. RebootNow \/ RebootTick
        BY <1>1 DEF Next, vars, User, FirstInstall, RetryInstall, StartInstall, CancelInstall,
              Quit, Update, Driver, ConnectFails, Connects, Call, Answered, Closes, Canceller,
              CancelFires, CancelArrives, ForwardStep, Announces, Works, Dies, OtherClient, gui
    <2>2. success /\ page = "done"
        BY <1>1, <2>1 DEF RebootNow, RebootTick, SessionInv, DonePage
    <2>3. answer[session] = "ok" /\ session \in Sessions
        BY <1>1, <2>2, SessionAssumption
           DEF SessionInv, ResultIsOwn, DonePage, TypeOK, Sessions
    <2>4. SUFFICES ASSUME serving \in Sessions
                   PROVE  FALSE
        BY <2>3
    <2>5. answer[serving] \in {"pending", "error"}
        BY <1>1, <2>4, SessionAssumption DEF SessionInv, ServiceInv, Calls
    <2>6. stage = "panicked"
        BY <1>1, <2>2, <2>4 DEF SessionInv, NeverLeavesInstall
    <2>7. serving # session
        BY <2>3, <2>5
    <2>8. ~(session > serving)
        BY <1>1, <2>3, <2>4 DEF SessionInv, InOrder
    <2>9. ~(serving > session)
        BY <1>1, <2>4, <2>5 DEF SessionInv, Unstarted
    <2> QED BY <2>3, <2>4, <2>7, <2>8, <2>9, SessionAssumption DEF Sessions
<1>2. SessionInv /\ [Next]_vars
         => [reboots' # reboots => answer[session] = "ok" /\ serving \notin Sessions]_vars
    BY <1>1
<1> QED BY <1>2, SessionAlways, PTL DEF Spec, RebootsWhenDone

=============================================================================
