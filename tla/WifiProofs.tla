----------------------------- MODULE WifiProofs -----------------------------
(***************************************************************************)
(* Proofs about WifiPage.tla, for any networks and queues: what is being   *)
(* connected to is accounted for, and is connected to once.                *)
(***************************************************************************)
EXTENDS WifiPage, SequenceTheorems, TLAPS

-----------------------------------------------------------------------------
(* The two queues.                                                         *)

Kinds == {"select", "auth", "disconnect", "forget", "wifi"}
Requests == [kind : Kinds, ssid : Ssids \cup {NoSsid}]
Answers == [kind : Kinds \cup {"reload"}, ssid : Ssids \cup {NoSsid}, ok : BOOLEAN,
            state : States]

None(q, s) == Attempts(q, s) = {}
One(q, s) == \E k \in DOMAIN q : Attempts(q, s) = {k}
\* Whether e is an attempt to connect to s.
Tries(e, s) == e.kind \in {"select", "auth"} /\ e.ssid = s

\* What the attempts to connect to s are in p, which is q with e at its end.
Grows(q, e, p, s) ==
    /\ Tries(e, s) => ~None(p, s) /\ (None(q, s) => One(p, s))
    /\ ~None(q, s) => ~None(p, s)
    /\ ~Tries(e, s) => (None(q, s) => None(p, s)) /\ (One(q, s) => One(p, s))

\* What they are in p, which is q without e, its first.
Shrinks(q, e, p, s) ==
    /\ Tries(e, s) => ~None(q, s) /\ (One(q, s) => None(p, s))
    /\ None(q, s) => None(p, s)
    /\ ~Tries(e, s) => (~None(q, s) => ~None(p, s)) /\ (One(q, s) => One(p, s))

LEMMA Appended ==
    ASSUME NEW S, NEW q \in Seq(S), NEW e \in S, NEW s
    PROVE  Append(q, e) \in Seq(S) /\ Grows(q, e, Append(q, e), s)
<1> DEFINE r == Append(q, e)
<1>1. /\ r \in Seq(S) /\ Len(r) = Len(q) + 1 /\ Len(q) \in Nat
      /\ DOMAIN q = 1..Len(q) /\ DOMAIN r = 1..Len(q) + 1
      /\ \A k \in 1..Len(q) : r[k] = q[k]
      /\ r[Len(q) + 1] = e
    OBVIOUS
<1>2. Attempts(r, s) = Attempts(q, s) \cup (IF Tries(e, s) THEN {Len(q) + 1} ELSE {})
    BY <1>1 DEF Attempts, Tries
<1>3. Len(q) + 1 \in DOMAIN r /\ DOMAIN q \subseteq DOMAIN r
    BY <1>1
<1> QED BY <1>1, <1>2, <1>3 DEF None, One, Grows

LEMMA Taken ==
    ASSUME NEW S, NEW q \in Seq(S), q # <<>>, NEW s
    PROVE  /\ Head(q) \in S /\ Tail(q) \in Seq(S)
           /\ Shrinks(q, Head(q), Tail(q), s)
<1> DEFINE r == Tail(q)
<1>1. /\ Len(q) \in Nat \ {0} /\ DOMAIN q = 1..Len(q) /\ Head(q) = q[1]
      /\ r \in Seq(S) /\ Len(r) = Len(q) - 1 /\ DOMAIN r = 1..(Len(q) - 1)
      /\ \A k \in 1..(Len(q) - 1) : r[k] = q[k + 1]
    BY HeadTailProperties
<1>2. Head(q) \in S
    BY HeadTailProperties
<1> HIDE DEF r
<1>3. \A k \in Attempts(r, s) : k \in DOMAIN r /\ k + 1 \in Attempts(q, s)
    BY <1>1 DEF Attempts
<1>4. \A k \in Attempts(q, s) : k = 1 \/ (k - 1 \in Attempts(r, s) /\ k - 1 \in DOMAIN r)
    BY <1>1 DEF Attempts
<1>5. 1 \in Attempts(q, s) <=> Tries(Head(q), s)
    BY <1>1 DEF Attempts, Tries
<1>6. None(q, s) => None(r, s)
    BY <1>3 DEF None
<1>7. One(q, s) /\ Tries(Head(q), s) => None(r, s)
    BY <1>1, <1>3, <1>5 DEF One, None
<1>8. One(q, s) /\ ~Tries(Head(q), s) => One(r, s)
    <2> SUFFICES ASSUME NEW k \in DOMAIN q, Attempts(q, s) = {k}, ~Tries(Head(q), s)
                 PROVE  One(r, s)
        BY DEF One
    <2>1. k - 1 \in Attempts(r, s) /\ k - 1 \in DOMAIN r
        BY <1>4, <1>5
    <2>2. \A j \in Attempts(r, s) : j = k - 1
        BY <1>1, <1>3
    <2> QED BY <2>1, <2>2 DEF One
<1>9. ~Tries(Head(q), s) /\ ~None(q, s) => ~None(r, s)
    BY <1>4, <1>5 DEF None
<1>10. Tries(Head(q), s) => ~None(q, s)
    BY <1>5 DEF None
<1> QED BY <1>1, <1>2, <1>6, <1>7, <1>8, <1>9, <1>10 DEF r, Shrinks

\* A queue of which the first k are kept: no attempt is among them that was not in it,
\* and what is not among them is in the rest.
LEMMA Cut ==
    ASSUME NEW S, NEW q \in Seq(S), NEW k \in 0..Len(q)
    PROVE  LET p == SubSeq(q, 1, k)
               r == SubSeq(q, k + 1, Len(q))
           IN /\ p \in Seq(S) /\ Len(p) = k /\ DOMAIN p \subseteq DOMAIN q
              /\ \A j \in DOMAIN p : p[j] = q[j]
              /\ \A s : /\ None(q, s) => None(p, s)
                        /\ One(q, s) => None(p, s) \/ One(p, s)
                        /\ ~None(q, s) => ~None(p, s) \/ ~None(r, s)
<1> DEFINE p == SubSeq(q, 1, k)
           r == SubSeq(q, k + 1, Len(q))
<1>1. /\ Len(q) \in Nat /\ k \in Nat /\ k <= Len(q) /\ DOMAIN q = 1..Len(q)
    OBVIOUS
<1>2. /\ p \in Seq(S) /\ Len(p) = k /\ DOMAIN p = 1..k
      /\ \A j \in 1..k : p[j] = q[j]
    BY <1>1, SubSeqProperties
<1>3. /\ r \in Seq(S) /\ DOMAIN r = 1..(Len(q) - k)
      /\ \A j \in 1..(Len(q) - k) : r[j] = q[k + j]
    BY <1>1, SubSeqProperties
<1> HIDE DEF p, r
<1>4. DOMAIN p \subseteq DOMAIN q /\ \A j \in DOMAIN p : p[j] = q[j]
    BY <1>1, <1>2
<1>5. ASSUME NEW s
      PROVE  /\ None(q, s) => None(p, s)
             /\ One(q, s) => None(p, s) \/ One(p, s)
             /\ ~None(q, s) => ~None(p, s) \/ ~None(r, s)
    <2>1. Attempts(p, s) \subseteq Attempts(q, s) /\ Attempts(p, s) \subseteq DOMAIN p
        BY <1>4 DEF Attempts
    <2>2. ASSUME NEW j \in Attempts(q, s)
          PROVE  j \in Attempts(p, s) \/ j - k \in Attempts(r, s)
        <3>1. CASE j <= k
            BY <1>1, <1>2, <2>2, <3>1 DEF Attempts
        <3>2. CASE j > k
            <4>1. j - k \in 1..(Len(q) - k) /\ k + (j - k) = j
                BY <1>1, <2>2, <3>2 DEF Attempts
            <4> QED BY <1>3, <2>2, <4>1 DEF Attempts
        <3> QED BY <1>1, <2>2, <3>1, <3>2 DEF Attempts
    <2> QED BY <2>1, <2>2 DEF None, One
<1> QED BY <1>2, <1>4, <1>5 DEF p, r

-----------------------------------------------------------------------------
(* The inductive invariant.                                                *)

Typed ==
    /\ visible \subseteq Ssids /\ saved \subseteq Ssids /\ active \in visible \cup {NoSsid}
    /\ requests \in Seq(Requests) /\ events \in Seq(Answers)
    /\ Len(requests) <= RequestCap /\ Len(events) <= EventCap
    /\ view \in States \cup {NoState} /\ withheld \in States \cup {NoState}
    /\ alive \subseteq {"task", "worker", "watcher"} /\ changes \in 0..MaxChanges
    /\ popup \in Ssids \cup {NoSsid}
    /\ dialog \in [kind : {"none", "forget", "password"}, ssid : Ssids \cup {NoSsid},
                   secret : BOOLEAN]
    /\ connecting \subseteq Ssids /\ spawned \subseteq Ssids /\ orphans \subseteq connecting

\* What a password dialog and an attempt name is a network.
Named ==
    /\ dialog.kind = "password" => dialog.ssid \in Ssids
    /\ \A k \in DOMAIN requests :
          requests[k].kind \in {"select", "auth"} => requests[k].ssid \in Ssids
    /\ \A k \in DOMAIN events :
          events[k].kind \in {"select", "auth"} => events[k].ssid \in Ssids

\* An attempt is with the task that sends it or in one of the queues, once; its network
\* is marked as being connected to, and nobody is being asked for its password.
Single(s) ==
    /\ s \in spawned => None(requests, s) /\ None(events, s)
    /\ None(requests, s) \/ (One(requests, s) /\ None(events, s))
    /\ None(events, s) \/ One(events, s)
    /\ s \in spawned \/ ~None(requests, s) \/ ~None(events, s)
          => s \in connecting /\ ~Asking(s)

Singles == \A s \in Ssids \ {Hidden} : Single(s)

Inv == Typed /\ Named /\ Singles /\ ConnectingAccounted

LEMMA InitInv == Init => Inv
<1> SUFFICES ASSUME Init
             PROVE  Inv
    OBVIOUS
<1> USE DEF Init, NoDialog
<1>1. Typed
    BY WifiAssumption DEF Typed
<1>2. Named /\ ConnectingAccounted
    BY DEF Named, ConnectingAccounted
<1>3. Singles
    BY DEF Singles, Single, None, Attempts
<1> QED BY <1>1, <1>2, <1>3 DEF Inv

LEMMA SnapshotTyped == Typed => Snapshot \in States
BY DEF Typed, Snapshot, States

LEMMA NothingTyped == Nothing \in States
BY DEF Nothing, States

LEMMA ChangeTyped == Typed /\ (Change \/ UNCHANGED changes) => changes' \in 0..MaxChanges
BY WifiAssumption DEF Typed, Change

LEMMA ReadTyped ==
    ASSUME Typed, NEW now, NEW state, Read(now, state)
    PROVE  changes' \in 0..MaxChanges
BY ChangeTyped DEF Read

LEMMA PendingIs == \A s : Pending(s) <=> s \in spawned \/ ~None(requests, s) \/ ~None(events, s)
BY DEF Pending, None

LEMMA PendingThenIs ==
    \A s : Pending(s)' <=> s \in spawned' \/ ~None(requests', s) \/ ~None(events', s)
BY DEF Pending, None

-----------------------------------------------------------------------------
(* What the queue operations keep.                                         *)

\* Of an element: an attempt names a network.
NamedOne(e) == e.kind \in {"select", "auth"} => e.ssid \in Ssids

LEMMA Pushed ==
    ASSUME Typed, Named, NEW r \in Requests, NamedOne(r), Send(r)
    PROVE  /\ requests' \in Seq(Requests) /\ Len(requests') <= RequestCap
           /\ \A k \in DOMAIN requests' : NamedOne(requests'[k])
           /\ IF "worker" \in alive THEN \A s : Grows(requests, r, requests', s)
              ELSE requests' = requests
<1>1. CASE "worker" \in alive
    <2>1. /\ requests \in Seq(Requests) /\ requests' = Append(requests, r)
          /\ Len(requests) < RequestCap
        BY <1>1 DEF Typed, Send
    <2>2. /\ Len(requests) \in Nat /\ Len(requests') = Len(requests) + 1
          /\ \A k \in DOMAIN requests' : k \in DOMAIN requests \/ k = Len(requests) + 1
          /\ \A k \in DOMAIN requests : requests'[k] = requests[k]
          /\ requests'[Len(requests) + 1] = r
        BY <2>1
    <2>3. Len(requests') <= RequestCap
        BY <2>1, <2>2, WifiAssumption
    <2>4. \A k \in DOMAIN requests' : NamedOne(requests'[k])
        BY <2>2 DEF Named, NamedOne
    <2>5. \A s : Grows(requests, r, requests', s)
        BY <2>1, Appended
    <2>6. requests' \in Seq(Requests)
        BY <2>1
    <2> QED BY <1>1, <2>3, <2>4, <2>5, <2>6
<1>2. CASE "worker" \notin alive
    BY <1>2 DEF Typed, Named, NamedOne, Send
<1> QED BY <1>1, <1>2

LEMMA Answered ==
    ASSUME Typed, Named, NEW e \in Answers, NamedOne(e), Len(events) < EventCap,
           events' = Append(events, e)
    PROVE  /\ events' \in Seq(Answers) /\ Len(events') <= EventCap
           /\ \A k \in DOMAIN events' : NamedOne(events'[k])
           /\ \A s : Grows(events, e, events', s)
<1>1. events \in Seq(Answers)
    BY DEF Typed
<1>2. /\ Len(events) \in Nat /\ Len(events') = Len(events) + 1
      /\ \A k \in DOMAIN events' : k \in DOMAIN events \/ k = Len(events) + 1
      /\ \A k \in DOMAIN events : events'[k] = events[k]
      /\ events'[Len(events) + 1] = e
    BY <1>1
<1>3. Len(events') <= EventCap
    BY <1>2, WifiAssumption
<1>4. \A k \in DOMAIN events' : NamedOne(events'[k])
    BY <1>2 DEF Named, NamedOne
<1>5. \A s : Grows(events, e, events', s)
    BY <1>1, Appended
<1>6. events' \in Seq(Answers)
    BY <1>1
<1> QED BY <1>3, <1>4, <1>5, <1>6

LEMMA Removed ==
    ASSUME NEW S, NEW q \in Seq(S), q # <<>>, NEW Cap \in Nat, Len(q) <= Cap,
           \A k \in DOMAIN q : NamedOne(q[k])
    PROVE  /\ Head(q) \in S /\ NamedOne(Head(q))
           /\ Tail(q) \in Seq(S) /\ Len(Tail(q)) <= Cap
           /\ \A k \in DOMAIN Tail(q) : NamedOne(Tail(q)[k])
           /\ \A s : Shrinks(q, Head(q), Tail(q), s)
<1>1. /\ Len(q) \in Nat \ {0} /\ DOMAIN q = 1..Len(q) /\ Head(q) = q[1]
      /\ Tail(q) \in Seq(S) /\ Len(Tail(q)) = Len(q) - 1
      /\ DOMAIN Tail(q) = 1..(Len(q) - 1)
      /\ \A k \in 1..(Len(q) - 1) : Tail(q)[k] = q[k + 1]
    BY HeadTailProperties
<1>2. \A k \in 1..(Len(q) - 1) : k + 1 \in 1..Len(q)
    BY <1>1
<1>3. \A k \in DOMAIN Tail(q) : NamedOne(Tail(q)[k])
    BY <1>1, <1>2
<1>4. NamedOne(Head(q)) /\ Len(Tail(q)) <= Cap
    BY <1>1
<1> QED BY <1>1, <1>3, <1>4, Taken

-----------------------------------------------------------------------------
(* Steps that neither begin, move nor end an attempt.                      *)

Same(q, p) ==
    \A s : (None(p, s) <=> None(q, s)) /\ (One(q, s) => One(p, s))

LEMMA Kept ==
    ASSUME Inv, Typed', Named', Same(requests, requests'), Same(events, events'),
           connecting' = connecting, spawned' = spawned, orphans \subseteq orphans',
           \A s \in Ssids \ {Hidden} : Asking(s)' => Asking(s) \/ s \notin connecting,
           \A s \in connecting : Asking(s) => Asking(s)' \/ s \in orphans'
    PROVE  Inv'
<1>1. Singles'
    <2> SUFFICES ASSUME NEW s \in Ssids \ {Hidden}
                 PROVE  Single(s)'
        BY DEF Singles
    <2>1. Single(s)
        BY DEF Inv, Singles
    <2>2. /\ None(requests', s) <=> None(requests, s)
          /\ One(requests, s) => One(requests', s)
          /\ None(events', s) <=> None(events, s)
          /\ One(events, s) => One(events', s)
        BY DEF Same
    <2> QED BY <2>1, <2>2 DEF Single
<1>2. ConnectingAccounted'
    <2> SUFFICES ASSUME NEW s \in connecting
                 PROVE  Pending(s)' \/ Asking(s)' \/ s \in orphans'
        BY DEF ConnectingAccounted
    <2>1. Pending(s) \/ Asking(s) \/ s \in orphans
        BY DEF Inv, ConnectingAccounted
    <2>2. /\ None(requests', s) <=> None(requests, s)
          /\ None(events', s) <=> None(events, s)
        BY DEF Same
    <2> QED BY <2>1, <2>2, PendingIs, PendingThenIs
<1> QED BY <1>1, <1>2 DEF Inv

LEMMA DialogSet ==
    ASSUME Inv, NEW d, SetDialog(d), connecting' = connecting
    PROVE  /\ dialog' = d /\ orphans \subseteq orphans' /\ orphans' \subseteq connecting
           /\ \A s \in connecting : Asking(s) => Asking(s)' \/ s \in orphans'
BY DEF Inv, Typed, SetDialog, Asking

LEMMA SameDialog ==
    ASSUME Inv, UNCHANGED dialog
    PROVE  /\ dialog'.kind = "password" => dialog'.ssid \in Ssids
           /\ \A s : Asking(s)' <=> Asking(s)
BY DEF Inv, Named, Asking

\* What the user sees and says, and what NetworkManager does on its own.
Plain ==
    \/ NetworkChanges \/ WatcherEnds \/ Connected
    \/ RequestSecret \/ SecretCancelled \/ SecretFailed
    \/ ViewLess \/ CancelDialog
    \/ \E s \in Ssids : PasswordRequest(s) \/ ViewMore(s) \/ ForgetRequest(s)
    \/ UNCHANGED vars

LEMMA PlainTyped ==
    ASSUME Inv, Plain
    PROVE  Typed'
<1> USE DEF Inv, Typed
<1>0. NoDialog \in [kind : {"none", "forget", "password"}, ssid : Ssids \cup {NoSsid},
                   secret : BOOLEAN]
    BY DEF NoDialog
<1>1. CASE NetworkChanges
    <2>1. changes' \in 0..MaxChanges
        BY <1>1, ChangeTyped DEF NetworkChanges
    <2>2. visible' \subseteq Ssids /\ saved' \subseteq Ssids /\ active' \in visible' \cup {NoSsid}
        BY <1>1 DEF NetworkChanges
    <2> QED BY <1>1, <2>1, <2>2 DEF NetworkChanges, ui
<1>2. CASE Connected
    <2>1. changes' \in 0..MaxChanges
        BY <1>2, ReadTyped DEF Connected
    <2>2. view' \in States
        BY <1>2, SnapshotTyped, NothingTyped DEF Connected
    <2> QED BY <1>2, <2>1, <2>2 DEF Connected, nm
<1>3. CASE RequestSecret
    <2>1. changes' \in 0..MaxChanges
        BY <1>3, ChangeTyped DEF RequestSecret
    <2>2. orphans' \subseteq connecting'
        BY <1>3, DialogSet DEF RequestSecret
    <2>3. dialog' \in [kind : {"none", "forget", "password"}, ssid : Ssids \cup {NoSsid},
                      secret : BOOLEAN]
        <3>1. CASE Hidden \in view.visible
            <4>1. dialog' = Password(Hidden, TRUE) /\ view \in States
                BY <1>3, <3>1 DEF RequestSecret, SetDialog, Ready
            <4> QED BY <3>1, <4>1 DEF Password, States
        <3>2. CASE Hidden \notin view.visible
            BY <1>3, <3>2 DEF RequestSecret
        <3> QED BY <3>1, <3>2
    <2> QED BY <1>3, <2>1, <2>2, <2>3 DEF RequestSecret, nm
<1>4. CASE SecretCancelled
    <2>1. orphans' \subseteq connecting' /\ dialog' = NoDialog
        BY <1>4, DialogSet DEF SecretCancelled
    <2> QED BY <1>0, <1>4, <2>1 DEF SecretCancelled, nm, messages
<1>5. CASE SecretFailed
    <2> DEFINE d == IF dialog.kind = "password" THEN Password(dialog.ssid, FALSE) ELSE NoDialog
    <2>1. d \in [kind : {"none", "forget", "password"}, ssid : Ssids \cup {NoSsid},
                secret : BOOLEAN]
        BY <1>0 DEF Password
    <2>2. SetDialog(d) /\ connecting' = connecting
        BY <1>5 DEF SecretFailed
    <2> HIDE DEF d
    <2>3. orphans' \subseteq connecting' /\ dialog' = d
        BY <2>2, DialogSet
    <2> QED BY <1>5, <2>1, <2>3 DEF SecretFailed, nm, messages
<1>6. CASE ViewLess
    BY <1>6 DEF ViewLess, ClosePopup, nm, messages
<1>7. CASE CancelDialog
    <2>1. orphans' \subseteq connecting' /\ dialog' = NoDialog
        BY <1>7, DialogSet DEF CancelDialog
    <2> QED BY <1>0, <1>7, <2>1 DEF CancelDialog, nm, messages
<1>8. ASSUME NEW s \in Ssids, PasswordRequest(s)
      PROVE  Typed'
    BY <1>8 DEF PasswordRequest, Password, nm, messages
<1>9. ASSUME NEW s \in Ssids, ViewMore(s)
      PROVE  Typed'
    BY <1>9 DEF ViewMore, nm, messages
<1>10. ASSUME NEW s \in Ssids, ForgetRequest(s)
       PROVE  Typed'
    BY <1>10 DEF ForgetRequest, Forgetting, nm, messages
<1>11. CASE UNCHANGED vars
    BY <1>11 DEF vars, nm, messages, ui
<1>12. CASE WatcherEnds
    <2>1. changes' \in 0..MaxChanges
        BY <1>12, ChangeTyped DEF WatcherEnds
    <2> QED BY <1>12, <2>1 DEF WatcherEnds, nm, ui
<1> QED BY <1>1, <1>2, <1>3, <1>4, <1>5, <1>6, <1>7, <1>8, <1>9, <1>10, <1>11, <1>12 DEF Plain

LEMMA PlainKeeps ==
    ASSUME Inv, Plain
    PROVE  Inv'
<1>1. UNCHANGED <<requests, events, connecting, spawned>>
    BY DEF Plain, NetworkChanges, WatcherEnds, Connected, RequestSecret, SecretCancelled, SecretFailed,
           ViewLess, CancelDialog, PasswordRequest, ViewMore, ForgetRequest,
           vars, nm, messages, ui
<1>2. Same(requests, requests') /\ Same(events, events')
    BY <1>1 DEF Same
<1> DEFINE Dialogs ==
              /\ orphans \subseteq orphans'
              /\ dialog'.kind = "password" => dialog'.ssid \in Ssids
              /\ \A s \in Ssids \ {Hidden} : Asking(s)' => Asking(s) \/ s \notin connecting
              /\ \A s \in connecting : Asking(s) => Asking(s)' \/ s \in orphans'
<1>3. Dialogs
    <2>1. CASE RequestSecret
        <3>1. CASE Hidden \in view.visible
            <4>1. SetDialog(Password(Hidden, TRUE))
                BY <2>1, <3>1 DEF RequestSecret
            <4>2. Hidden \in Ssids
                BY <2>1, <3>1 DEF RequestSecret, Ready, States, Inv, Typed
            <4> QED BY <1>1, <4>1, <4>2, DialogSet DEF Password, Asking
        <3>2. CASE Hidden \notin view.visible
            BY <2>1, <3>2, SameDialog DEF RequestSecret
        <3> QED BY <3>1, <3>2
    <2>2. CASE SecretCancelled
        <3>1. SetDialog(NoDialog)
            BY <2>2 DEF SecretCancelled
        <3> QED BY <1>1, <3>1, DialogSet DEF NoDialog, Asking
    <2>3. CASE CancelDialog
        <3>1. SetDialog(NoDialog)
            BY <2>3 DEF CancelDialog
        <3> QED BY <1>1, <3>1, DialogSet DEF NoDialog, Asking
    <2>4. CASE SecretFailed
        <3>1. SetDialog(IF dialog.kind = "password" THEN Password(dialog.ssid, FALSE)
                        ELSE NoDialog)
            BY <2>4 DEF SecretFailed
        <3>2. CASE dialog.kind = "password"
            <4>1. SetDialog(Password(dialog.ssid, FALSE)) /\ dialog.ssid \in Ssids
                BY <3>1, <3>2 DEF Inv, Named
            <4> QED BY <1>1, <3>2, <4>1, DialogSet DEF Password, Asking
        <3>3. CASE dialog.kind # "password"
            <4>1. SetDialog(NoDialog)
                BY <3>1, <3>3
            <4> QED BY <1>1, <4>1, DialogSet DEF NoDialog, Asking
        <3> QED BY <3>2, <3>3
    <2>5. ASSUME NEW s \in Ssids, PasswordRequest(s)
          PROVE  Dialogs
        BY <2>5 DEF PasswordRequest, Password, Asking, CanConnect, AtPage, NoDialog
    <2>6. ASSUME NEW s \in Ssids, ForgetRequest(s)
          PROVE  Dialogs
        BY <2>6 DEF ForgetRequest, Forgetting, Asking, AtPage, NoDialog
    <2>7. CASE UNCHANGED <<dialog, orphans>>
        BY <2>7, SameDialog
    <2>8. (\/ NetworkChanges \/ WatcherEnds \/ Connected \/ ViewLess
           \/ (\E s \in Ssids : ViewMore(s)) \/ UNCHANGED vars) => UNCHANGED <<dialog, orphans>>
        BY DEF NetworkChanges, WatcherEnds, Connected, ViewLess, ViewMore, vars, nm, messages, ui
    <2> QED BY <2>1, <2>2, <2>3, <2>4, <2>5, <2>6, <2>7, <2>8 DEF Plain
<1>4. Named'
    BY <1>1, <1>3 DEF Inv, Named
<1> QED BY <1>1, <1>2, <1>3, <1>4, PlainTyped, Kept

-----------------------------------------------------------------------------
(* Requests and events that are not attempts.                              *)

LEMMA ReloadKeeps ==
    ASSUME Inv, Reload
    PROVE  Inv'
<1>0. PICK state \in {Snapshot, Nothing} :
           /\ Read(Snapshot, state)
           /\ events' = Append(events, Event(Request("reload", NoSsid), TRUE, state))
    BY DEF Reload
<1> DEFINE e == Event(Request("reload", NoSsid), TRUE, state)
<1>1. e \in Answers /\ NamedOne(e) /\ \A s : ~Tries(e, s)
    BY SnapshotTyped, NothingTyped DEF Inv, Event, Request, Answers, NamedOne, Tries
<1>2. Len(events) < EventCap /\ events' = Append(events, e)
    BY <1>0 DEF Reload
<1>3. UNCHANGED <<nm, requests, alive, ui>> /\ changes' \in 0..MaxChanges
    BY <1>0, ReadTyped DEF Reload, Inv
<1> HIDE DEF e
<1>4. /\ events' \in Seq(Answers) /\ Len(events') <= EventCap
      /\ \A k \in DOMAIN events' : NamedOne(events'[k])
    BY <1>1, <1>2, Answered DEF Inv
<1>5. Same(events, events')
    <2>1. \A s : Grows(events, e, events', s)
        BY <1>1, <1>2, Answered DEF Inv
    <2> SUFFICES ASSUME NEW s
                 PROVE  /\ None(events', s) <=> None(events, s)
                        /\ One(events, s) => One(events', s)
        BY DEF Same
    <2>2. ~Tries(e, s)
        BY <1>1
    <2>3. None(events', s) <=> None(events, s)
        BY <2>1, <2>2 DEF Grows
    <2>4. One(events, s) => One(events', s)
        BY <2>1, <2>2 DEF Grows
    <2> QED BY <2>3, <2>4
<1>6. Same(requests, requests')
    BY <1>3 DEF Same
<1>7. Typed'
    BY <1>3, <1>4 DEF Inv, Typed, nm, ui
<1>8. Named'
    BY <1>3, <1>4 DEF Inv, Named, NamedOne, ui
<1> QED BY <1>3, <1>5, <1>6, <1>7, <1>8, SameDialog, Kept DEF ui

LEMMA Asked ==
    ASSUME Inv, NEW r \in Requests, r.kind \notin {"select", "auth"}, Send(r),
           UNCHANGED <<nm, events, alive, changes, connecting, spawned, orphans>>,
           view' \in States \cup {NoState}, withheld' \in States \cup {NoState},
           popup' \in Ssids \cup {NoSsid},
           dialog' = dialog \/ (dialog' = NoDialog /\ dialog.kind = "forget")
    PROVE  Inv'
<1>1. NamedOne(r) /\ \A s : ~Tries(r, s)
    BY DEF NamedOne, Tries
<1>2. /\ requests' \in Seq(Requests) /\ Len(requests') <= RequestCap
      /\ \A k \in DOMAIN requests' : NamedOne(requests'[k])
    BY <1>1, Pushed DEF Inv
<1>3. Same(requests, requests')
    <2>1. requests' = requests \/ \A s : Grows(requests, r, requests', s)
        BY <1>1, Pushed DEF Inv
    <2> SUFFICES ASSUME NEW s, \A t : Grows(requests, r, requests', t)
                 PROVE  /\ None(requests', s) <=> None(requests, s)
                        /\ One(requests, s) => One(requests', s)
        BY <2>1 DEF Same
    <2>2. ~Tries(r, s)
        BY <1>1
    <2>3. None(requests', s) <=> None(requests, s)
        BY <2>1, <2>2 DEF Grows
    <2>4. One(requests, s) => One(requests', s)
        BY <2>1, <2>2 DEF Grows
    <2> QED BY <2>3, <2>4
<1>4. Same(events, events')
    BY DEF Same
<1>5. /\ dialog' \in [kind : {"none", "forget", "password"}, ssid : Ssids \cup {NoSsid},
                     secret : BOOLEAN]
      /\ dialog'.kind = "password" => dialog'.ssid \in Ssids
      /\ \A s : Asking(s)' <=> Asking(s)
    <2>1. CASE dialog' = dialog
        BY <2>1 DEF Inv, Typed, Named, Asking
    <2>2. CASE dialog' = NoDialog /\ dialog.kind = "forget"
        BY <2>2 DEF NoDialog, Asking
    <2> QED BY <2>1, <2>2
<1>6. Typed'
    BY <1>2, <1>5 DEF Inv, Typed, nm
<1>7. Named'
    BY <1>2, <1>5 DEF Inv, Named, NamedOne
<1> QED BY <1>3, <1>4, <1>5, <1>6, <1>7, Kept

LEMMA OtherRequestsKeep ==
    ASSUME Inv, Forget \/ WiFiEnable \/ \E s \in Ssids : Disconnect(s)
    PROVE  Inv'
<1>1. CASE Forget
    <2>1. /\ Request("forget", dialog.ssid) \in Requests
          /\ Request("forget", dialog.ssid).kind = "forget"
        BY DEF Inv, Typed, Requests, Kinds, Request
    <2>2. dialog' = NoDialog /\ dialog.kind = "forget" /\ UNCHANGED orphans
        BY <1>1 DEF Forget, SetDialog
    <2> QED BY <1>1, <2>1, <2>2, Asked DEF Forget, ClosePopup, Inv, Typed
<1>2. CASE WiFiEnable
    <2>1. Request("wifi", NoSsid) \in Requests /\ Request("wifi", NoSsid).kind = "wifi"
        BY DEF Requests, Kinds, Request
    <2> QED BY <1>2, <2>1, Asked DEF WiFiEnable, ui, Inv, Typed
<1>3. ASSUME NEW s \in Ssids, Disconnect(s)
      PROVE  Inv'
    <2>1. /\ Request("disconnect", s) \in Requests
          /\ Request("disconnect", s).kind = "disconnect"
        BY DEF Requests, Kinds, Request
    <2> QED BY <1>3, <2>1, Asked DEF Disconnect, ClosePopup, Inv, Typed
<1> QED BY <1>1, <1>2, <1>3

-----------------------------------------------------------------------------
(* An attempt begins.                                                      *)

LEMMA Begun ==
    ASSUME Inv, NEW d \in Ssids, NEW kind \in {"select", "auth"}, SendAttempt(Request(kind, d)),
           UNCHANGED <<nm, events, alive, changes, view, withheld, popup>>,
           dialog' \in {dialog, NoDialog}, connecting' \in {connecting, connecting \cup {d}},
           spawned' \in {spawned, spawned \ {d}},
           \A s \in Ssids \ {d} : Asking(s) => Asking(s)',
           d # Hidden => /\ None(requests, d) /\ None(events, d)
                         /\ d \in connecting' /\ ~Asking(d)' /\ d \notin spawned'
    PROVE  Inv'
<1> DEFINE r == Request(kind, d)
<1>1. r \in Requests /\ NamedOne(r) /\ r.ssid = d /\ \A s : Tries(r, s) <=> s = d
    BY DEF Requests, Kinds, Request, NamedOne, Tries
<1>2. SendAttempt(r)
    OBVIOUS
<1> HIDE DEF r
<1>3. Send(r) /\ orphans' = IF "worker" \in alive THEN orphans \ {d}
                            ELSE orphans \cup ({d} \cap connecting')
    BY <1>1, <1>2 DEF SendAttempt
<1>4. /\ requests' \in Seq(Requests) /\ Len(requests') <= RequestCap
      /\ \A k \in DOMAIN requests' : NamedOne(requests'[k])
    BY <1>1, <1>3, Pushed DEF Inv
<1>5. \A s : /\ None(requests, d) => None(requests', d) \/ One(requests', d)
             /\ "worker" \in alive => ~None(requests', d)
             /\ s # d => /\ None(requests', s) <=> None(requests, s)
                         /\ One(requests, s) => One(requests', s)
    <2>1. CASE "worker" \in alive
        <3>1. \A s : Grows(requests, r, requests', s)
            BY <1>1, <1>3, <2>1, Pushed DEF Inv
        <3> SUFFICES ASSUME NEW s
                     PROVE  /\ None(requests, d) => One(requests', d)
                            /\ ~None(requests', d)
                            /\ s # d => /\ None(requests', s) <=> None(requests, s)
                                        /\ One(requests, s) => One(requests', s)
            OBVIOUS
        <3>2. /\ Tries(r, d) /\ Grows(requests, r, requests', d)
              /\ Tries(r, s) <=> s = d
              /\ Grows(requests, r, requests', s)
            BY <1>1, <3>1
        <3> QED BY <3>2 DEF Grows
    <2>2. CASE "worker" \notin alive
        BY <1>1, <1>3, <2>2, Pushed DEF Inv
    <2> QED BY <2>1, <2>2
<1>6. Typed'
    <2>1. connecting' \subseteq Ssids /\ spawned' \subseteq Ssids /\ orphans' \subseteq connecting'
        BY <1>3 DEF Inv, Typed
    <2>2. dialog' \in [kind : {"none", "forget", "password"}, ssid : Ssids \cup {NoSsid},
                      secret : BOOLEAN]
        <3>1. CASE dialog' = dialog
            BY <3>1 DEF Inv, Typed
        <3>2. CASE dialog' = NoDialog
            BY <3>2 DEF NoDialog
        <3> QED BY <3>1, <3>2
    <2> QED BY <1>4, <2>1, <2>2 DEF Inv, Typed, nm
<1>7. Named'
    BY <1>4 DEF Inv, Named, NamedOne, NoDialog
<1>8. \A s : Asking(s)' => Asking(s)
    BY DEF Asking, NoDialog
<1>9. Singles'
    <2> SUFFICES ASSUME NEW s \in Ssids \ {Hidden}
                 PROVE  Single(s)'
        BY DEF Singles
    <2>1. Single(s)
        BY DEF Inv, Singles
    <2>2. CASE s = d
        BY <1>5, <2>2 DEF Single
    <2>3. CASE s # d
        BY <1>5, <1>8, <2>1, <2>3 DEF Single
    <2> QED BY <2>2, <2>3
<1>10. ConnectingAccounted'
    <2> SUFFICES ASSUME NEW s \in connecting'
                 PROVE  Pending(s)' \/ Asking(s)' \/ s \in orphans'
        BY DEF ConnectingAccounted
    <2>1. CASE s = d
        BY <1>3, <1>5, <2>1, PendingThenIs
    <2>2. CASE s # d
        <3>1. s \in connecting /\ s \in Ssids \ {d}
            BY <2>2 DEF Inv, Typed
        <3>2. Pending(s) \/ Asking(s) \/ s \in orphans
            BY <3>1 DEF Inv, ConnectingAccounted
        <3>3. Pending(s) => Pending(s)'
            BY <1>5, <2>2, PendingIs, PendingThenIs
        <3> QED BY <1>3, <2>2, <3>1, <3>2, <3>3
    <2> QED BY <2>1, <2>2
<1> QED BY <1>6, <1>7, <1>9, <1>10 DEF Inv

LEMMA ConnectKeeps ==
    ASSUME Inv, NEW s \in Ssids, Connect(s)
    PROVE  Inv'
<1>1. /\ s \notin connecting /\ SendAttempt(Request("select", s))
      /\ connecting' = connecting \cup {s}
      /\ UNCHANGED <<nm, events, alive, changes, view, withheld, popup, dialog, spawned>>
      /\ dialog = NoDialog
    BY DEF Connect, CanConnect, AtPage
<1>2. \A t : ~Asking(t) /\ ~Asking(t)'
    BY <1>1 DEF NoDialog, Asking
<1>3. s # Hidden => None(requests, s) /\ None(events, s) /\ s \notin spawned
    BY <1>1 DEF Inv, Singles, Single
<1> QED BY <1>1, <1>2, <1>3, Begun

LEMMA ConnectWithPasswordKeeps ==
    ASSUME Inv, ConnectWithPassword
    PROVE  Inv'
<1> DEFINE d == dialog.ssid
<1>1. /\ dialog' = NoDialog /\ connecting' = connecting \cup {d}
      /\ UNCHANGED <<nm, events, alive, view, withheld, popup>>
      /\ SendPassword(d, dialog.secret)
    BY DEF ConnectWithPassword
<1>2. d \in Ssids /\ Asking(d) /\ \A s \in Ssids : Asking(s) => s = d
    BY DEF ConnectWithPassword, Inv, Named, Asking
<1>3. d # Hidden => None(requests, d) /\ None(events, d) /\ d \notin spawned
    BY <1>2 DEF Inv, Singles, Single
<1>4. \A s : ~Asking(s)'
    BY <1>1 DEF NoDialog, Asking
<1> HIDE DEF d
<1>5. CASE SendAttempt(Request("auth", d)) /\ UNCHANGED <<changes, spawned>>
    BY <1>1, <1>2, <1>3, <1>4, <1>5, Begun
<1>6. CASE /\ UNCHANGED requests /\ changes' \in 0..MaxChanges
           /\ \/ spawned' = spawned /\ orphans' = orphans \cup {d}
              \/ spawned' = spawned \cup {d} /\ orphans' = orphans \ {d}
    <2>1. Typed'
        BY <1>1, <1>2, <1>6 DEF Inv, Typed, nm, NoDialog
    <2>2. Named'
        BY <1>1, <1>6 DEF Inv, Named, NoDialog
    <2>3. Singles'
        <3> SUFFICES ASSUME NEW s \in Ssids \ {Hidden}
                     PROVE  Single(s)'
            BY DEF Singles
        <3>1. Single(s)
            BY DEF Inv, Singles
        <3>2. (s \in spawned' => s \in spawned \/ s = d) /\ connecting \subseteq connecting'
            BY <1>1, <1>6
        <3>3. UNCHANGED <<requests, events>> /\ ~Asking(s)' /\ d \in connecting'
            BY <1>1, <1>4, <1>6
        <3> QED BY <1>3, <3>1, <3>2, <3>3 DEF Single
    <2>4. ConnectingAccounted'
        <3> SUFFICES ASSUME NEW s \in connecting'
                     PROVE  Pending(s)' \/ s \in orphans'
            BY DEF ConnectingAccounted
        <3>1. CASE s = d
            BY <1>6, <3>1, PendingThenIs
        <3>2. CASE s # d
            <4>1. s \in connecting /\ s \in Ssids
                BY <1>1, <3>2 DEF Inv, Typed
            <4>2. Pending(s) \/ s \in orphans
                BY <1>2, <3>2, <4>1 DEF Inv, ConnectingAccounted
            <4>3. Pending(s) => Pending(s)'
                BY <1>1, <1>6, PendingIs, PendingThenIs
            <4> QED BY <1>6, <3>2, <4>2, <4>3
        <3> QED BY <3>1, <3>2
    <2> QED BY <2>1, <2>2, <2>3, <2>4 DEF Inv
<1> QED BY <1>1, <1>5, <1>6, ChangeTyped DEF SendPassword, Inv

LEMMA AuthenticateKeeps ==
    ASSUME Inv, NEW s \in Ssids, Authenticate(s)
    PROVE  Inv'
<1>1. /\ s \in spawned /\ spawned' = spawned \ {s} /\ SendAttempt(Request("auth", s))
      /\ UNCHANGED <<nm, events, alive, changes, view, withheld, popup, dialog, connecting>>
    BY DEF Authenticate
<1>2. \A t : Asking(t)' <=> Asking(t)
    BY <1>1 DEF Asking
<1>3. s # Hidden => None(requests, s) /\ None(events, s) /\ s \in connecting /\ ~Asking(s)
    BY <1>1 DEF Inv, Singles, Single
<1> QED BY <1>1, <1>2, <1>3, Begun

-----------------------------------------------------------------------------
(* An attempt moves from one queue to the other, or is lost.               *)

LEMMA HeadRequest ==
    ASSUME Inv, requests # <<>>, requests' = Tail(requests)
    PROVE  /\ Head(requests) \in Requests /\ NamedOne(Head(requests))
           /\ requests' \in Seq(Requests) /\ Len(requests') <= RequestCap
           /\ \A k \in DOMAIN requests' : NamedOne(requests'[k])
           /\ \A s : Shrinks(requests, Head(requests), requests', s)
<1>1. /\ requests \in Seq(Requests) /\ Len(requests) <= RequestCap /\ RequestCap \in Nat
      /\ \A k \in DOMAIN requests : NamedOne(requests[k])
    BY WifiAssumption DEF Inv, Typed, Named, NamedOne
<1> QED BY <1>1, Removed

LEMMA HeadEvent ==
    ASSUME Inv, events # <<>>, events' = Tail(events)
    PROVE  /\ Head(events) \in Answers /\ NamedOne(Head(events))
           /\ events' \in Seq(Answers) /\ Len(events') <= EventCap
           /\ \A k \in DOMAIN events' : NamedOne(events'[k])
           /\ \A s : Shrinks(events, Head(events), events', s)
<1>1. /\ events \in Seq(Answers) /\ Len(events) <= EventCap /\ EventCap \in Nat
      /\ \A k \in DOMAIN events : NamedOne(events[k])
    BY WifiAssumption DEF Inv, Typed, Named, NamedOne
<1> QED BY <1>1, Removed

LEMMA ServedTyped ==
    ASSUME Inv, NEW r \in Requests, NamedOne(r), NEW ok \in BOOLEAN, Effect(r, ok)
    PROVE  /\ visible' \subseteq Ssids /\ saved' \subseteq Ssids
           /\ active' \in visible' \cup {NoSsid}
<1> USE DEF Inv, Typed
<1>1. CASE r.kind \in {"select", "auth"}
    <2>1. Attempt(r.ssid, ok) /\ r.ssid \in Ssids
        BY <1>1 DEF Effect, NamedOne
    <2> QED BY <2>1 DEF Attempt
<1>2. CASE r.kind = "disconnect"
    BY <1>2 DEF Effect
<1>3. CASE r.kind = "forget"
    BY <1>3 DEF Effect
<1>4. CASE r.kind = "wifi"
    BY <1>4 DEF Effect
<1> QED BY <1>1, <1>2, <1>3, <1>4 DEF Requests, Kinds

LEMMA ServeKeeps ==
    ASSUME Inv, Serve
    PROVE  Inv'
<1> DEFINE r == Head(requests)
<1>1. PICK ok \in BOOLEAN, state \in {Snapshot', Nothing} :
           /\ Effect(r, ok) /\ Read(Snapshot', state)
           /\ events' = Append(events, Event(r, ok, state))
    BY DEF Serve
<1>2. /\ requests # <<>> /\ requests' = Tail(requests) /\ Len(events) < EventCap
      /\ UNCHANGED <<alive, ui>> /\ changes' \in 0..MaxChanges
    BY <1>1, ReadTyped DEF Serve, Serving, Inv
<1>3. /\ r \in Requests /\ NamedOne(r)
      /\ requests' \in Seq(Requests) /\ Len(requests') <= RequestCap
      /\ \A k \in DOMAIN requests' : NamedOne(requests'[k])
    BY <1>2, HeadRequest
<1>4. \A s : Shrinks(requests, r, requests', s)
    BY <1>2, HeadRequest
<1> HIDE DEF r
<1>5. /\ visible' \subseteq Ssids /\ saved' \subseteq Ssids
      /\ active' \in visible' \cup {NoSsid}
    BY <1>1, <1>3, ServedTyped
<1> DEFINE e == Event(r, ok, state)
<1>6. state \in States
    BY <1>5, NothingTyped DEF Snapshot, States
<1>7. /\ e \in Answers /\ NamedOne(e)
      /\ \A s : Tries(e, s) <=> Tries(r, s)
    BY <1>3, <1>6 DEF Event, Answers, Requests, NamedOne, Tries
<1>8. events' = Append(events, e)
    BY <1>1
<1> HIDE DEF e
<1>9. /\ events' \in Seq(Answers) /\ Len(events') <= EventCap
      /\ \A k \in DOMAIN events' : NamedOne(events'[k])
    BY <1>2, <1>7, <1>8, Answered DEF Inv
<1>10. \A s : Grows(events, e, events', s)
    BY <1>2, <1>7, <1>8, Answered DEF Inv
<1>11. Typed'
    BY <1>2, <1>3, <1>5, <1>9 DEF Inv, Typed, ui
<1>12. Named'
    BY <1>2, <1>3, <1>9 DEF Inv, Named, NamedOne, ui
<1>13. Singles'
    <2> SUFFICES ASSUME NEW s \in Ssids \ {Hidden}
                 PROVE  Single(s)'
        BY DEF Singles
    <2>1. Single(s)
        BY DEF Inv, Singles
    <2>2. Shrinks(requests, r, requests', s) /\ Grows(events, e, events', s)
        BY <1>4, <1>10
    <2>3. Tries(e, s) <=> Tries(r, s)
        BY <1>7
    <2>4. /\ Asking(s)' <=> Asking(s)
          /\ connecting' = connecting /\ spawned' = spawned
        BY <1>2 DEF ui, Asking
    <2>5. CASE Tries(r, s)
        BY <2>1, <2>2, <2>3, <2>4, <2>5 DEF Single, Shrinks, Grows
    <2>6. CASE ~Tries(r, s)
        BY <2>1, <2>2, <2>3, <2>4, <2>6 DEF Single, Shrinks, Grows
    <2> QED BY <2>5, <2>6
<1>14. ConnectingAccounted'
    <2> SUFFICES ASSUME NEW s \in connecting
                 PROVE  Pending(s)' \/ Asking(s)' \/ s \in orphans'
        BY <1>2 DEF ConnectingAccounted, ui
    <2>1. Pending(s) \/ Asking(s)' \/ s \in orphans'
        BY <1>2 DEF Inv, ConnectingAccounted, Asking, ui
    <2>2. Shrinks(requests, r, requests', s) /\ Grows(events, e, events', s)
        BY <1>4, <1>10
    <2>3. Tries(e, s) <=> Tries(r, s)
        BY <1>7
    <2>4. Pending(s) => Pending(s)'
        BY <1>2, <2>2, <2>3, PendingIs, PendingThenIs DEF Shrinks, Grows, ui
    <2> QED BY <2>1, <2>4
<1> QED BY <1>11, <1>12, <1>13, <1>14 DEF Inv

LEMMA DropKeeps ==
    ASSUME Inv, Drop
    PROVE  Inv'
<1> DEFINE r == Head(requests)
<1>1. /\ requests # <<>> /\ requests' = Tail(requests)
      /\ orphans' = orphans \cup ({r.ssid} \cap connecting)
      /\ UNCHANGED <<nm, events, alive, view, withheld, popup, dialog, connecting, spawned>>
      /\ changes' \in 0..MaxChanges
    BY ChangeTyped DEF Drop, Serving, Inv
<1>2. /\ requests' \in Seq(Requests) /\ Len(requests') <= RequestCap
      /\ \A k \in DOMAIN requests' : NamedOne(requests'[k])
    BY <1>1, HeadRequest
<1>3. \A s : Shrinks(requests, r, requests', s)
    BY <1>1, HeadRequest
<1> HIDE DEF r
<1>4. Typed'
    BY <1>1, <1>2 DEF Inv, Typed, nm
<1>5. Named'
    BY <1>1, <1>2 DEF Inv, Named, NamedOne
<1>6. Singles'
    <2> SUFFICES ASSUME NEW s \in Ssids \ {Hidden}
                 PROVE  Single(s)'
        BY DEF Singles
    <2>1. Single(s)
        BY DEF Inv, Singles
    <2>2. Shrinks(requests, r, requests', s)
        BY <1>3
    <2>3. (Asking(s)' <=> Asking(s)) /\ UNCHANGED <<connecting, spawned, events>>
        BY <1>1 DEF Asking
    <2> QED BY <2>1, <2>2, <2>3 DEF Single, Shrinks
<1>7. ConnectingAccounted'
    <2> SUFFICES ASSUME NEW s \in connecting
                 PROVE  Pending(s)' \/ Asking(s)' \/ s \in orphans'
        BY <1>1 DEF ConnectingAccounted
    <2>1. Pending(s) \/ Asking(s)' \/ s \in orphans'
        BY <1>1 DEF Inv, ConnectingAccounted, Asking
    <2>2. Shrinks(requests, r, requests', s)
        BY <1>3
    <2>3. CASE Tries(r, s)
        BY <1>1, <2>3 DEF Tries
    <2>4. CASE ~Tries(r, s)
        BY <1>1, <2>1, <2>2, <2>4, PendingIs, PendingThenIs DEF Shrinks
    <2> QED BY <2>3, <2>4
<1> QED BY <1>4, <1>5, <1>6, <1>7 DEF Inv

\* The queue of requests is lost, and the end of that of events.
LEMMA LostKeeps ==
    ASSUME Inv, requests' = <<>>,
           NEW kept \in 0..Len(events), events' = SubSeq(events, 1, kept),
           orphans' = orphans \cup Attempting(requests)
                      \cup Attempting(SubSeq(events, kept + 1, Len(events))),
           UNCHANGED <<visible, saved, view, withheld, popup, dialog, connecting, spawned>>,
           active' \in {active, NoSsid}, alive' \subseteq alive, changes' \in 0..MaxChanges
    PROVE  Inv'
<1> DEFINE lost == SubSeq(events, kept + 1, Len(events))
<1>1. /\ events \in Seq(Answers) /\ Len(events) <= EventCap /\ Len(events) \in Nat
      /\ EventCap \in Nat /\ RequestCap \in Nat
    BY WifiAssumption DEF Inv, Typed
<1>2. /\ events' \in Seq(Answers) /\ Len(events') = kept
      /\ DOMAIN events' \subseteq DOMAIN events
      /\ \A j \in DOMAIN events' : events'[j] = events[j]
      /\ \A s : /\ None(events, s) => None(events', s)
                /\ One(events, s) => None(events', s) \/ One(events', s)
                /\ ~None(events, s) => ~None(events', s) \/ ~None(lost, s)
    BY <1>1, Cut
<1>3. orphans' = orphans \cup {s \in connecting : ~None(requests, s)}
                         \cup {s \in connecting : ~None(lost, s)}
    BY DEF Attempting, None
<1> HIDE DEF lost
<1>4. requests' \in Seq(Requests) /\ Len(requests') = 0 /\ DOMAIN requests' = {}
    OBVIOUS
<1>5. Typed'
    BY <1>1, <1>2, <1>3, <1>4 DEF Inv, Typed
<1>6. Named'
    BY <1>2, <1>4 DEF Inv, Named
<1>7. \A s : None(requests', s) /\ (Asking(s)' <=> Asking(s))
    BY <1>4 DEF None, Attempts, Asking
<1>8. Singles'
    <2> SUFFICES ASSUME NEW s \in Ssids \ {Hidden}
                 PROVE  Single(s)'
        BY DEF Singles
    <2>1. Single(s)
        BY DEF Inv, Singles
    <2> QED BY <1>2, <1>7, <2>1 DEF Single
<1>9. ConnectingAccounted'
    <2> SUFFICES ASSUME NEW s \in connecting
                 PROVE  Pending(s)' \/ Asking(s)' \/ s \in orphans'
        BY DEF ConnectingAccounted
    <2>1. Pending(s) \/ Asking(s) \/ s \in orphans
        BY DEF Inv, ConnectingAccounted
    <2> QED BY <1>2, <1>3, <1>7, <2>1, PendingIs, PendingThenIs
<1> QED BY <1>5, <1>6, <1>8, <1>9 DEF Inv

LEMMA WorkerEndsKeeps ==
    ASSUME Inv, WorkerEnds
    PROVE  Inv'
<1>1. /\ requests' = <<>> /\ alive' \subseteq alive /\ changes' \in 0..MaxChanges
      /\ orphans' = orphans \cup Attempting(requests)
      /\ UNCHANGED <<nm, events, view, withheld, popup, dialog, connecting, spawned>>
    BY ChangeTyped DEF WorkerEnds, Inv
<1>2. events \in Seq(Answers) /\ Len(events) \in Nat
    BY DEF Inv, Typed
<1> DEFINE lost == SubSeq(events, Len(events) + 1, Len(events))
<1>3. Len(events) \in 0..Len(events) /\ SubSeq(events, 1, Len(events)) = events
    BY <1>2, SubSeqProperties
<1>4. DOMAIN lost = {}
    BY <1>2, SubSeqProperties
<1>5. Attempting(lost) = {}
    BY <1>4 DEF Attempting, Attempts
<1> QED BY <1>1, <1>3, <1>5, LostKeeps DEF nm

LEMMA WorkerPanicsKeeps ==
    ASSUME Inv, WorkerPanics
    PROVE  Inv'
<1>1. /\ requests' = <<>> /\ alive' \subseteq alive /\ changes' \in 0..MaxChanges
      /\ active' \in {active, NoSsid}
      /\ UNCHANGED <<visible, saved, view, withheld, popup, dialog, connecting, spawned>>
    BY ChangeTyped DEF WorkerPanics, Inv
<1>2. PICK kept \in 0..Len(events) :
           /\ events' = SubSeq(events, 1, kept)
           /\ orphans' = orphans \cup Attempting(requests)
                         \cup Attempting(SubSeq(events, kept + 1, Len(events)))
    BY DEF WorkerPanics
<1> QED BY <1>1, <1>2, LostKeeps

-----------------------------------------------------------------------------
(* An attempt ends, or is asked about.                                     *)

LEMMA ResponseKeeps ==
    ASSUME Inv, Response
    PROVE  Inv'
<1> DEFINE e == Head(events)
           attempt == e.kind \in {"select", "auth"}
<1>1. /\ events # <<>> /\ events' = Tail(events)
      /\ UNCHANGED <<nm, requests, alive, changes, popup, spawned>>
    BY DEF Response
<1>2. /\ e \in Answers /\ NamedOne(e)
      /\ events' \in Seq(Answers) /\ Len(events') <= EventCap
      /\ \A k \in DOMAIN events' : NamedOne(events'[k])
    BY <1>1, HeadEvent
<1>3. \A s : Shrinks(events, e, events', s)
    BY <1>1, HeadEvent
<1>4. view' \in States \cup {NoState} /\ withheld' \in States \cup {NoState}
    BY <1>2 DEF Response, UpdateState, Answers, Inv, Typed
<1>5. IF attempt /\ Settled(e)
      THEN /\ connecting' = connecting \ {e.ssid} /\ orphans' = orphans \ {e.ssid}
           /\ UNCHANGED dialog
      ELSE /\ UNCHANGED connecting
           /\ IF attempt THEN Retry(e) ELSE UNCHANGED <<dialog, orphans>>
    BY DEF Response
<1>6. \A s : Tries(e, s) <=> attempt /\ s = e.ssid
    BY DEF Tries
<1>7. attempt => e.ssid \in Ssids
    BY <1>2 DEF NamedOne
<1>8. \A s : /\ Pending(s) <=> s \in spawned \/ ~None(requests, s) \/ ~None(events, s)
             /\ Pending(s)' <=> s \in spawned \/ ~None(requests, s) \/ ~None(events', s)
    BY <1>1, PendingIs, PendingThenIs
<1> HIDE DEF e, attempt
<1>9. CASE ~attempt
    <2>1. UNCHANGED <<connecting, dialog, orphans>>
        BY <1>5, <1>9
    <2>2. Same(requests, requests')
        BY <1>1 DEF Same
    <2>3. Same(events, events')
        <3> SUFFICES ASSUME NEW s
                     PROVE  /\ None(events', s) <=> None(events, s)
                            /\ One(events, s) => One(events', s)
            BY DEF Same
        <3>1. Shrinks(events, e, events', s) /\ ~Tries(e, s)
            BY <1>3, <1>6, <1>9
        <3> QED BY <3>1 DEF Shrinks
    <2>4. Typed'
        BY <1>1, <1>2, <1>4, <2>1 DEF Inv, Typed, nm
    <2>5. Named'
        BY <1>1, <1>2, <2>1 DEF Inv, Named, NamedOne
    <2> QED BY <1>1, <2>1, <2>2, <2>3, <2>4, <2>5, SameDialog, Kept
<1>10. CASE attempt /\ Settled(e)
    <2>1. /\ connecting' = connecting \ {e.ssid} /\ orphans' = orphans \ {e.ssid}
          /\ UNCHANGED dialog
        BY <1>5, <1>10
    <2>2. Typed'
        BY <1>1, <1>2, <1>4, <2>1 DEF Inv, Typed, nm
    <2>3. Named'
        BY <1>1, <1>2, <2>1 DEF Inv, Named, NamedOne
    <2>4. Singles'
        <3> SUFFICES ASSUME NEW s \in Ssids \ {Hidden}
                     PROVE  Single(s)'
            BY DEF Singles
        <3>1. Single(s) /\ Shrinks(events, e, events', s)
            BY <1>3 DEF Inv, Singles
        <3>2. (Tries(e, s) <=> s = e.ssid) /\ (Asking(s)' <=> Asking(s))
            BY <1>6, <1>10, <2>1 DEF Asking
        <3>3. CASE s = e.ssid
            BY <1>1, <2>1, <3>1, <3>2, <3>3 DEF Single, Shrinks
        <3>4. CASE s # e.ssid
            BY <1>1, <2>1, <3>1, <3>2, <3>4 DEF Single, Shrinks
        <3> QED BY <3>3, <3>4
    <2>5. ConnectingAccounted'
        <3> SUFFICES ASSUME NEW s \in connecting, s # e.ssid
                     PROVE  Pending(s)' \/ Asking(s)' \/ s \in orphans'
            BY <2>1 DEF ConnectingAccounted
        <3>1. Pending(s) \/ Asking(s)' \/ s \in orphans'
            BY <2>1 DEF Inv, ConnectingAccounted, Asking
        <3>2. Shrinks(events, e, events', s) /\ ~Tries(e, s)
            BY <1>3, <1>6
        <3> QED BY <1>8, <3>1, <3>2 DEF Shrinks
    <2> QED BY <2>2, <2>3, <2>4, <2>5 DEF Inv
<1>11. CASE attempt /\ ~Settled(e)
    <2>1. UNCHANGED connecting /\ SetDialog(Password(e.ssid, FALSE))
        BY <1>5, <1>11 DEF Retry
    <2>2. /\ dialog' = Password(e.ssid, FALSE)
          /\ orphans' \subseteq connecting /\ orphans \subseteq orphans'
          /\ \A s \in connecting : Asking(s) => Asking(s)' \/ s \in orphans'
        BY <2>1, DialogSet
    <2>3. e.ssid \in Ssids /\ \A s : Asking(s)' <=> s = e.ssid
        BY <1>7, <1>11, <2>2 DEF Asking, Password
    <2>4. Typed'
        BY <1>1, <1>2, <1>4, <2>1, <2>2, <2>3 DEF Inv, Typed, nm, Password
    <2>5. Named'
        BY <1>1, <1>2, <2>2, <2>3 DEF Inv, Named, NamedOne, Password
    <2>6. Singles'
        <3> SUFFICES ASSUME NEW s \in Ssids \ {Hidden}
                     PROVE  Single(s)'
            BY DEF Singles
        <3>1. Single(s) /\ Shrinks(events, e, events', s)
            BY <1>3 DEF Inv, Singles
        <3>2. (Tries(e, s) <=> s = e.ssid) /\ (Asking(s)' <=> s = e.ssid)
            BY <1>6, <1>11, <2>3
        <3>3. CASE s = e.ssid
            BY <1>1, <2>1, <3>1, <3>2, <3>3 DEF Single, Shrinks
        <3>4. CASE s # e.ssid
            BY <1>1, <2>1, <3>1, <3>2, <3>4 DEF Single, Shrinks
        <3> QED BY <3>3, <3>4
    <2>7. ConnectingAccounted'
        <3> SUFFICES ASSUME NEW s \in connecting
                     PROVE  Pending(s)' \/ Asking(s)' \/ s \in orphans'
            BY <2>1 DEF ConnectingAccounted
        <3>1. CASE s = e.ssid
            BY <2>3, <3>1
        <3>2. CASE s # e.ssid
            <4>1. Pending(s) \/ Asking(s)' \/ s \in orphans'
                BY <2>2 DEF Inv, ConnectingAccounted
            <4>2. Shrinks(events, e, events', s) /\ ~Tries(e, s)
                BY <1>3, <1>6, <3>2
            <4> QED BY <1>8, <4>1, <4>2 DEF Shrinks
        <3> QED BY <3>1, <3>2
    <2> QED BY <2>4, <2>5, <2>6, <2>7 DEF Inv
<1> QED BY <1>9, <1>10, <1>11

-----------------------------------------------------------------------------
(* The invariant, and the theorems.                                        *)

LEMMA NextInv ==
    ASSUME Inv, [Next]_vars
    PROVE  Inv'
<1>1. CASE Plain
    BY <1>1, PlainKeeps
<1>2. CASE Reload
    BY <1>2, ReloadKeeps
<1>3. CASE Serve
    BY <1>3, ServeKeeps
<1>4. CASE Drop
    BY <1>4, DropKeeps
<1>5. CASE Response
    BY <1>5, ResponseKeeps
<1>6. CASE Forget \/ WiFiEnable \/ \E s \in Ssids : Disconnect(s)
    BY <1>6, OtherRequestsKeep
<1>7. CASE ConnectWithPassword
    BY <1>7, ConnectWithPasswordKeeps
<1>8. CASE \E s \in Ssids : Connect(s)
    BY <1>8, ConnectKeeps
<1>9. CASE \E s \in Ssids : Authenticate(s)
    BY <1>9, AuthenticateKeeps
<1>10. CASE WorkerEnds
    BY <1>10, WorkerEndsKeeps
<1>11. CASE WorkerPanics
    BY <1>11, WorkerPanicsKeeps
<1> QED BY <1>1, <1>2, <1>3, <1>4, <1>5, <1>6, <1>7, <1>8, <1>9, <1>10, <1>11
        DEF Next, Worker, Message, User, Plain

LEMMA InvAlways == Spec => []Inv
BY InitInv, NextInv, PTL DEF Spec

\* The page's and the worker's state has its types, and every list is within its bound.
THEOREM WifiTypeCorrect == Spec => []TypeOK
<1>1. Inv => TypeOK
    <2> SUFFICES ASSUME Typed
                 PROVE  TypeOK
        BY DEF Inv
    <2>1. requests \in Seq([kind : {"select", "auth", "disconnect", "forget", "wifi"},
                           ssid : Ssids \cup {NoSsid}])
        BY DEF Typed, Requests, Kinds
    <2>2. \A k \in DOMAIN events : events[k].state \in States /\ events[k].ok \in BOOLEAN
        <3>1. events \in Seq(Answers)
            BY DEF Typed
        <3>2. \A k \in DOMAIN events : events[k] \in Answers
            BY <3>1
        <3> QED BY <3>2 DEF Answers
    <2> QED BY <2>1, <2>2 DEF Typed, TypeOK
<1> QED BY <1>1, InvAlways, PTL

\* A network that shows "Connecting..." (wifi.rs, connecting) is being connected to, or
\* its retry dialog is open, or its attempt was given up, dropped or lost with the worker:
\* whatever the user does, in whatever order requests are answered or dropped, and
\* wherever the worker ends (lib.rs:160) or panics (lib.rs:989).
THEOREM ConnectingIsAccounted == Spec => []ConnectingAccounted
<1>1. Inv => ConnectingAccounted
    BY DEF Inv
<1> QED BY <1>1, InvAlways, PTL

\* There are never two attempts to connect to a network under way (Message::Connect and
\* ConnectWithPassword in wifi.rs with the task it spawns, and the worker's queue), the
\* empty SSID excepted.
THEOREM OneAttemptOnly == Spec => []OneAttempt
<1>1. Inv => OneAttempt
    <2> SUFFICES ASSUME NEW s \in Ssids \ {Hidden}, Single(s)
                 PROVE  /\ s \in spawned => None(requests, s) /\ None(events, s)
                        /\ \/ None(requests, s)
                           \/ None(events, s) /\ One(requests, s)
        BY DEF Inv, Singles, OneAttempt, None, One
    <2> QED BY DEF Single
<1> QED BY <1>1, InvAlways, PTL

=============================================================================
