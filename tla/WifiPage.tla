------------------------------ MODULE WifiPage ------------------------------
(***************************************************************************)
(* pages/wifi.rs, with the NetworkManager worker it talks to (start_       *)
(* listening in the vendored subscription crate).  The page sends requests *)
(* over an unbounded channel; the worker serves them one at a time and     *)
(* answers with the state it reads afterwards; signals, the reload every   *)
(* few seconds and the secret agent add messages of their own.  Any D-Bus  *)
(* call may fail: a request is then refused or dropped, a state read as    *)
(* empty, or the worker ends for good; one error is unwrapped, and the     *)
(* panic ends the task that worker, watchers and forwarder share.          *)
(*                                                                         *)
(* A state is what the page shows of it: the access points, those with a   *)
(* saved profile, the active one.  Left out: the devices, which are never  *)
(* shown, what is typed, and the secret agent's request channel.           *)
(***************************************************************************)
EXTENDS Integers, Sequences

CONSTANTS
    Ssids,
    Open,        \* networks without a password
    Hidden,      \* the empty SSID
    NoSsid, NoState,
    RequestCap,  \* bound: requests waiting
    EventCap,    \* bound: events waiting
    MaxChanges   \* bound: changes of NetworkManager's own, requests of the secret agent,
                 \* D-Bus errors, passwords that are overtaken

ASSUME WifiAssumption ==
    /\ Open \subseteq Ssids /\ NoSsid \notin Ssids
    /\ RequestCap \in Nat /\ EventCap \in Nat /\ MaxChanges \in Nat

VARIABLES
    visible, saved, active,  \* NetworkManager: access points, profiles, connection
    requests,                \* to the worker; the first is being served
    events,                  \* from the worker
    alive,                   \* of the subscription: the task, in it the worker, the watcher
    changes                  \* counter of its bound

VARIABLES
    view,       \* nm_state, NoState before Event::Init
    withheld,   \* withheld_state
    popup,      \* view_more_popup
    dialog,
    connecting,
    spawned,    \* networks whose password a task of ConnectWithPassword has yet to send
    orphans     \* history: entries of connecting whose attempt was given up or lost

nm == <<visible, saved, active>>
messages == <<requests, events, alive, changes>>
ui == <<view, withheld, popup, dialog, connecting, spawned, orphans>>
vars == <<nm, messages, ui>>

States == [visible : SUBSET Ssids, known : SUBSET Ssids, active : Ssids \cup {NoSsid}]

NoDialog == [kind |-> "none", ssid |-> NoSsid, secret |-> FALSE]
\* secret: the dialog's tx goes to the secret agent.
Password(s, secret) == [kind |-> "password", ssid |-> s, secret |-> secret]
Forgetting(s) == [kind |-> "forget", ssid |-> s, secret |-> FALSE]

Request(kind, s) == [kind |-> kind, ssid |-> s]
Event(r, ok, state) == [kind |-> r.kind, ssid |-> r.ssid, ok |-> ok, state |-> state]

\* The attempts to connect to s in a queue.
Attempts(q, s) == {k \in DOMAIN q : q[k].kind \in {"select", "auth"} /\ q[k].ssid = s}

\* NetworkManagerState::new
Snapshot ==
    [visible |-> visible, known |-> (saved \cap visible) \ {active}, active |-> active]

\* What an error makes of a state: unwrap_or_default().
Nothing == [visible |-> {}, known |-> {}, active |-> NoSsid]

\* nm_state is Some
Ready == view # NoState

-----------------------------------------------------------------------------
Init ==
    /\ visible \in {{}, Ssids} /\ saved \in SUBSET Ssids /\ active = NoSsid
    /\ requests = <<>> /\ events = <<>> /\ changes = 0
    /\ alive = {"task", "worker", "watcher"}
    /\ view = NoState /\ withheld = NoState
    /\ popup = NoSsid /\ dialog = NoDialog
    /\ connecting = {} /\ spawned = {} /\ orphans = {}

-----------------------------------------------------------------------------
(* NetworkManager and the worker.                                          *)

\* Something of the outside happens, of which there are MaxChanges.
Change == changes < MaxChanges /\ changes' = changes + 1

\* Access points come and go, a connection breaks.
NetworkChanges ==
    /\ Change
    /\ visible' \in {{}, Ssids}
    /\ active' \in {active, NoSsid} /\ (visible' = {} => active' = NoSsid)
    /\ <<visible', active'>> # <<visible, active>>
    /\ UNCHANGED <<saved, requests, events, alive, ui>>

\* The state as somebody reads it: as it is, or empty.
Read(now, state) ==
    \/ state = now /\ UNCHANGED changes
    \/ state = Nothing /\ now # Nothing /\ Change

\* connect_wifi: what was active is deactivated first, if the call gets that far; a
\* new profile may be saved even when the activation fails.
Attempt(s, ok) ==
    /\ ok => s \in visible
    /\ active' \in IF ok THEN {s} ELSE {active, NoSsid}
    /\ saved' \in {saved, saved \cup {s}} /\ (ok => s \in saved')
    /\ UNCHANGED visible

\* Whether the worker may answer a request: an access point that was known when it
\* was clicked may have lost its profile since.
Answerable(r) == r.kind = "select" => r.ssid \in Open \cup saved

\* That a deactivation or a deletion fails or takes its time is not told apart from success.
Effect(r, ok) ==
    CASE r.kind \in {"select", "auth"} -> Attempt(r.ssid, ok)
      [] r.kind = "disconnect" ->
           /\ ok => active = r.ssid
           /\ active' \in IF ok THEN {active, NoSsid} ELSE {active}
           /\ UNCHANGED <<visible, saved>>
      [] r.kind = "forget" ->
           /\ ok => r.ssid \in saved
           /\ saved' \in IF ok THEN {saved, saved \ {r.ssid}} ELSE {saved}
           /\ active' = IF saved' # saved /\ active = r.ssid THEN NoSsid ELSE active
           /\ UNCHANGED visible
      [] r.kind = "wifi" ->
           /\ visible' \in IF ok THEN {{}, Ssids} ELSE {visible}
           /\ active' = IF visible' = {} THEN NoSsid ELSE active
           /\ UNCHANGED saved

Serving == "worker" \in alive /\ requests # <<>>

\* The request is served and answered ...
Serve ==
    /\ Serving /\ Answerable(Head(requests)) /\ Len(events) < EventCap
    /\ \E ok \in BOOLEAN :
          /\ Effect(Head(requests), ok)
          /\ \E state \in {Snapshot', Nothing} :
                /\ Read(Snapshot', state)
                /\ events' = Append(events, Event(Head(requests), ok, state))
    /\ requests' = Tail(requests)
    /\ UNCHANGED <<alive, ui>>

\* ... or dropped without an answer: no profile was found, or none could be read.
Drop ==
    /\ Serving /\ Head(requests).kind = "select" /\ Head(requests).ssid \notin Open
    /\ IF Answerable(Head(requests)) THEN Change ELSE UNCHANGED changes
    /\ requests' = Tail(requests)
    /\ orphans' = orphans \cup ({Head(requests).ssid} \cap connecting)
    /\ UNCHANGED <<nm, events, alive, view, withheld, popup, dialog, connecting, spawned>>

\* The entries of connecting whose attempts are in a queue.
Attempting(q) == {s \in connecting : Attempts(q, s) # {}}

\* NetworkManager::new fails before the next request is taken: State::Finished.  The
\* queue goes with it.
WorkerEnds ==
    /\ "worker" \in alive /\ Change
    /\ alive' = alive \ {"worker"}
    /\ requests' = <<>>
    /\ orphans' = orphans \cup Attempting(requests)
    /\ UNCHANGED <<nm, events, view, withheld, popup, dialog, connecting, spawned>>

\* connect_wifi finds a saved profile and unwraps the error of updating it.  The task
\* dies with all that is in it: the queue, and what has not been forwarded.
WorkerPanics ==
    /\ Serving /\ Change
    /\ Head(requests).kind \in {"select", "auth"} /\ Head(requests).ssid \in saved
    /\ active' \in {active, NoSsid}
    /\ alive' = {}
    /\ requests' = <<>>
    /\ \E kept \in 0..Len(events) :
          /\ events' = SubSeq(events, 1, kept)
          /\ orphans' = orphans \cup Attempting(requests)
                        \cup Attempting(SubSeq(events, kept + 1, Len(events)))
    /\ UNCHANGED <<visible, saved, view, withheld, popup, dialog, connecting, spawned>>

\* NetworkManager::new fails in watch_connections_changed.
WatcherEnds ==
    /\ "watcher" \in alive /\ Change
    /\ alive' = alive \ {"watcher"}
    /\ UNCHANGED <<nm, requests, events, ui>>

\* A state nobody asked for: watch_connections_changed sends one every three seconds,
\* and a signal starts update_state(), whose answer is taken over in the same way.
Reload ==
    /\ Ready /\ "task" \in alive /\ Len(events) < EventCap
    /\ \E state \in {Snapshot, Nothing} :
          /\ Read(Snapshot, state)
          /\ events' = Append(events, Event(Request("reload", NoSsid), TRUE, state))
    /\ UNCHANGED <<nm, requests, alive, ui>>

WatcherReloads == "watcher" \in alive /\ Reload

-----------------------------------------------------------------------------
(* Messages for the page.                                                  *)

\* mutant: what is withheld stands in the way, not the popup
UpdateStateBehindWithheld(state) ==
    IF popup # NoSsid \/ withheld # NoState
    THEN withheld' = state /\ UNCHANGED view
    ELSE view' = state /\ UNCHANGED withheld

\* update_state: withheld while the popup is open.
UpdateState(state) ==
    IF popup # NoSsid
    THEN withheld' = state /\ UNCHANGED view
    ELSE view' = state /\ UNCHANGED withheld

\* close_popup_and_apply_updates
ClosePopup ==
    /\ popup' = NoSsid
    /\ view' = IF withheld # NoState THEN withheld ELSE view
    /\ withheld' = NoState

\* The dialog is replaced, closed or submitted; if it was to retry a connection and
\* no attempt follows, that attempt has been given up.
SetDialog(d) ==
    /\ dialog' = d
    /\ orphans' = IF dialog.kind = "password" /\ dialog.ssid \in connecting
                    /\ ~(d.kind = "password" /\ d.ssid = dialog.ssid)
                 THEN orphans \cup {dialog.ssid} ELSE orphans

\* Event::Init
Connected ==
    /\ ~Ready /\ "task" \in alive
    /\ view' \in {Snapshot, Nothing} /\ Read(Snapshot, view')
    /\ UNCHANGED <<nm, requests, events, alive, withheld, popup, dialog, connecting,
                   spawned, orphans>>

\* Whether the answer settles the attempt; if not, the user is asked "to retry".
Settled(e) == e.ok \/ (e.kind = "select" /\ e.ssid \in Open)

\* mutant: nobody is asked
NoRetry(e) == UNCHANGED <<dialog, orphans>>

Retry(e) == SetDialog(Password(e.ssid, FALSE))

\* Event::RequestResponse.  A refused SelectAccessPoint returns before the state is
\* taken over.
Response ==
    /\ Ready /\ events # <<>> /\ events' = Tail(events)
    /\ LET e == Head(events)
           attempt == e.kind \in {"select", "auth"}
       IN /\ IF attempt /\ Settled(e)
             THEN /\ connecting' = connecting \ {e.ssid} /\ orphans' = orphans \ {e.ssid}
                  /\ UNCHANGED dialog
             ELSE /\ UNCHANGED connecting
                  /\ IF attempt THEN Retry(e)
                     ELSE UNCHANGED <<dialog, orphans>>
          /\ IF e.kind = "select" /\ ~Settled(e) THEN UNCHANGED <<view, withheld>>
             ELSE UpdateState(e.state)
    /\ UNCHANGED <<nm, requests, alive, changes, popup, spawned>>

\* RequestSecret, while a connection is being made.  It names a setting, which is
\* looked up among the UUIDs of the connections: what is found is the empty SSID,
\* and the request is refused unless a network has that one.
RequestSecret ==
    /\ Ready /\ Change
    /\ Serving /\ Head(requests).kind \in {"select", "auth"}
    /\ IF Hidden \in view.visible THEN SetDialog(Password(Hidden, TRUE))
       ELSE UNCHANGED <<dialog, orphans>>
    /\ UNCHANGED <<nm, requests, events, alive, view, withheld, popup, connecting, spawned>>

\* CancelGetSecrets closes whatever password dialog there is, Failed whatever other
\* there is, and takes the tx of that one; neither says whose secret it is about.
SecretCancelled ==
    /\ dialog.kind = "password"
    /\ SetDialog(NoDialog)
    /\ UNCHANGED <<nm, messages, view, withheld, popup, connecting, spawned>>

SecretFailed ==
    /\ dialog # NoDialog
    /\ SetDialog(IF dialog.kind = "password" THEN Password(dialog.ssid, FALSE) ELSE NoDialog)
    /\ UNCHANGED <<nm, messages, view, withheld, popup, connecting, spawned>>

-----------------------------------------------------------------------------
(* The user.  A dialog is modal.  Away from the page the user does none of *)
(* this, and messages arrive all the same.                                 *)

AtPage == Ready /\ dialog = NoDialog

IsConnected(s) == view.active = s
IsKnown(s) == s \in view.known \/ IsConnected(s)

\* Without a worker to take it, a request is lost.
Send(r) ==
    IF "worker" \in alive
    THEN Len(requests) < RequestCap /\ requests' = Append(requests, r)
    ELSE UNCHANGED requests

\* The attempt is then lost, too; a new one is being followed.
SendAttempt(r) ==
    /\ Send(r)
    /\ orphans' = IF "worker" \in alive THEN orphans \ {r.ssid}
                  ELSE orphans \cup ({r.ssid} \cap connecting')

\* mutant: the button stays a button while the network is being connected to
CanConnectAgain(s) == s \in view.visible /\ ~IsConnected(s)

\* The row of s has a Connect button.
CanConnect(s) == s \in view.visible /\ ~IsConnected(s) /\ s \notin connecting

Connect(s) ==
    /\ AtPage /\ CanConnect(s) /\ IsKnown(s)
    /\ connecting' = connecting \cup {s}
    /\ SendAttempt(Request("select", s))
    /\ UNCHANGED <<nm, events, alive, changes, view, withheld, popup, dialog, spawned>>

PasswordRequest(s) ==
    /\ AtPage /\ CanConnect(s) /\ ~IsKnown(s)
    /\ dialog' = Password(s, FALSE)
    /\ UNCHANGED <<nm, messages, view, withheld, popup, connecting, spawned, orphans>>

ViewMore(s) ==
    /\ AtPage /\ s \in view.visible /\ IsKnown(s) /\ popup # s
    /\ popup' = s
    /\ UNCHANGED <<nm, messages, view, withheld, dialog, connecting, spawned, orphans>>

ViewLess ==
    /\ AtPage /\ popup # NoSsid
    /\ ClosePopup
    /\ UNCHANGED <<nm, messages, dialog, connecting, spawned, orphans>>

Disconnect(s) ==
    /\ AtPage /\ popup = s /\ s \in view.visible /\ IsConnected(s)
    /\ ClosePopup
    /\ Send(Request("disconnect", s))
    /\ UNCHANGED <<nm, events, alive, changes, dialog, connecting, spawned, orphans>>

\* The popup goes, what is withheld stays.
ForgetRequest(s) ==
    /\ AtPage /\ popup = s /\ s \in view.visible /\ IsKnown(s)
    /\ dialog' = Forgetting(s) /\ popup' = NoSsid
    /\ UNCHANGED <<nm, messages, view, withheld, connecting, spawned, orphans>>

Forget ==
    /\ dialog.kind = "forget"
    /\ SetDialog(NoDialog) /\ ClosePopup
    /\ Send(Request("forget", dialog.ssid))
    /\ UNCHANGED <<nm, events, alive, changes, connecting, spawned>>

\* SetWiFi; the Reload sent after it is answered like any other.
WiFiEnable ==
    /\ AtPage
    /\ Send(Request("wifi", NoSsid))
    /\ UNCHANGED <<nm, events, alive, changes, ui>>

\* The password goes to the secret agent if it asked, else to the worker, from a task
\* that is spawned to send it, which other requests may overtake.
SendPassword(s, secret) ==
    \/ /\ secret
       /\ orphans' = orphans \cup {s}
       /\ UNCHANGED <<requests, changes, spawned>>
    \/ /\ ~secret /\ SendAttempt(Request("auth", s))
       /\ UNCHANGED <<changes, spawned>>
    \/ /\ ~secret /\ Change
       /\ spawned' = spawned \cup {s} /\ orphans' = orphans \ {s}
       /\ UNCHANGED requests

\* mutant: the network is not marked as being connected to
ConnectWithPasswordUnmarked ==
    /\ dialog.kind = "password" /\ Ready
    /\ dialog' = NoDialog
    /\ UNCHANGED <<nm, events, alive, view, withheld, popup, connecting>>
    /\ SendPassword(dialog.ssid, dialog.secret)

ConnectWithPassword ==
    /\ dialog.kind = "password" /\ Ready
    /\ dialog' = NoDialog
    /\ connecting' = connecting \cup {dialog.ssid}
    /\ SendPassword(dialog.ssid, dialog.secret)
    /\ UNCHANGED <<nm, events, alive, view, withheld, popup>>

Authenticate(s) ==
    /\ s \in spawned /\ spawned' = spawned \ {s}
    /\ UNCHANGED <<nm, events, alive, changes, view, withheld, popup, dialog, connecting>>
    /\ SendAttempt(Request("auth", s))

CancelDialog ==
    /\ dialog # NoDialog
    /\ SetDialog(NoDialog)
    /\ UNCHANGED <<nm, messages, view, withheld, popup, connecting, spawned>>

-----------------------------------------------------------------------------
Worker == Serve \/ Drop \/ WorkerEnds \/ WorkerPanics

Message ==
    \/ Connected \/ Response
    \/ RequestSecret \/ SecretCancelled \/ SecretFailed

User ==
    \/ ViewLess \/ Forget \/ WiFiEnable
    \/ ConnectWithPassword \/ CancelDialog
    \/ \E s \in Ssids : \/ Connect(s) \/ PasswordRequest(s)
                        \/ ViewMore(s) \/ Disconnect(s) \/ ForgetRequest(s)

Next ==
    \/ NetworkChanges \/ Worker \/ WatcherEnds \/ Reload \/ Message \/ User
    \/ \E s \in Ssids : Authenticate(s)

Spec == Init /\ [][Next]_vars

\* The watcher reloads as long as it lives, update() takes every message.  Nothing is
\* assumed of the worker, of signals or of the user.
FairSpec ==
    /\ Spec
    /\ WF_vars(WatcherReloads) /\ WF_vars(Connected) /\ WF_vars(Response)

-----------------------------------------------------------------------------
(* Properties.                                                             *)

TypeOK ==
    /\ visible \subseteq Ssids /\ saved \subseteq Ssids /\ active \in visible \cup {NoSsid}
    /\ requests \in Seq([kind : {"select", "auth", "disconnect", "forget", "wifi"},
                         ssid : Ssids \cup {NoSsid}])
    /\ Len(requests) <= RequestCap /\ Len(events) <= EventCap
    /\ \A k \in DOMAIN events : events[k].state \in States /\ events[k].ok \in BOOLEAN
    /\ {view, withheld} \subseteq States \cup {NoState}
    /\ alive \subseteq {"task", "worker", "watcher"} /\ changes \in 0..MaxChanges
    /\ popup \in Ssids \cup {NoSsid}
    /\ dialog \in [kind : {"none", "forget", "password"}, ssid : Ssids \cup {NoSsid},
                   secret : BOOLEAN]
    /\ connecting \subseteq Ssids /\ spawned \subseteq Ssids
    /\ orphans \subseteq connecting

Pending(s) == s \in spawned \/ Attempts(requests, s) # {} \/ Attempts(events, s) # {}
Asking(s) == dialog.kind = "password" /\ dialog.ssid = s

\* A network that shows "Connecting..." is being connected to, or its retry dialog is
\* open.  The only others are those whose dialog was closed or replaced, whose password
\* went to the secret agent, whose request was dropped, or whose request or answer was
\* lost with the worker, which may have ended or panicked before or after the click.
ConnectingAccounted ==
    \A s \in connecting : Pending(s) \/ Asking(s) \/ s \in orphans

\* No network is being connected to twice, whatever is clicked, retried or navigated;
\* the empty SSID, whose dialogs are the secret agent's, is excepted.
OneAttempt ==
    \A s \in Ssids \ {Hidden} :
        /\ s \in spawned => Attempts(requests, s) = {} /\ Attempts(events, s) = {}
        /\ \/ Attempts(requests, s) = {}
           \/ Attempts(events, s) = {} /\ \E k \in DOMAIN requests : Attempts(requests, s) = {k}

\* Once NetworkManager's state has settled, the page comes to show it, again and again,
\* however the user has closed popups and dialogs and whether or not the worker still
\* serves, unless a popup is open.  That is so while the watcher lives: it may fail to
\* start (lib.rs:72), and the panic of connect_wifi (lib.rs:989) ends it.
ViewConverges ==
    <>[][FALSE]_nm /\ []("watcher" \in alive) => []<>(popup # NoSsid \/ view = Snapshot)

\* "Request to retry" (wifi.rs): an attempt that failed can be retried, from its
\* dialog or from the network's row.
RetryOffered == \A s \in connecting : Pending(s) \/ Asking(s)

=============================================================================
