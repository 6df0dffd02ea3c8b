\* A protected network and an open one with an empty name; one change of the network's
\* own, request of the secret agent, D-Bus error or overtaken password.
SPECIFICATION FairSpec
CONSTANTS
    Ssids = {home, hidden}
    Open = {hidden}
    Hidden = hidden
    NoSsid = NoSsid
    NoState = NoState
    RequestCap = 1
    EventCap = 1
    MaxChanges = 1
INVARIANTS TypeOK ConnectingAccounted OneAttempt
PROPERTIES ViewConverges
