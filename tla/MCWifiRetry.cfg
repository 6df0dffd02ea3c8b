\* One protected network: its attempt is refused, and the retry dialog cancelled.
SPECIFICATION Spec
CONSTANTS
    Ssids = {home}
    Open = {}
    Hidden = NoSsid
    NoSsid = NoSsid
    NoState = NoState
    RequestCap = 1
    EventCap = 1
    MaxChanges = 0
INVARIANT RetryOffered
