\* One client, no panics, no signals.
SPECIFICATION Spec
CONSTANTS
    Calls = {c1}
    NoCall = NoCall
    Probes = {p1}
    NSteps = 2
    ChanCap = 1
    MaxParts = 1
    MaxSignals = 0
    MayPanic = FALSE
INVARIANT ProbeExcludesInstall
CHECK_DEADLOCK FALSE
