\* Two InstallJson calls, one after the other or overlapping, and a probe in the
\* background; an engine may panic, one signal is delivered.
SPECIFICATION FairSpec
CONSTANTS
    Calls = {c1, c2}
    NoCall = NoCall
    Probes = {p1}
    NSteps = 2
    ChanCap = 1
    MaxParts = 1
    MaxSignals = 1
    MayPanic = TRUE
INVARIANTS TypeOK OneEngine TokenIsRunners NoLostWakeup
PROPERTIES EnginesKeepPromise ImplementsService EveryCallAnswered IdleDaemonExits
\* All calls may have been answered and the process gone.
CHECK_DEADLOCK FALSE
