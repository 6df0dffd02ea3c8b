\* A session and its retry, one other client, and any three signals, clicks,
\* calls of the other client and deaths of the daemon.
SPECIFICATION FairSpec
CONSTANTS
    MaxSessions = 2
    Others = {cli}
    NoCall = NoCall
    NSteps = 2
    PointOfNoReturn = 2
    Countdown = 2
    MaxEvents = 3
INVARIANTS TypeOK EndsOnce ResultIsOwn NeverLeavesInstall CancelReaches
PROPERTIES RebootsWhenDone SessionEnds
\* The sessions may be used up.
CHECK_DEADLOCK FALSE
