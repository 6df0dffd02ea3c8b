\* The same bootc, on an ESP that is shared with another system.
SPECIFICATION Spec
CONSTANTS
    Encs = {"passphrase"}
    Plans = {"reuse"}
    BootcDirs = {"legacy"}
    LayerCounts = {0}
    MaxBlobLines = 0
    MaxAttempts = 1
    MaxFaults = 0
    MaxCrashes = 0
INVARIANT SuccessBoots
\* The bounded model stops once its attempts are used up.
CHECK_DEADLOCK FALSE
