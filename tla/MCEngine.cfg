\* Every plan and encryption; one failing command, one crash, two attempts.
SPECIFICATION FairSpec
CONSTANTS
    Encs = {"none", "passphrase", "tpm2", "tpm2passphrase"}
    Plans = {"erase", "free", "reuse", "reformat", "create", "malformed"}
    BootcDirs = {"ours"}
    LayerCounts = {0, 2}
    MaxBlobLines = 3
    MaxAttempts = 2
    MaxFaults = 1
    MaxCrashes = 1
INVARIANTS TypeOK PipelineOwnsDisk NothingLeftMounted SuccessBoots
PROPERTIES CancelStopsPipeline ProgressMonotonic KeepsPromise EveryAttemptReturns RetrySucceeds
\* The bounded model stops once its attempts are used up.
CHECK_DEADLOCK FALSE
