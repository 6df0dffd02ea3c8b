\* Every list of up to three disks, one rescan besides the first probe.
SPECIFICATION Spec
CONSTANTS
    Disks <- MCDisks
    MaxDisks = 3
    MaxImages = 2
    MaxRefreshes = 1
    Experimental = TRUE
    NoDisk = NoDisk
INVARIANTS TypeOK InstallReady
PROPERTIES PlanIsForDisk SentIsChosen
\* The wizard ends on the progress page.
CHECK_DEADLOCK FALSE
