\* The same instance: a disk is chosen and the list of disks read again.
SPECIFICATION Spec
CONSTANTS
    Disks <- MCDisks
    MaxDisks = 3
    MaxImages = 2
    MaxRefreshes = 1
    Experimental = TRUE
    NoDisk = NoDisk
PROPERTY ChosenDiskSent
\* The wizard ends on the progress page.
CHECK_DEADLOCK FALSE
