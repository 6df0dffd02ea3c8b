\* Every plan of MCPlans on every table of MCTables; one failing command.
SPECIFICATION Spec
CONSTANTS
    Numbers = {1, 2, 3, 4}
    Sector = 2
    Align = 4
    First = 4
    End = 32
    EspBytes = 4
    BootBytes = 4
    RootMin = 8
    Width = 64
    Labels = {"gpt", "dos"}
    Tables <- MCTables
    Plans <- MCPlans
    MaxFaults = 1
INVARIANTS TypeOK OthersLeftAlone MountedKept SetIsSound GapsExact
\* The call returns once.
CHECK_DEADLOCK FALSE
