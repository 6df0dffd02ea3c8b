\* Every edit of the page on every table, then the engine; one failing command.
SPECIFICATION PageSpec
CONSTANTS
    Numbers = {1, 2, 3, 4, 5}
    Sector = 2
    Align = 4
    First = 4
    End = 32
    EspBytes = 4
    BootBytes = 4
    RootMin = 8
    Width = 64
    Labels = {"gpt", "dos"}
    Tables <- MCTables
    Plans <- MCPlans
    MaxFaults = 1
    Gib = 4
    TypedSizes = {0, 1, 2, 3}
    MaxChanges = 1
INVARIANTS ValidIsCarriedOut PreviewTrue LeftAlone
\* The call returns once.
CHECK_DEADLOCK FALSE
