\* The same plans and tables; no command fails.
SPECIFICATION Spec
CONSTANTS
    Numbers = {1, 2, 3, 4}
    Sector = 2
    Align = 4
    First = 4
    End = 32
    EspBytes = 4
    BootBytes = 4
    RootMin = 8
    Width = 64
    Labels = {"gpt", "dos"}
    Tables <- MCTables
    Plans <- MCPlans
    MaxFaults = 0
INVARIANT StalePlanTouchesNothing
\* The call returns once.
CHECK_DEADLOCK FALSE
