\* Answers arrive in the order of their requests; some requests fail.
SPECIFICATION FairSpec
CONSTANTS
    InOrder = TRUE
    WaitTicks = 2
    MaxOpen = 3
    MaxFails = 2
    MaxPays = 2
    MaxMounts = 2
INVARIANTS TypeOK StopsOnlyWhenDone
PROPERTIES VerdictStaysOnPage HashIsShown
CHECK_DEADLOCK FALSE
