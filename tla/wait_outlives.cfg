\* The constants of the code, in units of four seconds; one order alone.
SPECIFICATION Spec
CONSTANTS
    CallTicks = 45
    SleepTicks = 1
    WaitTicks = 140
    MaxAttempts = 3
INVARIANT OutlivesRetries
CHECK_DEADLOCK FALSE
