\* A slow answer arrives after a younger one.
SPECIFICATION Spec
CONSTANTS
    InOrder = FALSE
    WaitTicks = 2
    MaxOpen = 2
    MaxFails = 0
    MaxPays = 1
    MaxMounts = 1
INVARIANT StopsOnlyWhenDone
CHECK_DEADLOCK FALSE
