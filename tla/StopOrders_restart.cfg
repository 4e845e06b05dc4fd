SPECIFICATION Spec
CONSTANTS
    None = None
    Sides = {"LONG"}
    Prices = {0, 4, 6}
    EntryTolerance = 4
    Tick = 2
    Initial = 4
    Sigma = 1
    Breakeven = 2
    Trail = 4
    PidKnown = {TRUE, FALSE}
    Cached = {TRUE, FALSE}
    SlowTicks = TRUE
    MaxPositions = 2
    MaxCrashes = 1
    MaxFaults = 1
CHECK_DEADLOCK FALSE
INVARIANTS RevivedIsOwn
PROPERTIES StopNeverBack ManagedInTheEnd StopFollows StopAttached
