\* KILL ALL while an entry order is on its way to the venue.
SPECIFICATION Spec
CONSTANTS
    s1 = s1
    Symbols = {s1}
    MaxConcurrent = 1
    TakerEntry = TRUE
    Retries = 1
    FillCarriesPid = TRUE
    BadFills = FALSE
    MetaCached = TRUE
    AttachStops = FALSE
    LongCooldown = TRUE
    VenueCloses = FALSE
    FaultKinds = {}
    Operations = {"kill_all"}
    MaxQuotes = 1
    MaxOrders = 1
    MaxObjs = 2
    MaxFaults = 0
    MaxOps = 1
\* The kill switch stops the system for good.
CHECK_DEADLOCK FALSE
INVARIANTS KilledIsFlat
