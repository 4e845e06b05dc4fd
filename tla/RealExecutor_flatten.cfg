\* KILL ALL, a refused close and a snapshot that fails.
SPECIFICATION Spec
CONSTANTS
    s1 = s1
    Symbols = {s1}
    MaxConcurrent = 1
    TakerEntry = TRUE
    Retries = 1
    FillCarriesPid = TRUE
    BadFills = FALSE
    MetaCached = TRUE
    AttachStops = FALSE
    LongCooldown = TRUE
    VenueCloses = FALSE
    FaultKinds = {"fetch", "close"}
    Operations = {"kill_all"}
    MaxQuotes = 1
    MaxOrders = 1
    MaxObjs = 2
    MaxFaults = 2
    MaxOps = 1
\* The kill switch stops the system for good.
CHECK_DEADLOCK FALSE
PROPERTIES NoPhantomClose
