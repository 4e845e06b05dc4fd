\* The operator and the kill checks against a trade in flight.
SPECIFICATION ScheduledSpec
CONSTANTS
    s1 = s1
    Symbols = {s1}
    MaxConcurrent = 1
    TakerEntry = TRUE
    Retries = 1
    FillCarriesPid = TRUE
    BadFills = FALSE
    MetaCached = TRUE
    AttachStops = TRUE
    LongCooldown = TRUE
    VenueCloses = TRUE
    FaultKinds = {"fetch", "order", "close", "cancel"}
    Operations = {"kill_all", "run_stop", "run", "trip"}
    MaxQuotes = 1
    MaxOrders = 1
    MaxObjs = 4
    MaxFaults = 1
    MaxOps = 2
\* The kill switch stops the system for good.
CHECK_DEADLOCK FALSE
INVARIANTS FlattenExclusive ManagedIsOpen ClosedRecordsLapse
PROPERTIES KillStopsOrders LedgerIsFinal KillEndsLoop
