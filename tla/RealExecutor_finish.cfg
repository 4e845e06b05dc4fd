\* One taker trade with every kind of failure: what must come to an end.
SPECIFICATION FairSpec
CONSTANTS
    s1 = s1
    Symbols = {s1}
    MaxConcurrent = 1
    TakerEntry = TRUE
    Retries = 1
    FillCarriesPid = TRUE
    BadFills = TRUE
    MetaCached = TRUE
    AttachStops = FALSE
    LongCooldown = TRUE
    VenueCloses = FALSE
    FaultKinds = {"fetch", "order", "close", "cancel"}
    Operations = {}
    MaxQuotes = 1
    MaxOrders = 1
    MaxObjs = 3
    MaxFaults = 2
    MaxOps = 0
PROPERTIES ExposureEnds SymbolIsFreed FillsAreBooked
