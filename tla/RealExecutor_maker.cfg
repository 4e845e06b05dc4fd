\* One maker quote, contract details not cached.
SPECIFICATION FairSpec
CONSTANTS
    s1 = s1
    Symbols = {s1}
    MaxConcurrent = 1
    TakerEntry = FALSE
    Retries = 1
    FillCarriesPid = TRUE
    BadFills = TRUE
    MetaCached = FALSE
    AttachStops = TRUE
    LongCooldown = TRUE
    VenueCloses = TRUE
    FaultKinds = {"fetch", "order", "close", "cancel"}
    Operations = {}
    MaxQuotes = 1
    MaxOrders = 1
    MaxObjs = 3
    MaxFaults = 1
    MaxOps = 0
PROPERTY ExposureEnds
