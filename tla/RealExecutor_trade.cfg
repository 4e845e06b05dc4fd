\* Taker entries on one symbol: two signals, three orders, so that a quote can be
\* sent twice, and three objects, so that a stale snapshot can bring a closed
\* position back; close and cancel calls may fail twice; the venue may close the
\* position itself.
SPECIFICATION Spec
CONSTANTS
    s1 = s1
    Symbols = {s1}
    MaxConcurrent = 1
    TakerEntry = TRUE
    Retries = 1
    FillCarriesPid = TRUE
    BadFills = FALSE
    MetaCached = TRUE
    AttachStops = TRUE
    LongCooldown = TRUE
    VenueCloses = TRUE
    FaultKinds = {"close", "cancel"}
    Operations = {}
    MaxQuotes = 2
    MaxOrders = 3
    MaxObjs = 3
    MaxFaults = 2
    MaxOps = 0
\* The number of objects is bounded, the system is not at its end there.
CHECK_DEADLOCK FALSE
INVARIANTS TypeOK BookedOncePerKey BookedOncePerPosition SingleExposure
PROPERTIES NoPhantomClose
