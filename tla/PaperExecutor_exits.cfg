SPECIFICATION FairSpec
CHECK_DEADLOCK FALSE
CONSTANTS
    None = None
    Symbols = {"A"}
    Sides = {"LONG", "SHORT"}
    Prices = {8, 10, 12, 14}
    HalfSpread = 1
    Inside = 1
    MaxConcurrent = 1
    TakerEntry = FALSE
    ExchangeSL = FALSE
    UseR = TRUE
    Sigma = 1
    Hard = 3
    Breakeven = 2
    Lock = 4
    Trail = 1
    Margin = 3
    Fee = 0
    LossKill = 0
    TradesKill = 1
    Loops = {"L1"}
    Overlap = FALSE
    Operations = {"run", "kill_all", "trip"}
    MaxQuotes = 1
    MaxObjs = 1
    MaxOps = 2
PROPERTY StopRatchets
PROPERTY StopIsNeverPassedOver
PROPERTY PositionsClose
PROPERTY QuotesEnd
