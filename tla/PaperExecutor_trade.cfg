SPECIFICATION Spec
CHECK_DEADLOCK FALSE
CONSTANTS
    None = None
    Symbols = {"A", "B"}
    Sides = {"LONG"}
    Prices = {10, 14}
    HalfSpread = 1
    Inside = 0
    MaxConcurrent = 2
    TakerEntry = TRUE
    ExchangeSL = TRUE
    UseR = FALSE
    Sigma = 1
    Hard = 3
    Breakeven = 2
    Lock = 4
    Trail = 1
    Margin = 3
    Fee = 1
    LossKill = 2
    TradesKill = 0
    Loops = {"L1"}
    Overlap = FALSE
    Operations = {"run", "kill_all", "run_stop"}
    MaxQuotes = 2
    MaxObjs = 2
    MaxOps = 3
INVARIANT PositionLife
INVARIANT QuoteOrPosition
INVARIANT BalanceIsLedger
INVARIANT KillAfterStreak
PROPERTY ImplementsTradeLife
