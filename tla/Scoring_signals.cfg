CONSTANTS
    None = None
    A = A
    B = B
    Symbols = {A, B}
    Stats <- MCStats
    Strategies <- MCStrategies
    Overrides <- MCOverrides
    Risk <- MCRisk
    Frees = {4, 20}
    Depths = {0, 40}
    Hints = {0, 5}
    Gap = 2
    Cap = 1
    Pause = 1
    MaxWait = 1
SPECIFICATION Spec
INVARIANTS SidesMirror SignalsPassFilters SizedWithinLimits
