\* Two symbols, two streams, the refresh loop and one request.
SPECIFICATION Spec
CONSTANTS
    Symbols = {"A", "B"}
    HasRef = {"A", "B"}
    RequireRef = FALSE
    Lists = {{"A"}, {"A", "B"}}
    Selections = {{"B"}}
    Streams = {"binance", "private"}
    Tasks = {"loop", "http"}
    UrlCap = 1
    MaxChanges = 2
    MaxDrops = 2
\* The changes and the lost connections are bounded.
CHECK_DEADLOCK FALSE
INVARIANTS BlindOnlyByRace AppliedIsWorking
PROPERTY WorkingIsHeard
