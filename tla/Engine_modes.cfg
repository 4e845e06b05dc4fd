\* Two requests at a time, any five of run, stop, KILL ALL, set_mode and shutdown, one entry.
SPECIFICATION Spec
CONSTANTS
    Requests = {"R1", "R2"}
    Loops = {"L1", "L2"}
    Modes = {"paper", "real", "logger"}
    EmergencyClose = TRUE
    MaxExecs = 3
    MaxOps = 5
    MaxEntries = 1
\* The requests are bounded, and shutdown ends the process.
CHECK_DEADLOCK FALSE
INVARIANTS TypeOK RunningIsDriven OneExecutor StoppedIsFlat
PROPERTY LiveIsNotSimulated
