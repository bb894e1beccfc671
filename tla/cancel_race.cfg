\* A stale status read lets a finished run be cancelled.
SPECIFICATION Spec
CONSTANTS
    Run = {r1}
    Worker = {w1, w2}
    NoRun = NoRun
    MaxTries = 2
    FaultKinds = {}
    MaxFaults = 0
    Undeletable = {}

CHECK_DEADLOCK FALSE
PROPERTY CancelOnlyActive
