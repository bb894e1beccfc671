\* The oldest due run cannot be deleted: the next is never timed out.
SPECIFICATION FairSpec
CONSTANTS
    Run = {r1, r2}
    Worker = {w1}
    NoRun = NoRun
    MaxTries = 1
    FaultKinds = {}
    MaxFaults = 0
    Undeletable = {r1}

CHECK_DEADLOCK FALSE
PROPERTY TimedOutRunsFail
