\* One run, three handlers at once, two faults of any kind.
SPECIFICATION Spec
CONSTANTS
    Run = {r1}
    Worker = {w1, w2, w3}
    NoRun = NoRun
    MaxTries = 2
    FaultKinds = {"db", "k8s", "loss", "crash"}
    MaxFaults = 2
    Undeletable = {}
SYMMETRY WorkerSymmetry
CHECK_DEADLOCK FALSE
INVARIANTS TypeOK SuccessHasItsMetrics RunningWasSubmitted ReasonExplainsFailure NotStranded
PROPERTIES RefinesRunStatus PodsRunOnce PendingOwned
