\* The budgets as deployed, in units of 30 seconds.  With MAX_LATENCY_MS = 0 requests
\* with a duration are measured once, otherwise every request is run as a search.
SPECIFICATION Spec
CONSTANTS
    SubmitWait = 20
    SearchTimeout = 40
    ReadinessWait = 25
    Buffer = 20
    RunTimeout = 240
    SweepEvery = 2
    Poll = 200
    PodStart = 8
    Grace = 1
    SLOs = {0, 500}
    Durations = {0, 2, 60, 150, 190}
CHECK_DEADLOCK FALSE
INVARIANTS TypeOK SearchNotTimedOut EndsInTime PollerSeesVerdict
PROPERTY PromptRunSpared
