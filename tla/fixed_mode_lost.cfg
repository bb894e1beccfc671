\* A fixed run with the default SLO of config.Executor is a search.
SPECIFICATION Spec
CONSTANTS
    MaxSanityRPS = 16
    MaxBinarySteps = 20
    MaxVUs = 5000
    DefaultSLO = 500
    TargetRPS = 7
    Capacity = {3, 7, 12}
    Noisy = FALSE
CHECK_DEADLOCK FALSE
INVARIANT FixedRate
