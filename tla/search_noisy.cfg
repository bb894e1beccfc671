\* A model that holds or does not at random; both requests, no default SLO.
SPECIFICATION FairSpec
CONSTANTS
    MaxSanityRPS = 16
    MaxBinarySteps = 3
    MaxVUs = 5000
    DefaultSLO = 0
    TargetRPS = 7
    Capacity = {0}
    Noisy = TRUE
CHECK_DEADLOCK FALSE
INVARIANTS TypeOK ReportedRateHeld StepsAreNumbered
PROPERTIES Ends RefinesLoadPod
