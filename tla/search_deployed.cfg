\* The constants of the program, against models of every size.
SPECIFICATION Spec
CONSTANTS
    MaxSanityRPS = 1000000
    MaxBinarySteps = 20
    MaxVUs = 5000
    DefaultSLO = 500
    TargetRPS = 40
    Capacity = {0, 1, 2, 3, 40, 511, 512, 513, 2047, 2048, 2049, 4095, 4096, 4097, 5000, 8192, 1000000}
    Noisy = FALSE
CHECK_DEADLOCK FALSE
INVARIANTS BracketCloses BestIsCapacity ProbesBounded
