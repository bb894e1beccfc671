\* Steps, also of an identifier nobody has, metrics of two runs, listings of three.
SPECIFICATION MCSpec
CONSTANTS
    Run = {1, 2, 3, 4}
    Stray = {4}
    Caller = {c1, c2}
    Lister = c1
    Written = {"SUCCESS"}
    Filters <- MCFilters
    Reports <- MCReports
    Batches <- MCBatches
    Deletable = {1}
    MaxPoints = 4
CHECK_DEADLOCK FALSE
INVARIANT NumbersOnce
PROPERTY RefinesRunStore
