\* Two callers saving and reading one run, which may be deleted meanwhile, or one
\* listing three runs.
SPECIFICATION MCSpec
CONSTANTS
    Run = {1, 2, 3}
    Stray = {}
    Caller = {c1, c2}
    Lister = c1
    Written = {"SUCCESS"}
    Filters <- MCFilters
    Reports <- MCReports
    Batches <- MCBatches
    Deletable = {1}
CHECK_DEADLOCK FALSE
INVARIANTS TypeOK NoOrphans
PROPERTIES RefinesRunStore SavesEnd
