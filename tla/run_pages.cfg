\* A search of up to six steps whose posts are lost, late or repeated; with up to
\* four it is polled and looked at while it goes on.
SPECIFICATION MCSpec
CONSTANTS
    MaxSanityRPS = 8
    MaxBinarySteps = 2
    MaxVUs = 5000
    DefaultSLO = 500
    TargetRPS = 7
    Capacity = {0}
    Noisy = TRUE
    Rate = {0, 29}
    MaxRead = 4
CHECK_DEADLOCK FALSE
INVARIANTS ViewTypeOK PageIsConsistent PageShowsReport SummaryHeld
    PagesTypeOK AnswerShowsReport SuccessPageHasMetrics PageNotAboveReport
PROPERTY StepsKept
