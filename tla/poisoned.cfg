SPECIFICATION FairExamSpec
CONSTANTS
    h1 = h1  sweeper = sweeper
    Browsers = {h1}
    Sweeper = sweeper
    MaxRecords = 2
    Reviewing = FALSE
    VoidsSitting = TRUE
    NoScore = NoScore
PROPERTY OverdueExamIsScored
CHECK_DEADLOCK FALSE
