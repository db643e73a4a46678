SPECIFICATION FairSpec
CONSTANTS
    w1 = w1
    w2 = w2
    w3 = w3
    Worker = {w1, w2, w3}
    MaxLength = 5
    MaxTorrents = 4
    Timed = TRUE
INVARIANTS PrefixWithinBudget ReportTrue
PROPERTIES TasksEnd
CHECK_DEADLOCK FALSE
