\* Grace = 3, Needed = 2, MaxUnknown = 3, MaxPolls = 5
CONSTANTS
    PollInterval = 1
    GraceSeconds = 7
    IdleConfirmations = 2
    MaxReadFailures = 3
    MaxWatchSeconds = 10
    CanAbort = TRUE
SPECIFICATION Spec
INVARIANTS TypeOK VerdictExact FullPatience ReadBudget
