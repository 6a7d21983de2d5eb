\* Grace = 2, Needed = 2, MaxUnknown = 2, MaxPolls = 3
CONSTANTS
    PollInterval = 2
    GraceSeconds = 4
    IdleConfirmations = 2
    MaxReadFailures = 2
    MaxWatchSeconds = 6
    CanAbort = FALSE
    BootTicks = 2
    WakeAttempts = 2
    CanGarble = TRUE
    TryJobs <- EveryJob
    TrySettings <- EverySetting
SPECIFICATION FairSpec
INVARIANTS TypeOK RequestBudget TvComesHome GiveUpClears NoReclaimUnderPlayback
PROPERTIES NeverLeftAsleep NoPlayIntoBadMount ManualChangeSticks ImplementsHandover
CHECK_DEADLOCK FALSE
