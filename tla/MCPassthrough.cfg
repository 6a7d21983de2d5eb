SPECIFICATION FairSpec
CONSTANTS
    IdleConfirmations = 2
    MaxPolls = 3
    QueueSize = 2
    Keys <- MCKeys
    Overrides <- MCOverrides
    CodeByButton <- MCCodeByButton
    CodeByAction <- MCCodeByAction
    MaxDialogs = 2
    MaxPresses = 3
INVARIANTS TypeOK KeysInOrder OneLateKey RemoteComesBack
PROPERTIES NotDroppedByBlips DialogCloses
CHECK_DEADLOCK FALSE
