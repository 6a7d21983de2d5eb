CONSTANTS
    Configs <- MCConfigs
    Below = 1
    MaxRuns = 2
    Workers = {w1, w2}
    Keys = {up}
    MaxAttempts = 2
    MaxResync = 3
    MaxLearns = 2
    MaxPresses = 2
    MaxNoise = 3
    MaxConnects = 1
    Firsts <- MCFirsts
    MaxSetups = 3
SPECIFICATION InfraredSpec
INVARIANTS InfraredTypeOK LandsOnOppo ReclaimHolds LearnsWhatWasPressed PristineKept OverlaysOnce
PROPERTIES StraysAreSkipped LearnEnds
CHECK_DEADLOCK FALSE
