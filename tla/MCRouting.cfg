SPECIFICATION Spec
CONSTANTS
    Hosts = {h1}
    UserFiles = {u1, u2}
    Lossy = {u2}
    MaxChanges = 2
    MaxStops = 2
    MaxFaults = 1
INVARIANTS UserFileKept SettledInForce DisabledRestores
PROPERTIES DiscPlaysConfigured ChangesLand
CHECK_DEADLOCK FALSE
