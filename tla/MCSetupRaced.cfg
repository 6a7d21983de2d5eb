SPECIFICATION Spec
CONSTANTS
    Custom = {c1}
    Mounts = {"nfs1"}
    MaxEdits = 1
    MaxRuns = 1
INVARIANTS NeverClobbered
CHECK_DEADLOCK FALSE
