SPECIFICATION Spec
CONSTANTS
    Custom = {c1, c2}
    Mounts = {"nfs1", "nfs2"}
    MaxEdits = 1
    MaxRuns = 2
INVARIANTS CustomKept WizardOutcomeHolds
PROPERTIES DoneMeansReached CallbacksEnd
CHECK_DEADLOCK FALSE
