\* One project, saved or not.
SPECIFICATION FairSpec
CONSTANTS
    a = a
    b = b
    Projects = {a}
    None = None
    MaxEdits = 2
    MaxOps = 1
    MaxReloads = 1
    MaxFaults = 1
    MaxSaves = 2
INVARIANTS
    NothingForgotten
PROPERTIES
    Kept
    SavedInTime
CHECK_DEADLOCK FALSE
