\* Two projects, the second opened from the file manager.
SPECIFICATION Spec
CONSTANTS
    a = a
    b = b
    Projects = {a, b}
    None = None
    MaxEdits = 0
    MaxOps = 2
    MaxReloads = 0
    MaxFaults = 0
    MaxSaves = 1
INVARIANTS
    OneUnit
CHECK_DEADLOCK FALSE
