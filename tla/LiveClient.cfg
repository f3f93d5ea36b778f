\* Three switches between two projects and three faults.
SPECIFICATION FairSpec
CONSTANTS
    p = p
    q = q
    Projects = {p, q}
    None = None
    MaxSwitches = 3
    MaxFaults = 3
INVARIANTS
    OneRetryEach
    RecoveriesMatch
PROPERTIES
    Heals
CHECK_DEADLOCK FALSE
