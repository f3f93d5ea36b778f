\* Every layout, with cycles.
SPECIFICATION Spec
CONSTANTS
    Node <- Devices
    Global <- Outside
    Last = 9
    Scenes <- AllScenes
INVARIANTS
    SortRespects
    
    StuckOnCycle
    OutwardFirst
    Complete
    BlocksNest
    StopComputed
