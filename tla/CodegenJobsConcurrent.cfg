\* One job, two requests at once, Redis working.
SPECIFICATION Spec
CONSTANTS
    Jobs = {j1}
    Users = {u1, u2}
    Requests = {r1, r2}
    Nil = Nil
    TTL = 1
    RedisFaults = FALSE
    TestHook = FALSE
SYMMETRY Symmetry
INVARIANTS
    MissingOnlyAfterExpiry
    FailedHasMessage
    FinishedJobsSettle

    
CHECK_DEADLOCK FALSE
