\* One job, one request at a time, every fault and the test delay; no symmetry,
\* for liveness.
SPECIFICATION FairSpec
CONSTANTS
    Jobs = {j1}
    Users = {u1, u2}
    Requests = {r1}
    Nil = Nil
    TTL = 2
    RedisFaults = TRUE
    TestHook = TRUE
INVARIANTS
    DoneHasResult
    NoPartialResult
    Isolation
PROPERTY
    StreamEnds
CHECK_DEADLOCK FALSE
