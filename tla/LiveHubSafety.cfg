\* Two connections of one scope.
SPECIFICATION Spec
CONSTANTS
    c1 = c1
    c2 = c2
    s1 = s1
    Conns = {c1, c2}
    Scopes = {s1}
    ScopeOf <- OneScope
    Stalled = {}
    Nil = Nil
    SendCap = 1
    QueueCap = 2
    InboundCap = 1
    MaxReceived <- Three
SYMMETRY Symmetry
INVARIANTS
    SendClosedOnce
    OneFeedPerScope
    NoGap
CHECK_DEADLOCK FALSE
