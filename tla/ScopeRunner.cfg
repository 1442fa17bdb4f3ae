SPECIFICATION FairSpec
CONSTANTS
    w1 = w1
    w2 = w2
    w3 = w3
    s1 = s1
    s2 = s2
    Workers = {w1, w2, w3}
    Stoppers = {s1, s2}
    MaxScopes = 2
INVARIANTS
    TypeOK
    CountIsLocks
    StopExcludesHandlers
PROPERTIES
    NoLockAfterStop
    ImplementsGate
    StopReturns
CHECK_DEADLOCK FALSE
