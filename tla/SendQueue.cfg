SPECIFICATION FairSpec
CONSTANTS
    c1 = c1
    c2 = c2
    t1 = t1
    t2 = t2
    Callers = {c1, c2}
    IoThreads = {t1, t2}
    IdleTimeout = TRUE
    MaxFrames = 3
    MaxExpired = 1
INVARIANTS
    TypeOK
    OneWrite
    WireOrder
    CallbackOrder
PROPERTIES
    NoCallbackAfterStop
    ImplementsStream
    EveryFrameAnswered
CHECK_DEADLOCK FALSE
