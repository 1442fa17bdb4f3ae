SPECIFICATION Spec
CONSTANTS
    c1 = c1
    c2 = c2
    t1 = t1
    t2 = t2
    Callers = {c1, c2}
    IoThreads = {t1}
    IdleTimeout = FALSE
    MaxFrames = 2
    MaxExpired = 1
SYMMETRY Symmetry
INVARIANTS
    CloseOnce
CHECK_DEADLOCK FALSE
