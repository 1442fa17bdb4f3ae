SPECIFICATION Spec
CONSTANTS
    t1 = t1
    t2 = t2
    u1 = u1
    Users = {u1}
    Reader = Reader
    IoThreads = {t1, t2}
    IdleTimeout = FALSE
    RequestTimeout = TRUE
    InternalIo = FALSE
    MaxMessage = 3
    SizeModulus = 8
    Lengths = {1, 3}
    MaxFrames = 1
    MaxPeerFrames = 2
SYMMETRY Symmetry
INVARIANTS
    TypeOK
    Membership
    WritesOneAtATime
CHECK_DEADLOCK FALSE
