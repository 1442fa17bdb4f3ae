SPECIFICATION FairSpec
CONSTANTS
    t1 = t1
    t2 = t2
    u1 = u1
    Users = {}
    Reader = Reader
    IoThreads = {t1}
    IdleTimeout = TRUE
    RequestTimeout = TRUE
    InternalIo = TRUE
    MaxMessage = 3
    SizeModulus = 8
    Lengths = {1, 3}
    MaxFrames = 0
    MaxPeerFrames = 3
INVARIANTS
    FragmentBounded
    ReadsTimed
PROPERTIES
    ImplementsInStream
    HandshakeEnds
    OpenedEnds
CHECK_DEADLOCK FALSE
