SPECIFICATION FairSpec
CONSTANTS
    t1 = t1
    Reader = Reader
    IoThreads = {t1}
    IdleTimeout = TRUE
    RequestTimeout = TRUE
    InternalIo = FALSE
    Routes = {"plain"}
    MaxMessage = 300
    SizeModulus = 1024
    Lengths = {1}
    Leftovers = {0}
    MaxFrames = 1
    MaxPeerFrames = 1
PROPERTIES
    ConnectionEnds
CHECK_DEADLOCK FALSE
