SPECIFICATION Spec
CONSTANTS
    t1 = t1
    Reader = Reader
    IoThreads = {t1}
    IdleTimeout = TRUE
    RequestTimeout = TRUE
    InternalIo = FALSE
    Routes = {"plain", "tls", "proxy"}
    MaxMessage = 300
    SizeModulus = 1024
    Lengths = {1, 256}
    Leftovers = {0, 3, 5}
    MaxFrames = 1
    MaxPeerFrames = 2
INVARIANTS
    TypeOK
    MessageIntegrity
    CallbacksWellFormed
    ReadsTimed
PROPERTIES
    ImplementsInStream
    NoCallbackAfterDestroy
CHECK_DEADLOCK FALSE
