SPECIFICATION FairSpec
CONSTANTS
    main = main
    p1 = p1
    p2 = p2
    u1 = u1
    u2 = u2
    a = a
    b = b
    Starter = main
    Pool = {p1}
    Stoppers = {u1, u2}
    HandlersStop = TRUE
    Sockets = {a, b}
    MaxStarts = 2
INVARIANTS
    TypeOK
    AcceptLoopAlive
    ThreadsJoined
    RunningWhileOpen
PROPERTIES
    AcceptedServed
    StopReturns
CHECK_DEADLOCK FALSE
