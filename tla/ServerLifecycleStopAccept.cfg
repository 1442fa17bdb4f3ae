SPECIFICATION FairSpec
CONSTANTS
    main = main
    p1 = p1
    p2 = p2
    u1 = u1
    u2 = u2
    a = a
    b = b
    Starter = main
    Pool = {}
    Stoppers = {}
    HandlersStop = FALSE
    Sockets = {a}
    MaxStarts = 1
PROPERTIES
    AcceptLoopEnds
CHECK_DEADLOCK FALSE
