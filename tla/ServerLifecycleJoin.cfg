SPECIFICATION FairSpec
CONSTANTS
    main = main
    p1 = p1
    p2 = p2
    u1 = u1
    u2 = u2
    a = a
    b = b
    Starter = main
    Pool = {p1}
    Stoppers = {u1}
    HandlersStop = TRUE
    Sockets = {a}
    MaxStarts = 1
PROPERTIES
    StartReturns
CHECK_DEADLOCK FALSE
