SPECIFICATION MCSpec
CONSTANTS
    t1 = t1
    t2 = t2
    p1 = p1
    p2 = p2
    n1 = n1
    n2 = n2
    d1 = d1
    d2 = d2
    s1 = s1
    s2 = s2
    Thread = {t1, t2}
    Path = {p1, p2}
    Name = {n1, n2}
    MaxSessions = 2
    MaxDepth = 2
    MaxErrors = 1
    Launcher = {t1}
    Data = {d1}
    Stream = {s1, s2}
    Drivers <- MCDrivers
    MaxLaunches = 2
    MaxRetries = 1
CHECK_DEADLOCK FALSE
INVARIANTS
    RegistryAgrees
    NoProfileLost
    ScopesMatched
    LaunchesCountedOnce
PROPERTIES
    FlushReturns
