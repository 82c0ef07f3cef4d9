SPECIFICATION MCSpec
CONSTANTS
    p1 = p1
    p2 = p2
    k1 = k1
    k2 = k2
    f = f
    g = g
    s1 = s1
    s2 = s2
    a1 = a1
    a2 = a2
    Process = {p1, p2}
    arg_names <- MCArgNames
    KeyNames <- MCKeyNames
    Tensors = {"X"}
    Calls <- MCCalls
    ConfigLists <- MCLists
    Hooked = {2}
    Fits <- MCFits
    Persistent = TRUE
    MaxReps = 2
    MaxTime = 1
    MaxCalls = 2
    MaxRestarts = 1
    Bits32 = 6
    Bits64 = 8
    Launches <- MCLaunches
    Programs <- MCPrograms
    Source = {s1, s2}
    MaxParams = 2
CHECK_DEADLOCK FALSE
INVARIANTS
    TunedLaunch
    KernelsCurrent
    KeyDecides
PROPERTIES
    CallsEnd
