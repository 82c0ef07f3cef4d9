SPECIFICATION MCSpec
CONSTANTS
    IV = IV
    Outside = Outside
    Masked = Masked
    Missing = Missing
    a1 = a1
    Filler = Filler
    a = a
    b = b
    OpCount = 3
    Arg = {a1}
    Stages = {0, 1, 2}
    Iterations = {0, 1, 2, 3}
    MaxReads = 1
    Loops <- MCLoopsPeeledRight
    MaxStages = 4
    MaxDepth = 3
    MaxTail = 1
    MaxIterations = 3
    Warps = {a, b}
    LoadCount = 2
    Layouts <- MCLayouts
    Masks <- MCMasks
    Others <- MCOthers
    NumStages = {2, 3}
    MaxTrip = 3
CHECK_DEADLOCK FALSE
SYMMETRY MCSymmetry
INVARIANTS
    OperationsRunOnce
    ScheduleValid
    BuffersHoldOwnData
    DotsUseOwnIteration
    QuietAfterLoop
PROPERTIES
    ImplementsLoop
