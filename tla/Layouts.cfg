SPECIFICATION MCSpec
CONSTANTS
    Ops <- MCConversions
    MaxBases = 2
    MaxOuter = 1
    Bits = 2
CHECK_DEADLOCK FALSE
INVARIANTS
    TensorConverted
    LinearLayoutSame
    AlgebraMeans
