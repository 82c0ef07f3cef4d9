SPECIFICATION FairSpec
CONSTANTS
    N = 5
    Requests <- MCRequests
    SizeMax = 99
INVARIANTS
    RoundInv
PROPERTIES
    OffsetsGrow
    LayoutSpec
    Termination
