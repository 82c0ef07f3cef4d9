SPECIFICATION MCSpec
CONSTANTS
    Ops <- MCReductions
    WarpSize = 4
    MaxWarps = 4
INVARIANTS
    RowsReducedInScratch
    RowsScanned
