SPECIFICATION Spec
CONSTANTS
    Blocks = {"entry", "body", "other", "exit"}
    Entry = "entry"
    Functions <- LoopAndNestFunctions
    MaxOps = 2
    DisableOptMACA = FALSE
    MaxBlockList = 8
INVARIANTS
    NoRace
    SummaryCoversDangling
    FixpointInv
