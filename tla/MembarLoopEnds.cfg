SPECIFICATION FairSpec
CONSTANTS
    Blocks = {"entry", "body", "other", "exit"}
    Entry = "entry"
    Functions <- LoopFunctions
    MaxOps = 2
    DisableOptMACA = FALSE
    MaxBlockList = 8
PROPERTIES
    Termination
