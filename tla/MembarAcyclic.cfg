SPECIFICATION FairSpec
CONSTANTS
    Blocks = {"entry", "body", "other", "exit"}
    Entry = "entry"
    Functions <- AcyclicFunctions
    MaxOps = 2
    DisableOptMACA = TRUE
    MaxBlockList = 4
PROPERTIES
    Termination
