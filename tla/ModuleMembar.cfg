SPECIFICATION Spec
CONSTANTS
    F = 3
    Buffers = {"x", "y"}
    Modules <- CallingModules
    MaxOps = 3
    MaxDepth = 3
INVARIANTS
    CalleesFirst
    NoRaceAfterCall
    ModuleInv
    AllAnalysed
