SPECIFICATION Spec
CONSTANTS
    p = p
    q = q
    Procs = {p, q}
    Stages <- MCStages
    Unlisted = {"llir"}
    Binary = "mcfatbin"
    Versions = {"v"}
    MaxRuns = 2
    MaxEvictions = 1
SYMMETRY ProcSymmetry
INVARIANTS
    EntryComplete
    FailsOnlyAfterEviction
    EntryUsed
    CacheInv
