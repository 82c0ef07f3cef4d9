SPECIFICATION MCSpec
CONSTANTS
    Chains <- MCChains
    Layouts <- MCLayouts
    Limit <- MCLimit
    Width <- MCWidth
    MaxDivisor <- MCMaxDivisor
CHECK_DEADLOCK FALSE
INVARIANTS
    ChainsKnown
    LoopsKnown
PROPERTIES
    AnalysisEnds
