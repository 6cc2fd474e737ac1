SPECIFICATION Spec
CONSTANTS
    Matches <- MCMatches
    StrRank <- MCStrRank
    HashDistinct <- MCHashDistinct
    SampleSlot <- MCSampleSlot
    Estimate <- MCEstimate
    countDistinctExactLimit = 2
    countDistinctSketchBits = 4
    quantileSampleLimit = 2
    Cases <- MCCases
    Origins <- MCOrigins
    Batches <- MCBatches
    NewCals <- CalsOf
    StateAdded <- AddState
    BuiltTags <- BuildTags
    Result <- Aggr
    Goroutines = {p, q}
    Token <- MCToken
    Expired = 1
    MaxNow = 4
    MaxBack = 1
    MaxWindows = 3
SYMMETRY Symmetry
INVARIANTS
    CountedOnce
    WindowOwned
    AggrExact
CHECK_DEADLOCK FALSE
