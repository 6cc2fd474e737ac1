CONSTANTS
    Nil = Nil
    NoCond = NoCond
    BadCond = BadCond
    Groups <- MCGroups
    Packets <- MCPackets
    Workloads <- MCWorkloads
    Configs <- MCConfigs
    ShardCount = 2
    WheelSize = 3
    WaitTime = 10
    SpillThreshold = 1
    MayFail = {"put", "get", "delete"}
    MaxUpdates = 2
    PayloadLen <- MCPayloadLen
    Compress <- MCCompress
    HasPredicates <- packetHasSpanPredicates
    MergePredicates <- mergeSpanPredicates
    Coverable <- compilePipelinesFast
    DecideWithPredicates <- decideWithPredicates
    EvaluatePipelines <- evaluatePipelines
    KVsOf <- MCKVs
    Decodable <- MCDecodable
    Matches <- MCMatches
    StrRank <- MCRank
    HTTPErrorRegexes = {}
    IsHTTPError <- MCIsHTTPError
SPECIFICATION Spec
INVARIANTS WheelExact PayloadComplete SpillOwned KeptComplete 
PROPERTY Buffers
