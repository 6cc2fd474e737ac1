CONSTANTS
    Window = 3
    MaxNow = 3
    DurationBuckets <- MetricBuckets
    Nil = Nil
    NoCond = NoCond
    BadCond = BadCond
    Groups <- MetricGroups
    Packets <- MetricPackets
    Workloads <- MetricWorkloads
    Configs <- MetricConfigs
    ShardCount = 1
    WheelSize = 3
    WaitTime = 10
    SpillThreshold = 1
    MayFail = {"get"}
    MaxUpdates = 1
    PayloadLen <- MCPayloadLen
    Compress <- MCCompress
    HasPredicates <- packetHasSpanPredicates
    MergePredicates <- mergeSpanPredicates
    Coverable <- MetricCoverable
    DecideWithPredicates <- MetricDecision
    EvaluatePipelines <- MetricDecision
    KVsOf <- MCKVs
    Decodable <- MCDecodable
    Matches <- MCMatches
    StrRank <- MCRank
    HTTPErrorRegexes = {}
    IsHTTPError <- MCIsHTTPError
SPECIFICATION TSLiveSpec
INVARIANT MetricsComplete
PROPERTY EventuallyReported
