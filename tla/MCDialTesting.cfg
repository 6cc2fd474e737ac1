SPECIFICATION Spec
CONSTANTS
    Holds <- MCHolds
    BadPatterns = {"("}
    Durations <- MCDurations
    IPs = {"1.1.1.1"}
    NoResp = NoResp
    NoScript = NoScript
    NoBody = NoBody
    NoMethod = NoMethod
    NoResult = NoResult
    Nil = Nil
    Tasks <- MCTasks
    GlobalValues <- MCGlobalValues
    Worlds <- MCWorlds
    MaxRuns = 3
INVARIANTS VerdictEarned RequestsOfThisRun
CHECK_DEADLOCK FALSE
