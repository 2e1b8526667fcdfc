CONSTANTS
    r1 = r1
    r2 = r2
    Main = Main
    NoMsg = NoMsg
    NoId = NoId
    Worker = Main
    SrcId = NoId
    Requests <- MCGoroutines
    Receivers <- MCGoroutines
    Callers <- MCCallers
    TaskIds <- MCTaskIds
    IdleTimeout = 0
    MaxLines = 3
    MaxCalls = 2
    MaxItems = 2
    PoolSize = 2
    MaxOutstanding = 1
    MaxSignals = 2
SPECIFICATION AgentFairSpec
CHECK_DEADLOCK FALSE
INVARIANTS
    SuccessIsAccountedFor
    AnswersInOrder
    OkIsComplete
    IdleOnlyWhenAllHeard
PROPERTIES
    FirstErrorKept
    FileEnds
    RequestsEnd
    SignalStopsServer
    EndsWhenAllHeard
