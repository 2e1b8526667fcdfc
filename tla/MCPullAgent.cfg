CONSTANTS
    d1 = d1
    d2 = d2
    m1 = m1
    m2 = m2
    Main = Main
    NoMsg = NoMsg
    NoOne = NoOne
    SrcId = SrcId
    Callers <- MCCallers
    TaskIds <- MCTaskIds
    Msgs <- MCMsgs
    NoAttributes <- MCOneBare
    IdleTimeout = 1
    HasIdleTimeout = TRUE
    MaxOutstanding = 1
    MaxSignals = 2
    MaxFailures = 1
    MaxRestarts = 1
SPECIFICATION MainFairSpec
CHECK_DEADLOCK FALSE
INVARIANTS
    AckedOnlyAfterResponse
    LeasedIsHandled
    NoSendOnClosedChannel
PROPERTIES
    SignalEndsProcess
