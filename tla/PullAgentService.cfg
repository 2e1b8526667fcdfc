CONSTANTS
    d1 = d1
    d2 = d2
    m1 = m1
    m2 = m2
    Main = Main
    NoMsg = NoMsg
    NoOne = NoOne
    SrcId = SrcId
    Callers <- MCCallers
    TaskIds <- MCTaskIds
    Msgs <- MCMsgs
    NoAttributes <- MCNoneBare
    IdleTimeout = 1
    HasIdleTimeout = FALSE
    MaxOutstanding = 1
    MaxSignals = 0
    MaxFailures = 1
    MaxRestarts = 1
SPECIFICATION ServiceSpec
CHECK_DEADLOCK FALSE
PROPERTIES
    EveryRequestAnswered
