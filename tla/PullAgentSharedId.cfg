CONSTANTS
    d1 = d1
    d2 = d2
    m1 = m1
    m2 = m2
    Main = Main
    NoMsg = NoMsg
    NoOne = NoOne
    SrcId = SrcId
    Callers <- MCCallers
    TaskIds <- MCTaskIds
    Msgs <- MCMsgs
    NoAttributes <- MCNoneBare
    IdleTimeout = 1
    HasIdleTimeout = TRUE
    MaxOutstanding = 2
    MaxSignals = 0
    MaxFailures = 0
    MaxRestarts = 0
SPECIFICATION Spec
CHECK_DEADLOCK FALSE
PROPERTY IdleCancelOnlyWhenQuiet
