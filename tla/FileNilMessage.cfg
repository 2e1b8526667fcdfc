CONSTANTS
    Worker = Worker
    SrcId = SrcId
    Callers <- MCCallers
    TaskIds <- MCTaskIds
    IdleTimeout = 0
    MaxLines = 1
    MaxSignals = 2
SPECIFICATION Spec
CHECK_DEADLOCK FALSE
INVARIANTS
    SuccessIsComplete
