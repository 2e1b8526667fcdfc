CONSTANTS
    t1 = t1
    t2 = t2
    Main = Main
    Callers <- MCCallers
    TaskIds <- MCCallers
    IdleTimeout <- MCIdleTimeout
SPECIFICATION FairSpec
INVARIANTS
    TableIsOutstandingTasks
    TimerFollowsIdlePeriod
PROPERTIES
    IdleCancelOnlyWhenQuiet
    ReportsAreReceived
    IdleProcessIsCancelled
    StopReturns
