CONSTANTS
    c1 = c1
    c2 = c2
    c3 = c3
    c4 = c4
    initA = initA
    initB = initB
    NoInit = NoInit
    Free = Free
    NoId = NoId
    Calls <- MCCalls
    MaxInitRuns = 1
    MaxWorkers <- MCMaxWorkers
    InitIds <- MCInitIds
    MaxItems <- MCFiles
    Workers <- MCWorkers
    NumCPU <- MCNumCPU
    Buffers <- MCBuffers
    Count <- MCCount
    PayloadFails <- MCPayloadFails
SPECIFICATION ProgramFairSpec
INVARIANTS
    SlotsCounted
    NoLostWakeup
    LocksFollowPhase
    InitOnlyWhenNew
    TaskIsInitialised
    ObjectsAreAtomic
    TotalsAreFinal
    LoadedIsWhole
PROPERTIES
    SlotIsReturned
