CONSTANTS
    c1 = c1
    c2 = c2
    c3 = c3
    c4 = c4
    initA = initA
    initB = initB
    NoInit = NoInit
    Free = Free
    NoId = NoId
    Calls <- MCCalls
    MaxInitRuns = 2
    MaxWorkers <- MCMaxWorkers
    InitIds <- MCTwoIds
    MaxItems <- MCFiles
    Workers <- MCWorkers
    NumCPU <- MCNumCPU
    Buffers <- MCBuffers
    Count <- MCCount
    PayloadFails <- MCPayloadIsMade
SPECIFICATION ProgramFairSpec
INVARIANTS
    InitOnceForSameId
