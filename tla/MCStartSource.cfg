CONSTANTS
    Delay <- MCDelay
    RampDuration <- MCRampDuration
    RampSteps <- MCRampSteps
    MaxItems <- MCMaxItems
    MaxValues <- MCMaxItems
    MaxTime <- MCMaxTime
    Workers <- MCWorkers
    NumCPU <- MCNumCPU
    FileSizes <- MCFileSizes
SPECIFICATION SourceFairSpec
INVARIANTS
    NoGoroutineLost
    FirstErrorReturned
    BoundedOverrun
    RateIsLimited
    OnlyCancellationDrops
    CallsAreLimited
    NilMeansAllDone
PROPERTIES
    OnePassEnds
    ImplementsWorkPool
