SPECIFICATION FairSpec
CONSTANTS
    Passes <- Diff
    Plan <- FiveResources
    Options <- DefaultOrTwo
    Kinds <- PricedOrPanic
    MayFail = TRUE
INVARIANTS
    TypeOK
    NoSendOnClosed
    AllAccounted
    Repeatable
    EngineOutlivesWorkers
    ZeroTellsTheTruth
PROPERTIES
    RunEnds
