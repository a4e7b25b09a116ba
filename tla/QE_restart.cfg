SPECIFICATION FairSpec
CONSTANTS
    c1 = c1  c2 = c2  c3 = c3
    r1 = r1  r2 = r2  r3 = r3
    Nil = Nil  Err = Err
    Callers <- TwoCallers
    Requests <- TwoRequests
    Unavailable <- OnlyR2
    Unkeyed <- NoRequests
    Outcomes <- Rough
    MaxRetries = 1
    DiskFaults = TRUE
    MaxRestarts = 1
    MaxEntryDeaths = 1
INVARIANTS
    RejectedStaysOut
PROPERTIES
    EveryQueryEnds
    KeepsPromise
