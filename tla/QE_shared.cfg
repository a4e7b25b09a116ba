SPECIFICATION Spec
CONSTANTS
    c1 = c1  c2 = c2  c3 = c3
    r1 = r1  r2 = r2  r3 = r3
    Nil = Nil  Err = Err
    Callers <- ThreeCallers
    Requests <- ThreeRequests
    Unavailable <- NoRequests
    Unkeyed <- OnlyR3
    Outcomes <- AllOutcomes
    MaxRetries = 1
    DiskFaults = FALSE
    MaxRestarts = 0
    MaxEntryDeaths = 1
SYMMETRY CallerSymmetry
INVARIANTS
    TypeOK
    SingleFlight
    NoOrphans
    PoisonIsAttended
    NoEmptyReply
    StatsAddUp
    AnswersOwnRequest
    CacheHoldsAnswers
