SPECIFICATION Spec
CONSTANTS
    w1 = w1  w2 = w2
    Nil = Nil  Err = Err  NoRegion = NoRegion
    Workers <- TwoWorkers
    Plans <- InTheNorth
    Settings <- OwnDomain
    Custom <- OneCustom
    Unpriceable <- NoPlaceholders
    MaxRuns = 2
CHECK_DEADLOCK FALSE
INVARIANTS
    NoCrossSitePrice
