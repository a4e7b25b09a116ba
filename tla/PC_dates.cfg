SPECIFICATION Spec
CONSTANTS
    g1 = g1  g2 = g2  k1 = k1
    Nil = Nil  Malformed = Malformed
    Goroutines <- TwoGoroutines
    Keys <- OneKey
    TTLs <- SettingsWithNegative
    DefaultTTL = 2
    TicksPerSecond = 2
    DiskFaults = TRUE
    MaxTime = 6
    MaxPuts = 2
    MaxOpens = 2

CHECK_DEADLOCK FALSE
INVARIANTS
    TypeOK
    HitIsInDate
    CleanSinceOpen
PROPERTIES
    NoEarlyExpiry
