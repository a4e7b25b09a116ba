\* Every mapper, and every shape of the answers it reads.
CONSTANTS
    MaxResults = 3
    Plans <- AllPlans
SPECIFICATION Spec
INVARIANTS
    QuoteIsTrue
    HealthyIsQuoted
    NoPriceFromFaults
\* A resource is priced once.
CHECK_DEADLOCK FALSE
