\* Every product of the test alone, and all of them.
CONSTANTS
    MaxResults = 3
    Plans = {}
    Selections <- EachAndAll
    Trials <- Pairs
SPECIFICATION TestSpec
INVARIANTS
    NoFalseAlarm
    MisreadIsCaught
    StatusIsEarned
\* The program ends.
CHECK_DEADLOCK FALSE
