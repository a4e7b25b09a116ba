SPECIFICATION Spec
CONSTANTS
    Largest = 10
    Upper <- Spellings
    Commands <- Both
    Worlds <- JustNested
    Setups <- AllSetups
    Files <- JustNoFile
    Supported = {"aws_instance"}
INVARIANT
    RegionIsExact
CHECK_DEADLOCK FALSE
