SPECIFICATION Spec
CONSTANTS
    Largest = 10
    Upper <- Spellings
    Commands <- Both
    Worlds <- AllWorlds
    Setups <- AllSetups
    Files <- AllFiles
    Supported = {"aws_instance"}
INVARIANTS
    LoadsWhatIsPlanned
    UnshadowedRegionIsExact
    BadUsageStopsTheRun
    UsageIsApplied
CHECK_DEADLOCK FALSE
