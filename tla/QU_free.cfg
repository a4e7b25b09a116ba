\* The items of a public address of Alibaba Cloud, all at 0.
CONSTANTS
    MaxResults = 3
    Plans <- AllPlans
SPECIFICATION Spec
INVARIANT NothingIsFree
CHECK_DEADLOCK FALSE
