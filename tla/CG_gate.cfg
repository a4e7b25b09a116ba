SPECIFICATION Spec
CONSTANTS
    Addresses = {web, db}
    Blank = ""
    MaxFinite = 5
    Normal <- Spellings
    CurrentVersion = 1
    Commands <- Both
    Settings <- AllSettings
    Bills <- AllBills
INVARIANTS
    TotalIsTrue
    RowsAreTrue
    VerdictIsTrue
    ShownIsFinite
CHECK_DEADLOCK FALSE
