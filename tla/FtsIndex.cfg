CONSTANTS
    Order <- Ascending
    MaxCancels = 2
    MaxCrashes = 3
    MaxErrors = 1
    MaxChanges = 1
SPECIFICATION FairIndexSpec
INVARIANTS
    ResumableAlways
    MarkMeansWhole
PROPERTIES
    EventuallyComplete
CHECK_DEADLOCK FALSE
