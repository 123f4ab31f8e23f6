CONSTANTS
    MaxSize = 4
    MaxRead = 2
SPECIFICATION FairDelivery
INVARIANTS
    EndTold
PROPERTIES
    AllDelivered
CHECK_DEADLOCK FALSE
