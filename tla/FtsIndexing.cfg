CONSTANTS
    Dicts <- MCDicts
    List <- MCList
    Big = {"big"}
    MaxStarts = 2
    NoName = "none"
SPECIFICATION FairSpec
INVARIANTS
    OneThread
    PassesInOrder
    NoneLeftOut
PROPERTIES
    ListStable
    IndexingEnds
CHECK_DEADLOCK FALSE
