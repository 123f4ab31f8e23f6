CONSTANTS
    Count = 3
    MayThrow = {2}
    WordCount = 4
SPECIFICATION FairSpec
INVARIANTS
    DocumentSound
    ArticlesInOrder
    HeadedByItsDictionary
    CompoundsListed
PROPERTIES
    PageFinishes
CHECK_DEADLOCK FALSE
