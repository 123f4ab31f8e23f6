CONSTANTS
    Sessions <- MCSessions
    Pages = {p1, p2}
    MaxRedirects = 1
SPECIFICATION FairSpec
INVARIANTS
    AsAsked
    NotFoundMeansAbsent
PROPERTIES
    FinalWhenFinished
    EachEnds
CHECK_DEADLOCK FALSE
