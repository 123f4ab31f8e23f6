CONSTANTS
    Dicts = 2
    Hits <- MCHits
    Rank <- MCRank
    Fold <- MCFold
    MaxRounds = 4
    MaxFrames = 2
SPECIFICATION FairSpec
INVARIANTS
    DialogSound
    ResultsOfSearch
    CountOfSearch
PROPERTIES
    StopEnds
CHECK_DEADLOCK FALSE
