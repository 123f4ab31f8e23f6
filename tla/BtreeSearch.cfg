CONSTANTS
    Indexes <- MCIndexes
    MaxElements = 2
    Targets <- MCTargets
    Letters = {1, 2}
    Folded <- MCFolded
    Chains <- MCChains
    Searches <- MCSearches
SPECIFICATION SearchSpec
INVARIANTS
    LookupCorrect
    AnswerExact
    NearestFirst
PROPERTIES
    SearchEnds
CHECK_DEADLOCK FALSE
