CONSTANTS
    Words <- MCWords
    Fold <- MCFold
    Rank <- MCRank
    Limit <- MCLimit
    Prefixed <- MCPrefixed
    Writings <- MCWritings
    Queries = {q1, q2}
    MaxSearches = 2
    Answers <- FewAnswers
SPECIFICATION GuiSpec
PROPERTIES
    QueuedSearchStarts
    PartialResultsShown
    SearchFinishes
