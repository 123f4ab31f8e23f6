CONSTANTS
    Words <- MCWords
    Fold <- MCFold
    Rank <- MCRank
    Limit <- MCLimit
    Prefixed <- MCPrefixed
    Writings <- MCWritings
    Queries = {q1, q2}
    MaxSearches = 2
    Answers <- MCAnswers
SPECIFICATION Spec
INVARIANTS
    RequestsAccountedFor
    FinalResultsComplete
PROPERTIES
    ImplementsService
