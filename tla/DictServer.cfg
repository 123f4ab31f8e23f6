CONSTANTS
    Strategies = 2
    Databases = 2
    Answers <- MCAnswers
    MaxMatches = 2
    Handshake = 2
SPECIFICATION FairSpec
INVARIANTS
    LinesInStep
    
    FinishNotLost
PROPERTIES
    DestructorReturns
CHECK_DEADLOCK FALSE
