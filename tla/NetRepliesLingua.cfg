CONSTANTS
    Sessions <- MCSessions
    Pages = {p1}
    MaxRedirects = 1
SPECIFICATION Spec
INVARIANTS
    LinguaNotFoundMeansAbsent
CHECK_DEADLOCK FALSE
