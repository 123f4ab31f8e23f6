CONSTANTS
    u1 = u1
    u2 = u2
    Users <- MCUsers
    Gui = gui
    Pool = pool
    NoThread = nothread
    Parts = 5
    IndexPart = 4
SPECIFICATION FairSpec
INVARIANTS
    UsersSeeWhole
PROPERTIES
    SettledWhenDone
    EnsureReturns
CHECK_DEADLOCK FALSE
