CONSTANTS
    c1 = c1
    c2 = c2
    x = x
    y = y
    None = None
    Caller <- Callers
    Wants <- Wanted
    Size = 2
    Future <- Futures
SPECIFICATION FairSpec
INVARIANTS
    TypeOK
    OwnPageOrNothing
    CrashIsolated
PROPERTIES
    RenderReturns
    CompletePoolEnds
CHECK_DEADLOCK FALSE
