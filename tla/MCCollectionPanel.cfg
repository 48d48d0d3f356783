CONSTANTS
    q1 = q1
    q2 = q2
    a = a
    b = b
    c = c
    d = d
    e = e
    p1 = p1
    p2 = p2
    None = None
    Queries <- TwoQueries
    Feed <- Cards
    Closed <- ClosedOnes
    Alike <- AlikeOnes
    Pool <- TwoProxies
    Random = FALSE
    Threshold = 2
    RestartAfter = 1
    Turns = 2
    MaxTotal = 3
    MaxPerQuery = 2
    IncludeClosed = FALSE
    MaxRounds = 5
    StallLimit = 3
SPECIFICATION Spec
INVARIANT NoForeignFields
