CONSTANTS
    q1 = q1
    q2 = q2
    a1 = a1
    b1 = b1
    b2 = b2
    c2 = c2
    w1 = w1
    w2 = w2
    Queries <- TwoQueries
    Results <- Overlap
    BusinessOf <- Owners
    Worker <- Workers
    None = None
    MaxInFlight = 1
    IdleExit = TRUE
    Faults <- Errors
SPECIFICATION FairSpec
INVARIANT DoneQueriesResolved
PROPERTY RunEnds
