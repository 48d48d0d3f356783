CONSTANTS
    Worker = {w1, w2, w3}
    Domain = {d1, d2}
    Semaphore = {s1, s2, s3, s4}
    NoSemaphore = NoSemaphore
    PerDomain = 1
    MaxDomains = 1
    Retries = 1
    MaxPark = 1
    Respect = TRUE
SYMMETRY Symmetric
SPECIFICATION Spec
INVARIANTS
    TypeOK
    PoliteUnlessPruned
    PermitsKept
PROPERTY AtMostOneLateRequest
