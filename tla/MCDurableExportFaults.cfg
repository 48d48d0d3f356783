CONSTANTS
    a1 = a1
    a2 = a2
    Record = {a1, a2, b}
    NoRecord = NoRecord
    BusinessOf <- Twins
    Faults <- AllKinds
SPECIFICATION FairSpec
PROPERTY StartupTerminates
