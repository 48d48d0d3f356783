CONSTANTS
    a1 = a1
    a2 = a2
    Record = {a1, a2, b, c}
    NoRecord = NoRecord
    BusinessOf <- Twins
    Faults <- Stops
SPECIFICATION Spec
INVARIANTS
    TypeOK
    CommittedRowsExported
    ReadyMeansReconciled
    NoDuplicateRows
PROPERTY ExportLogSpec
