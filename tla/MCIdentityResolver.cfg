CONSTANTS
    Discovery = {r1, r2, r3}
    locationA = locationA
    locationB = locationB
    weakA = weakA
    weakB = weakB
    secondA = secondA
    nameless = nameless
    Listing = {locationA, locationB, weakA, weakB, secondA, nameless}
    Signals <- SomeSignals
    None = None
    PreloadLimit = 2
    Absent = Absent
SYMMETRY Symmetric
SPECIFICATION Spec
INVARIANTS
    TypeOK
    NoStaleEntry
PROPERTIES
    DroppedOnlyForTwin
    ClaimsWithinPreload
CHECK_DEADLOCK FALSE
