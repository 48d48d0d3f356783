--------------------------- MODULE MCDurableExport ---------------------------
(* Small instances of DurableExport for TLC: records a1 and a2 are two       *)
(* collections of one business, the others are of businesses of their own.   *)
EXTENDS DurableExport, TLC

CONSTANTS a1, a2

Stops    == {"crash", "power_loss", "schema_change"}
AllKinds == FaultKind
Raises   == {"commit_error"}

Twins == [r \in Record |-> IF r = a2 THEN a1 ELSE r]
=============================================================================
