------------------------------ MODULE MCPipeline ------------------------------
(* Two queries that list one business each of their own and share a third.    *)
EXTENDS Pipeline, TLC

CONSTANTS q1, q2, a1, b1, b2, c2, w1, w2

TwoQueries == <<q1, q2>>
Overlap    == q1 :> <<a1, b1>> @@ q2 :> <<b2, c2>>
Owners     == a1 :> "a" @@ b1 :> "b" @@ b2 :> "b" @@ c2 :> "c"
Workers    == {w1, w2}
AllFaults  == FaultKind
Errors     == {"collect_error"}
Crashes    == {"crash"}
Symmetric  == Permutations(Workers)
=============================================================================
