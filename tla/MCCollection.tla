----------------------------- MODULE MCCollection -----------------------------
(* Two queries over five places, of which one is closed and two have names    *)
(* with a token in common.                                                    *)
EXTENDS Collection

CONSTANTS q1, q2, a, b, c, d, e, p1, p2

TwoQueries == <<q1, q2>>
Cards      == q1 :> <<a, b>> @@ q2 :> <<c, d, e>>
ClosedOnes == {b}
AlikeOnes  == {<<a, b>>, <<b, a>>}
TwoProxies == <<p1, p2>>
=============================================================================
