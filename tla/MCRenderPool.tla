----------------------------- MODULE MCRenderPool -----------------------------
(* Two callers, two pages, two browser threads, and at most two jobs that are  *)
(* not done, so that a late one and that of the next call are there together.  *)
EXTENDS RenderPool, TLC

CONSTANTS c1, c2, x, y

Callers == {c1, c2}
Wanted  == c1 :> {x, y} @@ c2 :> {y}
Futures == {1, 2}
=============================================================================
