------------------------------ MODULE ExportLog ------------------------------
(***************************************************************************)
(* What the export of a campaign promises: a log of leads.  A lead enters  *)
(* the log once, at its end, and stays.  The log is made stable in groups, *)
(* so a power failure may cut off the newest leads, never a stable one and *)
(* never one from the middle.                                              *)
(***************************************************************************)
EXTENDS Naturals, Sequences, Functions

CONSTANT Record

VARIABLES log,     \* the exported leads, oldest first
          stable   \* how many of them survive a power failure

vars == <<log, stable>>

Init == log = <<>> /\ stable = 0

Export(r) ==
    /\ r \notin Range(log)
    /\ log' = Append(log, r)
    /\ UNCHANGED stable

Stabilize ==
    /\ stable' = Len(log)
    /\ UNCHANGED log

Lose(k) ==
    /\ k >= stable
    /\ log' = SubSeq(log, 1, k)
    /\ UNCHANGED stable

Next ==
    \/ \E r \in Record : Export(r)
    \/ Stabilize
    \/ \E k \in 0..Len(log) : Lose(k)

Spec == Init /\ [][Next]_vars
=============================================================================
