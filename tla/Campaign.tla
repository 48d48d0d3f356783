------------------------------- MODULE Campaign -------------------------------
(***************************************************************************)
(* What a campaign promises of the businesses it finds, whatever threads    *)
(* and queues it is made of.  A record claims its business, and while the   *)
(* claim stands no other record may; the claim ends in a lead, a refusal or *)
(* a failure, or with the process.  The business of a lead is never claimed *)
(* again.  A session collects, closes and reports, if the report succeeds;  *)
(* when it reports without having given up on anything, nothing is claimed  *)
(* and nothing will be.                                                     *)
(***************************************************************************)
EXTENDS Sequences, Functions

CONSTANTS Business, Query

VARIABLES leads,    \* the businesses exported, oldest first
          claimed,  \* the businesses of the records under way
          refused,  \* the businesses ever refused
          report,   \* the businesses in the workbook, which may be an old one
          done,     \* the queries that will not be asked again
          phase     \* of the session: stopped, collecting, closing, reported

vars == <<leads, claimed, refused, report, done, phase>>

Init ==
    /\ leads = <<>> /\ claimed = {} /\ refused = {} /\ report = {} /\ done = {}
    /\ phase = "stopped"

Begin ==
    /\ phase = "stopped"
    /\ phase' = "collecting"
    /\ UNCHANGED <<leads, claimed, refused, report, done>>

Found(b) == phase = "collecting" /\ b \notin Range(leads) \cup claimed

Claim(b) ==
    /\ Found(b)
    /\ claimed' = claimed \cup {b}
    /\ UNCHANGED <<leads, refused, report, done, phase>>

\* Before a record claims it.
Reject(b) ==
    /\ Found(b)
    /\ refused' = refused \cup {b}
    /\ UNCHANGED <<leads, claimed, report, done, phase>>

MarkDone(q) ==
    /\ phase = "collecting"
    /\ done' = done \cup {q}
    /\ UNCHANGED <<leads, claimed, refused, report, phase>>

Settle(b) == b \in claimed /\ claimed' = claimed \ {b}

Export(b) ==
    /\ Settle(b)
    /\ leads' = Append(leads, b)
    /\ UNCHANGED <<refused, report, done, phase>>

Refuse(b) ==
    /\ Settle(b)
    /\ refused' = refused \cup {b}
    /\ UNCHANGED <<leads, report, done, phase>>

Fail(b) ==
    /\ Settle(b)
    /\ UNCHANGED <<leads, refused, report, done, phase>>

\* An interrupt may cost the claim that was just made.
EndCollecting ==
    /\ phase = "collecting"
    /\ phase' = "closing"
    /\ UNCHANGED claimed \/ \E b \in Business : Settle(b)
    /\ UNCHANGED <<leads, refused, report, done>>

Report ==
    /\ phase = "closing"
    /\ report' = Range(leads)
    /\ UNCHANGED phase \/ (claimed = {} /\ phase' = "reported")
    /\ UNCHANGED <<leads, claimed, refused, done>>

\* The report fails: the old one stays, or none.
LoseReport ==
    /\ phase = "closing"
    /\ report' \in {report, {}}
    /\ UNCHANGED <<leads, claimed, refused, done, phase>>

\* At the end, or by a crash, which may break a report off.
Stop ==
    /\ phase # "stopped"
    /\ phase' = "stopped"
    /\ claimed' = {}
    /\ UNCHANGED report \/ (phase = "closing" /\ report' = {})
    /\ UNCHANGED <<leads, refused, done>>

Next ==
    \/ Begin \/ EndCollecting \/ Report \/ LoseReport \/ Stop
    \/ \E q \in Query : MarkDone(q)
    \/ \E b \in Business : Claim(b) \/ Reject(b) \/ Export(b) \/ Refuse(b) \/ Fail(b)

Spec == Init /\ [][Next]_vars
=============================================================================
