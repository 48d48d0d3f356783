---------------------------- MODULE BusinessClaims ----------------------------
(***************************************************************************)
(* What the deduplication of a campaign promises, whoever keeps it: a       *)
(* record that goes on has claimed its business, which nobody else has      *)
(* claimed or exported; a claim ends in a lead, is given up when the record *)
(* is refused or fails, and does not survive the process.                   *)
(***************************************************************************)
EXTENDS Sequences, Functions

CONSTANT Business

VARIABLES leads,   \* the businesses exported, oldest first
          claimed  \* the businesses of the records under way

vars == <<leads, claimed>>

Init == leads = <<>> /\ claimed = {}

Claim(b) ==
    /\ b \notin Range(leads) \cup claimed
    /\ claimed' = claimed \cup {b}
    /\ UNCHANGED leads

Export(b) ==
    /\ b \in claimed
    /\ claimed' = claimed \ {b}
    /\ leads' = Append(leads, b)

GiveUp(b) ==
    /\ b \in claimed
    /\ claimed' = claimed \ {b}
    /\ UNCHANGED leads

Restart == claimed' = {} /\ UNCHANGED leads

Next == Restart \/ \E b \in Business : Claim(b) \/ Export(b) \/ GiveUp(b)

Spec == Init /\ [][Next]_vars
=============================================================================
