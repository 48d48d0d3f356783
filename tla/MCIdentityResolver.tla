-------------------------- MODULE MCIdentityResolver --------------------------
(* A chain with two locations, a weak re-listing of each, and a listing of    *)
(* the first location under a second place id.                               *)
EXTENDS IdentityResolver, TLC

CONSTANTS locationA, locationB, weakA, weakB, secondA, nameless

SomeSignals ==
    locationA :> [kgmid |-> "k1", place_id |-> None, domain |-> "d", phone |-> "p",
                  name |-> "a", city |-> "c"] @@
    locationB :> [kgmid |-> "k2", place_id |-> "g2", domain |-> "d", phone |-> "p",
                  name |-> "b", city |-> "c"] @@
    weakA     :> [kgmid |-> None, place_id |-> None, domain |-> "d", phone |-> "p",
                  name |-> "a", city |-> "c"] @@
    weakB     :> [kgmid |-> None, place_id |-> None, domain |-> None, phone |-> "p",
                  name |-> "b", city |-> None] @@
    secondA   :> [kgmid |-> None, place_id |-> "g3", domain |-> None, phone |-> "p",
                  name |-> "a", city |-> "c"] @@
    nameless  :> [kgmid |-> None, place_id |-> "g4", domain |-> "d", phone |-> None,
                  name |-> None, city |-> "c"]

Symmetric == Permutations(Discovery)
=============================================================================
