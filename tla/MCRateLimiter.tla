---------------------------- MODULE MCRateLimiter ----------------------------
(* Small instances of RateLimiter for TLC. *)
EXTENDS RateLimiter, TLC

Symmetric == Permutations(Worker) \cup Permutations(Domain) \cup Permutations(Semaphore)
=============================================================================
