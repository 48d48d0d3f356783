----------------------------- MODULE RateLimiter -----------------------------
(***************************************************************************)
(* Polite fetching: the worker threads of the enrichment pool share one     *)
(* DomainGate and one DomainCooldowns (websites/rate_limiter.py), and every *)
(* HTTP attempt of Fetcher.fetch (websites/fetcher.py) first waits out the  *)
(* domain's cooldown, then takes a slot of the domain, then sends.          *)
(*                                                                          *)
(* A domain is the domain of the URL asked for; where a redirect leads is   *)
(* not the gate's business.  Cooldowns count down in units of Tick.         *)
(***************************************************************************)
EXTENDS Integers, Sequences, FiniteSets, Functions

CONSTANTS Worker,      \* threads that fetch
          Domain,      \* host[:port] of the URLs
          Semaphore,   \* semaphore objects
          NoSemaphore, \* no entry for the domain
          PerDomain,   \* per_domain_concurrency
          MaxDomains,  \* _MAX_TRACKED_DOMAINS
          Retries,     \* website.http_retries
          MaxPark,     \* longest Retry-After (_MAX_RETRY_AFTER_SECONDS)
          Respect      \* respect_retry_after

ASSUME RateLimiterAssumption ==
    /\ IsFiniteSet(Worker) /\ IsFiniteSet(Domain)
    /\ NoSemaphore \notin Semaphore
    /\ PerDomain \in Nat \ {0} /\ MaxDomains \in Nat \ {0}
    /\ Retries \in Nat /\ MaxPark \in Nat /\ Respect \in BOOLEAN

VARIABLES
    slots,    \* DomainGate._slots: the semaphore of each tracked domain
    order,    \* DomainGate._order
    permits,  \* value of each semaphore
    cooldown, \* DomainCooldowns: time left for each domain
    at,       \* where each worker is in fetch
    domain,   \* the domain it fetches from
    attempt,  \* its loop counter
    sem,      \* the semaphore it waits for or holds
    answer,   \* what its last attempt returned
    pruned,   \* domains that lost their entry
    late      \* who has sent to each domain since it was last parked

gate   == <<slots, order, permits, pruned>>
worker == <<at, domain, attempt, sem, answer>>
vars   == <<gate, cooldown, worker, late>>

\* transient: worth a retry; retryAfter: the header's delay, -1 without one.
Answer == [transient : BOOLEAN, retryAfter : -1..MaxPark]
NoAnswer == [transient |-> FALSE, retryAfter |-> -1]

Tracked == {d \in Domain : slots[d] # NoSemaphore}

TypeOK ==
    /\ slots \in [Domain -> Semaphore \cup {NoSemaphore}]
    /\ order \in Seq(Domain)
    /\ permits \in [Semaphore -> Nat]
    /\ cooldown \in [Domain -> 0..MaxPark]
    /\ at \in [Worker -> {"idle", "waiting", "slot", "acquire", "request", "answered"}]
    /\ domain \in [Worker -> Domain]
    /\ attempt \in [Worker -> 0..Retries]
    /\ sem \in [Worker -> Semaphore \cup {NoSemaphore}]
    /\ answer \in [Worker -> Answer]
    /\ pruned \subseteq Domain
    /\ late \in [Domain -> SUBSET Worker]

Init ==
    /\ slots = [d \in Domain |-> NoSemaphore]
    /\ order = <<>>
    /\ permits = [s \in Semaphore |-> PerDomain]
    /\ cooldown = [d \in Domain |-> 0]
    /\ at = [w \in Worker |-> "idle"]
    /\ domain \in [Worker -> Domain]
    /\ attempt = [w \in Worker |-> 0]
    /\ sem = [w \in Worker |-> NoSemaphore]
    /\ answer = [w \in Worker |-> NoAnswer]
    /\ pruned = {}
    /\ late = [d \in Domain |-> {}]

-----------------------------------------------------------------------------
Fetch(w, d) ==
    /\ at[w] = "idle"
    /\ at' = [at EXCEPT ![w] = "waiting"]
    /\ domain' = [domain EXCEPT ![w] = d]
    /\ attempt' = [attempt EXCEPT ![w] = 0]
    /\ UNCHANGED <<gate, cooldown, sem, answer, late>>

\* DomainCooldowns.wait returns once nothing is left of the cooldown.
Waited(w) ==
    /\ at[w] = "waiting" /\ cooldown[domain[w]] = 0
    /\ at' = [at EXCEPT ![w] = "slot"]
    /\ UNCHANGED <<gate, cooldown, domain, attempt, sem, answer, late>>

-----------------------------------------------------------------------------
(* DomainGate._sem, under its lock *)

FindSlot(w) ==
    /\ at[w] = "slot" /\ domain[w] \in Tracked
    /\ sem' = [sem EXCEPT ![w] = slots[domain[w]]]
    /\ at' = [at EXCEPT ![w] = "acquire"]
    /\ UNCHANGED <<gate, cooldown, domain, attempt, answer, late>>

\* The registry is full: its oldest entry goes, whoever holds or awaits it.
Pruned(full) ==
    IF full THEN [slots EXCEPT ![Head(order)] = NoSemaphore] ELSE slots

\* A semaphore object that nothing refers to: a new one.
Unused(s) == s \notin Range(slots) \cup Range(sem)

\* Mutant: without the lock the entry may be there by now.
MakeSlotUnlocked(w) ==
    /\ at[w] = "slot"
    /\ \E s \in Semaphore :
          /\ Unused(s)
          /\ slots' = [slots EXCEPT ![domain[w]] = s]
          /\ permits' = [permits EXCEPT ![s] = PerDomain]
          /\ sem' = [sem EXCEPT ![w] = s]
    /\ order' = Append(order, domain[w])
    /\ at' = [at EXCEPT ![w] = "acquire"]
    /\ UNCHANGED <<pruned, cooldown, domain, attempt, answer, late>>

MakeSlot(w) ==
    LET d    == domain[w]
        full == Cardinality(Tracked) >= MaxDomains
    IN
    /\ at[w] = "slot" /\ d \notin Tracked
    /\ \E s \in Semaphore :
          /\ Unused(s)
          /\ slots' = [Pruned(full) EXCEPT ![d] = s]
          /\ permits' = [permits EXCEPT ![s] = PerDomain]
          /\ sem' = [sem EXCEPT ![w] = s]
    /\ order' = Append(IF full THEN Tail(order) ELSE order, d)
    /\ pruned' = IF full THEN pruned \cup {Head(order)} ELSE pruned
    /\ at' = [at EXCEPT ![w] = "acquire"]
    /\ UNCHANGED <<cooldown, domain, attempt, answer, late>>

-----------------------------------------------------------------------------
(* One attempt inside the slot *)

Acquire(w) ==
    /\ at[w] = "acquire" /\ permits[sem[w]] > 0
    /\ permits' = [permits EXCEPT ![sem[w]] = @ - 1]
    /\ at' = [at EXCEPT ![w] = "request"]
    /\ late' = IF cooldown[domain[w]] > 0
               THEN [late EXCEPT ![domain[w]] = @ \cup {w}] ELSE late
    /\ UNCHANGED <<slots, order, pruned, cooldown, domain, attempt, sem, answer>>

\* Mutant: an attempt that raises keeps its permit.
ReleaseLeaks(w) ==
    /\ at[w] = "request"
    /\ answer' = [answer EXCEPT ![w] = NoAnswer]
    /\ sem' = [sem EXCEPT ![w] = NoSemaphore]
    /\ at' = [at EXCEPT ![w] = "answered"]
    /\ UNCHANGED <<slots, order, pruned, permits, cooldown, domain, attempt, late>>

\* _attempt returns and the slot is released: a success or a permanent failure,
\* or a transient one, with a Retry-After header only if a 429 or 503 sent it.
Release(w) ==
    /\ at[w] = "request"
    /\ \E a \in Answer :
          /\ a.retryAfter # -1 => a.transient
          /\ answer' = [answer EXCEPT ![w] = a]
    /\ permits' = [permits EXCEPT ![sem[w]] = @ + 1]
    /\ sem' = [sem EXCEPT ![w] = NoSemaphore]
    /\ at' = [at EXCEPT ![w] = "answered"]
    /\ UNCHANGED <<slots, order, pruned, cooldown, domain, attempt, late>>

-----------------------------------------------------------------------------
(* What fetch does with the answer *)

LastAttempt(w) == attempt[w] = Retries

\* Mutant: a second Retry-After adds up with the first.
ParkAdds(d, seconds) == [cooldown EXCEPT ![d] = @ + seconds]

\* DomainCooldowns.set
Park(d, seconds) ==
    IF seconds > cooldown[d] THEN [cooldown EXCEPT ![d] = seconds] ELSE cooldown

Leave(w) ==
    /\ at' = [at EXCEPT ![w] = "idle"]
    /\ answer' = [answer EXCEPT ![w] = NoAnswer]
    /\ UNCHANGED <<gate, domain, attempt, sem, late>>

Return(w) ==
    /\ at[w] = "answered"
    /\ ~answer[w].transient \/ LastAttempt(w)
    /\ Leave(w)
    /\ UNCHANGED cooldown

ParkDomain(w) ==
    /\ at[w] = "answered"
    /\ answer[w].transient /\ ~LastAttempt(w)
    /\ answer[w].retryAfter # -1 /\ Respect
    /\ cooldown' = Park(domain[w], answer[w].retryAfter)
    /\ Leave(w)

\* Mutant: the cooldown is waited for before the first attempt only.
RetryUnwaited(w) ==
    /\ at[w] = "answered"
    /\ answer[w].transient /\ ~LastAttempt(w)
    /\ answer[w].retryAfter = -1 \/ ~Respect
    /\ attempt' = [attempt EXCEPT ![w] = @ + 1]
    /\ at' = [at EXCEPT ![w] = "slot"]
    /\ answer' = [answer EXCEPT ![w] = NoAnswer]
    /\ UNCHANGED <<gate, cooldown, domain, sem, late>>

\* Backoff sleep, or at once when a Retry-After header is not respected.
Retry(w) ==
    /\ at[w] = "answered"
    /\ answer[w].transient /\ ~LastAttempt(w)
    /\ answer[w].retryAfter = -1 \/ ~Respect
    /\ attempt' = [attempt EXCEPT ![w] = @ + 1]
    /\ at' = [at EXCEPT ![w] = "waiting"]
    /\ answer' = [answer EXCEPT ![w] = NoAnswer]
    /\ UNCHANGED <<gate, cooldown, domain, sem, late>>

\* A cooldown that has run out forgets who overran it.
Tick ==
    /\ \E d \in Domain : cooldown[d] > 0
    /\ cooldown' = [d \in Domain |-> IF cooldown[d] > 0 THEN cooldown[d] - 1 ELSE 0]
    /\ late' = [d \in Domain |-> IF cooldown[d] > 1 THEN late[d] ELSE {}]
    /\ UNCHANGED <<gate, worker>>

-----------------------------------------------------------------------------
WorkerStep(w) ==
    \/ \E d \in Domain : Fetch(w, d)
    \/ Waited(w) \/ FindSlot(w) \/ MakeSlot(w)
    \/ Acquire(w) \/ Release(w)
    \/ Return(w) \/ ParkDomain(w) \/ Retry(w)

Next == (\E w \in Worker : WorkerStep(w)) \/ Tick

Spec == Init /\ [][Next]_vars

-----------------------------------------------------------------------------
(* Properties *)

Requests(d) == {w \in Worker : at[w] = "request" /\ domain[w] = d}
Holders(s)  == {w \in Worker : at[w] = "request" /\ sem[w] = s}

(***************************************************************************)
(* At most per_domain_concurrency requests to a domain are under way at     *)
(* once, as long as the registry has never dropped the domain ("strictly    *)
(* serialized"; a dropped domain may get a second semaphore while the first *)
(* is held).                                                                *)
(***************************************************************************)
PoliteUnlessPruned ==
    \A d \in Domain \ pruned : Cardinality(Requests(d)) <= PerDomain

(***************************************************************************)
(* No permit leaks: the value of a semaphore and the workers inside it add  *)
(* up to per_domain_concurrency, for a semaphore the registry dropped too.  *)
(***************************************************************************)
PermitsKept ==
    \A s \in Semaphore : permits[s] + Cardinality(Holders(s)) = PerDomain

(***************************************************************************)
(* A parked domain is overrun at most once by each worker: one that was     *)
(* past its wait when the domain was parked still sends, and then waits.    *)
(***************************************************************************)
AtMostOneLateRequest ==
    [][\A w \in Worker :
          at[w] = "acquire" /\ at'[w] = "request" /\ cooldown[domain[w]] > 0
          => w \notin late[domain[w]]]_vars
=============================================================================
