---------------------------- MODULE BrowserManager ----------------------------
(***************************************************************************)
(* The browser of the Maps collector and the proxies it goes out through:   *)
(* BrowserManager (lazy launch, one context for each query, recycling) and  *)
(* the ProxyManager it shares with the enrichment workers.                  *)
(*                                                                          *)
(* Playwright itself is outside src/: a launch works or fails, and a        *)
(* browser may die at any time.  Only the main thread calls                 *)
(* BrowserManager; ProxyManager has a lock and each of its calls is one     *)
(* step.                                                                    *)
(***************************************************************************)
EXTENDS Integers, Sequences, FiniteSets, SequencesExt

CONSTANTS Pool,         \* config.proxy.pool, in order
          Random,       \* config.proxy.rotation is "random"
          Threshold,    \* _FAILURE_THRESHOLD
          RestartAfter, \* maps.browser_restart_after_queries; 0 is never
          Turns,        \* bound of the rotation counter
          None

ASSUME ProxyAssumption ==
    /\ Pool \in Seq(Range(Pool)) /\ None \notin Range(Pool)
    /\ Random \in BOOLEAN
    /\ Threshold \in Nat \ {0}
    /\ RestartAfter \in Nat
    /\ Turns \in Nat \ {0}
    /\ \A n \in 1..Len(Pool) : Turns % n = 0 \* however many candidates there are

Proxy == Range(Pool)

VARIABLES
    browser,  \* _browser: "none", "up", or "dead" (there, but disconnected)
    driver,   \* _pw is there
    served,   \* _queries_processed
    active,   \* _active_proxy
    failures, \* ProxyManager._failures, up to Threshold: it is only compared
    turn      \* ProxyManager._idx, modulo Turns

proxies     == <<failures, turn>>
browserVars == <<browser, driver, served, active, failures, turn>>

BrowserTypeOK ==
    /\ browser \in {"none", "up", "dead"}
    /\ driver \in BOOLEAN
    /\ served \in Nat
    /\ active \in Proxy \cup {None}
    /\ failures \in [Proxy -> 0..Threshold]
    /\ turn \in 0..Turns - 1

BrowserInit ==
    /\ browser = "none" /\ driver = FALSE
    /\ served = 0
    /\ active = None
    /\ failures = [p \in Proxy |-> 0]
    /\ turn = 0

Alive == browser = "up"

-----------------------------------------------------------------------------
(* ProxyManager *)

Healthy == {i \in DOMAIN Pool : failures[Pool[i]] < Threshold}

\* Mutant: the pool is rotated whatever failed.
CandidatesAll == DOMAIN Pool

\* A pool of which every member failed is available again.
Candidates == IF Healthy = {} THEN DOMAIN Pool ELSE Healthy

\* The candidate at a position of their list, counted from 0.
IsCandidate(i, position) ==
    i \in Candidates /\ Cardinality({j \in Candidates : j < i}) = position

\* The proxy the call returns, with the counter it leaves behind.  Without a pool
\* there is nothing to rotate: the one proxy, if any, counts as none.
Resolve(proxy) ==
    \/ /\ Pool = <<>>
       /\ proxy = None
       /\ UNCHANGED turn
    \/ /\ Random
       /\ \E i \in Candidates : proxy = Pool[i]
       /\ UNCHANGED turn
    \/ /\ ~Random
       /\ \E i \in DOMAIN Pool :
              IsCandidate(i, turn % Cardinality(Candidates)) /\ proxy = Pool[i]
       /\ turn' = (turn + 1) % Turns

Failed(proxy) ==
    IF proxy = None \/ failures[proxy] = Threshold
    THEN failures
    ELSE [failures EXCEPT ![proxy] = @ + 1]

\* Pipeline._enrich, on a worker: a blocked or timed out website is reported
\* as a failure of the proxy that is next, not of the one it was fetched
\* through, which the fetcher was given when the pipeline was built.
EnrichmentFails ==
    \E proxy \in Proxy \cup {None} :
        /\ Resolve(proxy)
        /\ failures' = Failed(proxy)
        /\ UNCHANGED <<browser, driver, served, active>>

-----------------------------------------------------------------------------
(* BrowserManager *)

\* report_proxy_failure: the proxy of the latest context.
ReportProxyFailure == failures' = Failed(active)

\* _ensure_browser when there is none: a missing binary stops the driver again,
\* another failed launch leaves it.
LaunchFails ==
    /\ browser = "none"
    /\ driver' \in BOOLEAN
    /\ UNCHANGED <<browser, served, active, failures, turn>>

\* new_context: a browser that is there is used as it is, and a dead one raises,
\* after the proxy was resolved.
NewContext ==
    /\ browser \in {"none", "up"}
    /\ browser' = "up"
    /\ driver' = TRUE
    /\ \E proxy \in Proxy \cup {None} :
          /\ Resolve(proxy)
          /\ active' = IF proxy = None THEN active ELSE proxy
    /\ UNCHANGED <<served, failures>>

NewContextRaises ==
    /\ \E proxy \in Proxy \cup {None} :
          /\ Resolve(proxy)
          /\ active' = IF proxy = None THEN active ELSE proxy
    /\ \/ browser = "dead" /\ UNCHANGED <<browser, driver>>
       \/ browser \in {"none", "up"} /\ browser' = "up" /\ driver' = TRUE
    /\ UNCHANGED <<served, failures>>

\* mark_query and recycle, which the pipeline calls after a query that was done.
MarkAndRecycle ==
    IF RestartAfter > 0 /\ served + 1 >= RestartAfter
    THEN /\ browser' = "none" /\ driver' = FALSE
         /\ served' = 0
         /\ UNCHANGED <<active, proxies>>
    ELSE /\ served' = IF RestartAfter = 0 THEN 0 ELSE served + 1
         /\ UNCHANGED <<browser, driver, active, proxies>>

\* The browser process crashes, or its connection goes.
BrowserDies ==
    /\ browser = "up"
    /\ browser' = "dead"
    /\ UNCHANGED <<driver, served, active, proxies>>
=============================================================================
