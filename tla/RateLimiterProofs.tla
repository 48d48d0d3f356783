-------------------------- MODULE RateLimiterProofs --------------------------
(***************************************************************************)
(* Proofs about RateLimiter for any number of workers, domains and retries  *)
(* and any size of the registry: no permit leaks, the requests to a domain  *)
(* are never more than per_domain_concurrency while the registry keeps its  *)
(* entry, which it always does when it has room for every domain, each worker     *)
(* overruns a cooldown at most once, nobody waits for a lost permit, and    *)
(* every fetch takes a bounded number of steps.                             *)
(***************************************************************************)
EXTENDS RateLimiter, FiniteSetTheorems, SequenceTheorems, TLAPS

USE RateLimiterAssumption

InSlot == {"acquire", "request"}

\* A worker refers to a semaphore exactly while it waits for it or holds it.
SemOK == \A w \in Worker : at[w] \in InSlot <=> sem[w] \in Semaphore

\* Every tracked domain is in the order of insertion.
OrderOK == \A d \in Tracked : \E i \in 1..Len(order) : order[i] = d

\* Workers in the slot of a domain never dropped use the registry's semaphore.
SameSemaphore ==
    \A w \in Worker :
        at[w] \in InSlot /\ domain[w] \notin pruned => sem[w] = slots[domain[w]]

-----------------------------------------------------------------------------
(* Type correctness *)

\* A full registry has an oldest entry.
LEMMA FullHasHead ==
  ASSUME TypeOK, OrderOK, Cardinality(Tracked) >= MaxDomains
  PROVE  order # <<>>
<1>. SUFFICES ASSUME order = <<>> PROVE FALSE
  OBVIOUS
<1>1. Tracked = {}
  BY EmptySeq DEF OrderOK
<1>. QED BY <1>1, FS_EmptySet

\* Every step keeps the types, the order and the workers' references.
LEMMA TypeStep ==
  ASSUME TypeOK, SemOK, OrderOK, [Next]_vars
  PROVE  TypeOK' /\ SemOK' /\ OrderOK'
<1>1. ASSUME NEW w \in Worker, NEW d \in Domain, Fetch(w, d)
      PROVE  TypeOK' /\ SemOK' /\ OrderOK'
  BY <1>1 DEF Fetch, gate, TypeOK, SemOK, InSlot, OrderOK, Tracked
<1>2. ASSUME NEW w \in Worker, Waited(w)
      PROVE  TypeOK' /\ SemOK' /\ OrderOK'
  BY <1>2 DEF Waited, gate, TypeOK, SemOK, InSlot, OrderOK, Tracked
<1>3. ASSUME NEW w \in Worker, FindSlot(w)
      PROVE  TypeOK' /\ SemOK' /\ OrderOK'
  BY <1>3 DEF FindSlot, gate, TypeOK, SemOK, InSlot, OrderOK, Tracked
<1>4. ASSUME NEW w \in Worker, MakeSlot(w)
      PROVE  TypeOK' /\ SemOK' /\ OrderOK'
  <2>. DEFINE d    == domain[w]
              full == Cardinality(Tracked) >= MaxDomains
              kept == IF full THEN Tail(order) ELSE order
  <2>1. d \in Domain
    BY DEF TypeOK
  <2>2. full => order # <<>>
    BY FullHasHead
  <2>3. /\ kept \in Seq(Domain)
        /\ full => Head(order) \in Domain
    BY <2>2, HeadTailProperties DEF TypeOK
  <2>4. order' = Append(kept, d)
    BY <1>4 DEF MakeSlot
  <2>5. PICK s \in Semaphore : /\ slots' = [Pruned(full) EXCEPT ![d] = s]
                               /\ permits' = [permits EXCEPT ![s] = PerDomain]
                               /\ sem' = [sem EXCEPT ![w] = s]
    BY <1>4 DEF MakeSlot
  <2>6. Pruned(full) \in [Domain -> Semaphore \cup {NoSemaphore}]
    BY <2>3 DEF Pruned, TypeOK
  <2>7. /\ at' = [at EXCEPT ![w] = "acquire"]
        /\ pruned' = IF full THEN pruned \cup {Head(order)} ELSE pruned
        /\ UNCHANGED <<cooldown, domain, attempt, answer, late>>
    BY <1>4 DEF MakeSlot
  <2>8. order' \in Seq(Domain)
    BY <2>1, <2>3, <2>4, AppendProperties
  <2>9. TypeOK'
    <3>1. /\ slots' \in [Domain -> Semaphore \cup {NoSemaphore}]
          /\ permits' \in [Semaphore -> Nat]
          /\ sem' \in [Worker -> Semaphore \cup {NoSemaphore}]
      BY <2>5, <2>6 DEF TypeOK
    <3>2. pruned' \subseteq Domain
      BY <2>3, <2>7 DEF TypeOK
    <3>3. at' \in [Worker -> {"idle", "waiting", "slot", "acquire", "request", "answered"}]
      BY <2>7 DEF TypeOK
    <3>. QED BY <2>7, <2>8, <3>1, <3>2, <3>3 DEF TypeOK
  <2>10. SemOK'
    BY <2>5, <2>7 DEF SemOK, InSlot, TypeOK
  <2>11. OrderOK'
    <3>. SUFFICES ASSUME NEW e \in Domain, slots'[e] # NoSemaphore
                  PROVE  \E i \in 1..Len(order') : order'[i] = e
      BY DEF OrderOK, Tracked
    <3>1. CASE e = d
      BY <3>1, <2>1, <2>3, <2>4, AppendProperties, LenProperties
    <3>2. CASE e # d
      <4>1. slots[e] # NoSemaphore /\ (full => e # Head(order))
        BY <3>2, <2>5, <2>3 DEF Pruned, TypeOK
      <4>2. PICK j \in 1..Len(order) : order[j] = e
        BY <4>1 DEF OrderOK, Tracked
      <4>3. \E i \in 1..Len(kept) : kept[i] = e
        <5>1. CASE full
          <6>1. j # 1
            BY <5>1, <4>1, <4>2, <2>2
          <6>2. j - 1 \in 1..Len(Tail(order)) /\ Tail(order)[j - 1] = e
            BY <5>1, <6>1, <4>2, <2>2, HeadTailProperties, LenProperties DEF TypeOK
          <6>. QED BY <5>1, <6>2
        <5>2. CASE ~full
          BY <5>2, <4>2
        <5>. QED BY <5>1, <5>2
      <4>4. PICK i \in 1..Len(kept) : kept[i] = e
        BY <4>3
      <4>5. Len(kept) \in Nat
        BY <2>3, LenProperties
      <4>6. Len(order') = Len(kept) + 1 /\ order'[i] = kept[i]
        BY <2>1, <2>3, <2>4, <4>4, AppendProperties
      <4>. QED BY <4>4, <4>5, <4>6
    <3>. QED BY <3>1, <3>2
  <2>. QED BY <2>9, <2>10, <2>11
<1>5. ASSUME NEW w \in Worker, Acquire(w)
      PROVE  TypeOK' /\ SemOK' /\ OrderOK'
  <2>1. sem[w] \in Semaphore
    BY <1>5 DEF Acquire, SemOK, InSlot
  <2>2. permits' \in [Semaphore -> Nat]
    BY <1>5, <2>1 DEF Acquire, TypeOK
  <2>3. late' \in [Domain -> SUBSET Worker]
    BY <1>5 DEF Acquire, TypeOK
  <2>. QED BY <1>5, <2>2, <2>3 DEF Acquire, TypeOK, SemOK, InSlot, OrderOK, Tracked
<1>6. ASSUME NEW w \in Worker, Release(w)
      PROVE  TypeOK' /\ SemOK' /\ OrderOK'
  <2>1. sem[w] \in Semaphore
    BY <1>6 DEF Release, SemOK, InSlot
  <2>2. permits' \in [Semaphore -> Nat]
    BY <1>6, <2>1 DEF Release, TypeOK
  <2>3. answer' \in [Worker -> Answer]
    BY <1>6 DEF Release, TypeOK
  <2>. QED BY <1>6, <2>2, <2>3 DEF Release, TypeOK, SemOK, InSlot, OrderOK, Tracked
<1>7. NoAnswer \in Answer
  BY DEF NoAnswer, Answer
<1>8. ASSUME NEW w \in Worker, Return(w)
      PROVE  TypeOK' /\ SemOK' /\ OrderOK'
  BY <1>7, <1>8 DEF Return, Leave, gate, TypeOK, SemOK, InSlot, OrderOK, Tracked
<1>9. ASSUME NEW w \in Worker, ParkDomain(w)
      PROVE  TypeOK' /\ SemOK' /\ OrderOK'
  <2>1. cooldown' \in [Domain -> 0..MaxPark]
    BY <1>9 DEF ParkDomain, Park, TypeOK, Answer
  <2>. QED BY <1>7, <1>9, <2>1 DEF ParkDomain, Leave, gate, TypeOK, SemOK, InSlot,
                                   OrderOK, Tracked
<1>10. ASSUME NEW w \in Worker, Retry(w)
       PROVE  TypeOK' /\ SemOK' /\ OrderOK'
  <2>1. attempt' \in [Worker -> 0..Retries]
    BY <1>10 DEF Retry, LastAttempt, TypeOK
  <2>. QED BY <1>7, <1>10, <2>1 DEF Retry, gate, TypeOK, SemOK, InSlot, OrderOK, Tracked
<1>11. CASE Tick
  <2>1. cooldown' \in [Domain -> 0..MaxPark]
    BY <1>11 DEF Tick, TypeOK
  <2>2. late' \in [Domain -> SUBSET Worker]
    BY <1>11 DEF Tick, TypeOK
  <2>. QED BY <1>11, <2>1, <2>2 DEF Tick, gate, worker, TypeOK, SemOK, InSlot,
                                   OrderOK, Tracked
<1>12. CASE UNCHANGED vars
  BY <1>12 DEF vars, gate, worker, TypeOK, SemOK, InSlot, OrderOK, Tracked
<1>. QED
  BY <1>1, <1>2, <1>3, <1>4, <1>5, <1>6, <1>8, <1>9, <1>10, <1>11, <1>12
     DEF Next, WorkerStep

(***************************************************************************)
(* Every variable keeps its type: the counter of a semaphore never goes     *)
(* below zero, a cooldown never exceeds the clamp, and a full registry      *)
(* always has an entry to drop.                                             *)
(***************************************************************************)
THEOREM TypeCorrect == Spec => [](TypeOK /\ SemOK /\ OrderOK)
<1>1. Init => TypeOK /\ SemOK /\ OrderOK
  <2>. SUFFICES ASSUME Init PROVE TypeOK /\ SemOK /\ OrderOK
    OBVIOUS
  <2>1. order \in Seq(Domain)
    BY EmptySeq DEF Init
  <2>2. NoAnswer \in Answer
    BY DEF NoAnswer, Answer
  <2>. QED BY <2>1, <2>2 DEF Init, TypeOK, SemOK, InSlot, OrderOK, Tracked
<1>2. (TypeOK /\ SemOK /\ OrderOK) /\ [Next]_vars => (TypeOK /\ SemOK /\ OrderOK)'
  BY TypeStep
<1>. QED BY <1>1, <1>2, PTL DEF Spec

-----------------------------------------------------------------------------
(* Permits *)

\* The workers inside a semaphore are finitely many.
LEMMA HoldersFinite ==
  ASSUME NEW s
  PROVE  IsFiniteSet(Holders(s)) /\ Cardinality(Holders(s)) \in Nat
<1>1. Holders(s) \in SUBSET Worker
  BY DEF Holders
<1>. QED BY <1>1, FS_Subset, FS_CardinalityType

\* Every step keeps permits and holders in balance.
LEMMA PermitsStep ==
  ASSUME TypeOK, SemOK, PermitsKept, [Next]_vars
  PROVE  PermitsKept'
<1>1. ASSUME permits' = permits, \A s \in Semaphore : Holders(s)' = Holders(s)
      PROVE  PermitsKept'
  BY <1>1 DEF PermitsKept
<1>2. ASSUME NEW w \in Worker, NEW d \in Domain, Fetch(w, d)
      PROVE  PermitsKept'
  BY <1>1, <1>2 DEF Fetch, gate, Holders, TypeOK
<1>3. ASSUME NEW w \in Worker, Waited(w) \/ Return(w) \/ ParkDomain(w) \/ Retry(w)
      PROVE  PermitsKept'
  BY <1>1, <1>3 DEF Waited, Return, ParkDomain, Retry, Leave, gate, Holders, TypeOK
<1>4. ASSUME NEW w \in Worker, FindSlot(w)
      PROVE  PermitsKept'
  BY <1>1, <1>4 DEF FindSlot, gate, Holders, TypeOK
<1>5. ASSUME NEW w \in Worker, MakeSlot(w)
      PROVE  PermitsKept'
  <2>1. PICK s \in Semaphore : /\ Unused(s)
                               /\ permits' = [permits EXCEPT ![s] = PerDomain]
                               /\ sem' = [sem EXCEPT ![w] = s]
    BY <1>5 DEF MakeSlot
  <2>2. at' = [at EXCEPT ![w] = "acquire"] /\ at[w] = "slot"
    BY <1>5 DEF MakeSlot
  <2>3. \A t \in Semaphore : Holders(t)' = Holders(t)
    BY <2>1, <2>2 DEF Holders, TypeOK
  <2>4. \A v \in Worker : sem[v] # s
    BY <2>1 DEF Unused, Range, TypeOK
  <2>5. Holders(s) = {}
    BY <2>4 DEF Holders
  <2>6. permits[s] = PerDomain
    <3>1. permits[s] + 0 = PerDomain
      BY <2>5, FS_EmptySet DEF PermitsKept
    <3>. QED BY <3>1 DEF TypeOK
  <2>7. permits' = permits
    BY <2>1, <2>6 DEF TypeOK
  <2>. QED BY <1>1, <2>3, <2>7
<1>6. ASSUME NEW w \in Worker, Acquire(w)
      PROVE  PermitsKept'
  <2>0. PICK s \in Semaphore : s = sem[w]
    BY <1>6 DEF Acquire, SemOK, InSlot
  <2>1. permits[s] \in Nat /\ permits[s] > 0
    BY <1>6, <2>0 DEF Acquire, TypeOK
  <2>2. /\ at[w] = "acquire" /\ at' = [at EXCEPT ![w] = "request"]
        /\ sem' = sem
        /\ permits' = [permits EXCEPT ![s] = permits[s] - 1]
    BY <1>6, <2>0 DEF Acquire
  <2>3. Holders(s)' = Holders(s) \cup {w} /\ w \notin Holders(s)
    BY <2>0, <2>2 DEF Holders, TypeOK
  <2>4. \A t \in Semaphore \ {s} : Holders(t)' = Holders(t) /\ permits'[t] = permits[t]
    BY <2>0, <2>2 DEF Holders, TypeOK
  <2>5. Cardinality(Holders(s) \cup {w}) = Cardinality(Holders(s)) + 1
    BY <2>3, HoldersFinite, FS_AddElement
  <2>6. permits'[s] = permits[s] - 1
    BY <2>1, <2>2 DEF TypeOK
  <2>7. permits'[s] + Cardinality(Holders(s)') = PerDomain
    BY <2>1, <2>3, <2>5, <2>6, HoldersFinite DEF PermitsKept
  <2>. QED BY <2>4, <2>7 DEF PermitsKept
<1>7. ASSUME NEW w \in Worker, Release(w)
      PROVE  PermitsKept'
  <2>0. PICK s \in Semaphore : s = sem[w]
    BY <1>7 DEF Release, SemOK, InSlot
  <2>1. permits[s] \in Nat
    BY <2>0 DEF TypeOK
  <2>2. /\ at[w] = "request" /\ at' = [at EXCEPT ![w] = "answered"]
        /\ sem' = [sem EXCEPT ![w] = NoSemaphore]
        /\ permits' = [permits EXCEPT ![s] = permits[s] + 1]
    BY <1>7, <2>0 DEF Release
  <2>3. Holders(s)' = Holders(s) \ {w} /\ w \in Holders(s)
    BY <2>0, <2>2 DEF Holders, TypeOK
  <2>4. \A t \in Semaphore \ {s} : Holders(t)' = Holders(t) /\ permits'[t] = permits[t]
    BY <2>0, <2>2 DEF Holders, TypeOK
  <2>5. Cardinality(Holders(s) \ {w}) = Cardinality(Holders(s)) - 1
    BY <2>3, HoldersFinite, FS_RemoveElement
  <2>6. permits'[s] = permits[s] + 1
    BY <2>1, <2>2 DEF TypeOK
  <2>7. permits'[s] + Cardinality(Holders(s)') = PerDomain
    BY <2>1, <2>3, <2>5, <2>6, HoldersFinite DEF PermitsKept
  <2>. QED BY <2>4, <2>7 DEF PermitsKept
<1>8. CASE Tick
  BY <1>1, <1>8 DEF Tick, gate, worker, Holders
<1>9. CASE UNCHANGED vars
  BY <1>1, <1>9 DEF vars, gate, worker, Holders
<1>. QED
  BY <1>2, <1>3, <1>4, <1>5, <1>6, <1>7, <1>8, <1>9 DEF Next, WorkerStep

(***************************************************************************)
(* No permit is ever lost or made up, whichever entries the registry drops  *)
(* while their semaphores are awaited or held.                              *)
(***************************************************************************)
THEOREM NoPermitLeaks == Spec => []PermitsKept
<1>1. Init => PermitsKept
  <2>. SUFFICES ASSUME Init, NEW s \in Semaphore
                PROVE  permits[s] + Cardinality(Holders(s)) = PerDomain
    BY DEF PermitsKept
  <2>1. Holders(s) = {} /\ permits[s] = PerDomain
    BY DEF Init, Holders
  <2>. QED BY <2>1, FS_EmptySet
<1>2. (TypeOK /\ SemOK /\ OrderOK) /\ PermitsKept /\ [Next]_vars => PermitsKept'
  BY PermitsStep
<1>. QED BY <1>1, <1>2, TypeCorrect, PTL DEF Spec

-----------------------------------------------------------------------------
(* Requests to one domain *)

\* Every step keeps the workers of a domain at one semaphore.
LEMMA SameSemaphoreStep ==
  ASSUME TypeOK, SemOK, OrderOK, SameSemaphore, [Next]_vars
  PROVE  SameSemaphore'
<1>1. ASSUME NEW w \in Worker, NEW d \in Domain, Fetch(w, d)
      PROVE  SameSemaphore'
  BY <1>1 DEF Fetch, gate, SameSemaphore, InSlot, TypeOK
<1>2. ASSUME NEW w \in Worker, Waited(w) \/ Return(w) \/ ParkDomain(w) \/ Retry(w)
      PROVE  SameSemaphore'
  BY <1>2 DEF Waited, Return, ParkDomain, Retry, Leave, gate, SameSemaphore, InSlot, TypeOK
<1>3. ASSUME NEW w \in Worker, FindSlot(w)
      PROVE  SameSemaphore'
  BY <1>3 DEF FindSlot, gate, SameSemaphore, InSlot, TypeOK
<1>4. ASSUME NEW w \in Worker, MakeSlot(w)
      PROVE  SameSemaphore'
  <2>. DEFINE d    == domain[w]
              full == Cardinality(Tracked) >= MaxDomains
  <2>1. PICK s \in Semaphore : /\ slots' = [Pruned(full) EXCEPT ![d] = s]
                               /\ sem' = [sem EXCEPT ![w] = s]
    BY <1>4 DEF MakeSlot
  <2>2. /\ at' = [at EXCEPT ![w] = "acquire"] /\ domain' = domain
        /\ pruned' = IF full THEN pruned \cup {Head(order)} ELSE pruned
        /\ d \in Domain /\ slots[d] = NoSemaphore
    BY <1>4 DEF MakeSlot, Tracked, TypeOK
  <2>3. SUFFICES ASSUME NEW v \in Worker, at'[v] \in InSlot, domain[v] \notin pruned'
                 PROVE  sem'[v] = slots'[domain[v]]
    BY <2>2 DEF SameSemaphore
  <2>4. Pruned(full) \in [Domain -> Semaphore \cup {NoSemaphore}]
    BY FullHasHead, HeadTailProperties DEF Pruned, TypeOK
  <2>5. CASE v = w
    BY <2>1, <2>2, <2>4, <2>5 DEF TypeOK
  <2>6. CASE v # w
    <3>1. at[v] \in InSlot /\ domain[v] \notin pruned /\ sem'[v] = sem[v]
      BY <2>1, <2>2, <2>3, <2>6 DEF TypeOK
    <3>2. sem[v] = slots[domain[v]] /\ sem[v] \in Semaphore
      BY <3>1 DEF SameSemaphore, SemOK
    <3>3. domain[v] # d /\ domain[v] \in Domain
      BY <2>2, <3>2 DEF TypeOK
    <3>4. full => domain[v] # Head(order)
      BY <2>2, <2>3
    <3>5. slots'[domain[v]] = slots[domain[v]]
      BY <2>1, <3>3, <3>4 DEF Pruned, TypeOK
    <3>. QED BY <3>1, <3>2, <3>5
  <2>. QED BY <2>5, <2>6
<1>5. ASSUME NEW w \in Worker, Acquire(w) \/ Release(w)
      PROVE  SameSemaphore'
  BY <1>5, ZenonT(40) DEF Acquire, Release, SameSemaphore, InSlot, TypeOK
<1>6. CASE Tick
  BY <1>6 DEF Tick, gate, worker, SameSemaphore
<1>7. CASE UNCHANGED vars
  BY <1>7 DEF vars, gate, worker, SameSemaphore
<1>. QED
  BY <1>1, <1>2, <1>3, <1>4, <1>5, <1>6, <1>7 DEF Next, WorkerStep

(***************************************************************************)
(* A domain the registry has kept never has more requests under way than    *)
(* per_domain_concurrency: with the default of one they are strictly        *)
(* serialized.                                                              *)
(***************************************************************************)
THEOREM PoliteWhileTracked == Spec => []PoliteUnlessPruned
<1>1. Init => SameSemaphore
  BY DEF Init, SameSemaphore, InSlot
<1>2. (TypeOK /\ SemOK /\ OrderOK) /\ SameSemaphore /\ [Next]_vars => SameSemaphore'
  BY SameSemaphoreStep
<1>3. TypeOK /\ SemOK /\ PermitsKept /\ SameSemaphore => PoliteUnlessPruned
  <2>. SUFFICES ASSUME TypeOK, SemOK, PermitsKept, SameSemaphore,
                       NEW d \in Domain \ pruned
                PROVE  Cardinality(Requests(d)) <= PerDomain
    BY DEF PoliteUnlessPruned
  <2>1. Requests(d) \in SUBSET Holders(slots[d])
    BY DEF Requests, Holders, SameSemaphore, InSlot
  <2>2. CASE Requests(d) = {}
    BY <2>2, FS_EmptySet
  <2>3. CASE Requests(d) # {}
    <3>1. slots[d] \in Semaphore
      BY <2>3 DEF Requests, SameSemaphore, SemOK, InSlot
    <3>2. Cardinality(Requests(d)) <= Cardinality(Holders(slots[d]))
      BY <2>1, HoldersFinite, FS_Subset
    <3>3. /\ permits[slots[d]] + Cardinality(Holders(slots[d])) = PerDomain
          /\ permits[slots[d]] \in Nat
      BY <3>1 DEF PermitsKept, TypeOK
    <3>4. Cardinality(Requests(d)) \in Nat
      <4>1. Requests(d) \in SUBSET Worker
        BY DEF Requests
      <4>. QED BY <4>1, FS_Subset, FS_CardinalityType
    <3>. QED BY <3>2, <3>3, <3>4, HoldersFinite
  <2>. QED BY <2>2, <2>3
<1>. QED BY <1>1, <1>2, <1>3, TypeCorrect, NoPermitLeaks, PTL DEF Spec

(***************************************************************************)
(* A registry with room for every domain drops none, so that every domain   *)
(* is served within its concurrency for the whole run.                      *)
(***************************************************************************)
THEOREM RoomForAllMeansPolite ==
  ASSUME Cardinality(Domain) <= MaxDomains
  PROVE  Spec => [](\A d \in Domain : Cardinality(Requests(d)) <= PerDomain)
<1>1. Init => pruned = {}
  BY DEF Init
<1>2. TypeOK /\ pruned = {} /\ [Next]_vars => (pruned = {})'
  <2>. SUFFICES ASSUME TypeOK, pruned = {}, [Next]_vars
                PROVE  pruned' = {}
    OBVIOUS
  <2>1. ASSUME NEW w \in Worker, MakeSlot(w)
        PROVE  pruned' = {}
    <3>1. /\ Tracked \in SUBSET Domain
          /\ domain[w] \in Domain /\ domain[w] \notin Tracked
      BY <2>1 DEF MakeSlot, Tracked, TypeOK
    <3>2. /\ Cardinality(Tracked) \in Nat /\ Cardinality(Domain) \in Nat
          /\ Cardinality(Tracked) <= Cardinality(Domain)
          /\ Cardinality(Tracked) # Cardinality(Domain)
      BY <3>1, FS_Subset, FS_CardinalityType
    <3>3. ~(Cardinality(Tracked) >= MaxDomains)
      BY <3>2
    <3>. QED BY <2>1, <3>3 DEF MakeSlot
  <2>2. CASE UNCHANGED pruned
    BY <2>2
  <2>3. (\E w \in Worker : MakeSlot(w)) \/ UNCHANGED pruned
    BY DEF Next, WorkerStep, Fetch, Waited, FindSlot, Acquire, Release, Return, ParkDomain,
           Retry, Leave, Tick, gate, vars
  <2>. QED BY <2>1, <2>2, <2>3
<1>3. pruned = {} /\ PoliteUnlessPruned
      => \A d \in Domain : Cardinality(Requests(d)) <= PerDomain
  BY DEF PoliteUnlessPruned
<1>. QED BY <1>1, <1>2, <1>3, TypeCorrect, PoliteWhileTracked, PTL DEF Spec

-----------------------------------------------------------------------------
(* Late requests *)

\* Who has overrun a parked domain is not in its slot again while it is parked.
Overrun ==
    \A d \in Domain :
        /\ late[d] # {} => cooldown[d] > 0
        /\ \A w \in late[d] : at[w] \in {"slot", "acquire"} => domain[w] # d

\* Every step keeps those who have overrun a domain out of its slot.
LEMMA OverrunStep ==
  ASSUME TypeOK, Overrun, [Next]_vars
  PROVE  Overrun'
<1>1. ASSUME NEW w \in Worker, NEW d \in Domain, Fetch(w, d)
      PROVE  Overrun'
  BY <1>1 DEF Fetch, gate, Overrun, TypeOK
<1>2. ASSUME NEW w \in Worker, Waited(w)
      PROVE  Overrun'
  <2>1. /\ at' = [at EXCEPT ![w] = "slot"] /\ cooldown[domain[w]] = 0
        /\ UNCHANGED <<cooldown, domain, late>>
    BY <1>2 DEF Waited
  <2>2. domain[w] \in Domain /\ ~(0 > 0)
    BY DEF TypeOK
  <2>3. late[domain[w]] = {}
    BY <2>1, <2>2 DEF Overrun
  <2>. QED BY <2>1, <2>3 DEF Overrun, TypeOK
<1>3. ASSUME NEW w \in Worker, FindSlot(w) \/ MakeSlot(w)
      PROVE  Overrun'
  <2>1. /\ at[w] = "slot" /\ at' = [at EXCEPT ![w] = "acquire"]
        /\ UNCHANGED <<cooldown, domain, late>>
    BY <1>3 DEF FindSlot, MakeSlot
  <2>. QED BY <2>1 DEF Overrun, TypeOK
<1>4. ASSUME NEW w \in Worker, Acquire(w)
      PROVE  Overrun'
  <2>1. /\ at' = [at EXCEPT ![w] = "request"]
        /\ UNCHANGED <<cooldown, domain>>
        /\ late' = IF cooldown[domain[w]] > 0
                   THEN [late EXCEPT ![domain[w]] = late[domain[w]] \cup {w}] ELSE late
    BY <1>4 DEF Acquire
  <2>2. \A d \in Domain : /\ late'[d] \subseteq late[d] \cup {w}
                          /\ late'[d] # late[d] => cooldown[d] > 0
    BY <2>1 DEF TypeOK
  <2>. QED BY <2>1, <2>2 DEF Overrun, TypeOK
<1>5. ASSUME NEW w \in Worker, Release(w)
      PROVE  Overrun'
  BY <1>5 DEF Release, Overrun, TypeOK
<1>6. ASSUME NEW w \in Worker, Return(w) \/ Retry(w)
      PROVE  Overrun'
  BY <1>6 DEF Return, Retry, Leave, Overrun, TypeOK
<1>7. ASSUME NEW w \in Worker, ParkDomain(w)
      PROVE  Overrun'
  <2>1. \A d \in Domain : cooldown[d] > 0 => cooldown'[d] > 0
    BY <1>7 DEF ParkDomain, Park, TypeOK, Answer
  <2>. QED BY <1>7, <2>1 DEF ParkDomain, Leave, Overrun, TypeOK
<1>8. CASE Tick
  <2>1. /\ cooldown' = [d \in Domain |-> IF cooldown[d] > 0 THEN cooldown[d] - 1 ELSE 0]
        /\ late' = [d \in Domain |-> IF cooldown[d] > 1 THEN late[d] ELSE {}]
        /\ UNCHANGED <<at, domain>>
    BY <1>8 DEF Tick, worker
  <2>2. \A d \in Domain : cooldown[d] \in Nat /\ (cooldown[d] > 1 => cooldown'[d] > 0)
    BY <2>1 DEF TypeOK
  <2>. QED BY <2>1, <2>2 DEF Overrun
<1>9. CASE UNCHANGED vars
  BY <1>9 DEF vars, worker, Overrun
<1>. QED
  BY <1>1, <1>2, <1>3, <1>4, <1>5, <1>6, <1>7, <1>8, <1>9 DEF Next, WorkerStep

(***************************************************************************)
(* However many workers are past their wait when a domain is parked, each   *)
(* of them sends to it at most once before the cooldown has run out.        *)
(***************************************************************************)
THEOREM LateOnce == Spec => AtMostOneLateRequest
<1>1. Init => Overrun
  BY DEF Init, Overrun
<1>2. TypeOK /\ Overrun /\ [Next]_vars => Overrun'
  BY OverrunStep
<1>3. TypeOK /\ Overrun /\ [Next]_vars =>
        [\A w \in Worker :
            at[w] = "acquire" /\ at'[w] = "request" /\ cooldown[domain[w]] > 0
            => w \notin late[domain[w]]]_vars
  BY DEF Overrun, TypeOK
<1>. QED BY <1>1, <1>2, <1>3, TypeCorrect, PTL DEF Spec, AtMostOneLateRequest

-----------------------------------------------------------------------------
(* Every fetch comes to its end *)

\* Who waits for a permit when there is none waits for a request under way.
PermitsAwaited ==
    \A w \in Worker :
        at[w] = "acquire" /\ permits[sem[w]] = 0
        => \E v \in Worker : at[v] = "request" /\ sem[v] = sem[w]

\* How many steps an attempt still has before it.
StepsLeft ==
    [a \in {"waiting", "slot", "acquire", "request", "answered"} |->
        CASE a = "waiting"  -> 5
          [] a = "slot"     -> 4
          [] a = "acquire"  -> 3
          [] a = "request"  -> 2
          [] a = "answered" -> 1]

\* How many steps a worker still has in its fetch at most.
FetchRank(w) ==
    IF at[w] = "idle" THEN 0 ELSE 5 * (Retries - attempt[w]) + StepsLeft[at[w]]

\* One worker goes on in its fetch; the others are where they were.
GoesOn(w) == /\ FetchRank(w)' < FetchRank(w)
             /\ \A v \in Worker \ {w} : FetchRank(v)' = FetchRank(v)

\* A worker takes up a new fetch.
TakesUp(w) == /\ at[w] = "idle" /\ FetchRank(w)' = 5 * Retries + 5
              /\ \A v \in Worker \ {w} : FetchRank(v)' = FetchRank(v)

\* Only time passes, and some cooldown with it.
TimePasses == /\ \A d \in Domain : cooldown'[d] <= cooldown[d]
              /\ \E d \in Domain : cooldown'[d] < cooldown[d]
              /\ \A v \in Worker : FetchRank(v)' = FetchRank(v)

RanksOK == \A w \in Worker : FetchRank(w) \in 0..(5 * Retries + 5)

FetchAdvances == [][(\E w \in Worker : GoesOn(w) \/ TakesUp(w)) \/ TimePasses]_vars

\* A semaphore without a permit has a holder.
LEMMA NoPermitMeansHeld ==
  ASSUME TypeOK, SemOK, PermitsKept
  PROVE  PermitsAwaited
<1>. SUFFICES ASSUME NEW w \in Worker, at[w] = "acquire", permits[sem[w]] = 0
              PROVE  \E v \in Worker : at[v] = "request" /\ sem[v] = sem[w]
  BY DEF PermitsAwaited
<1>1. sem[w] \in Semaphore
  BY DEF SemOK, InSlot
<1>2. Cardinality(Holders(sem[w])) = PerDomain
  BY <1>1, HoldersFinite DEF PermitsKept
<1>3. Holders(sem[w]) # {}
  BY <1>2, FS_EmptySet
<1>. QED BY <1>3 DEF Holders

\* The rank is bounded by what the retries allow.
LEMMA RanksBounded == TypeOK => RanksOK
<1>. SUFFICES ASSUME TypeOK, NEW w \in Worker
              PROVE  FetchRank(w) \in 0..(5 * Retries + 5)
  BY DEF RanksOK
<1>1. Retries - attempt[w] \in 0..Retries
  BY DEF TypeOK
<1>2. CASE at[w] = "idle"
  BY <1>2 DEF FetchRank
<1>3. CASE at[w] # "idle"
  <2>1. StepsLeft[at[w]] \in 1..5
    BY <1>3 DEF TypeOK, StepsLeft
  <2>. QED BY <1>1, <1>3, <2>1 DEF FetchRank
<1>. QED BY <1>2, <1>3

\* A step of one worker leaves the ranks of the others alone.
LEMMA OthersKeepRank ==
  ASSUME TypeOK, NEW w \in Worker,
         \A v \in Worker \ {w} : at'[v] = at[v] /\ attempt'[v] = attempt[v]
  PROVE  \A v \in Worker \ {w} : FetchRank(v)' = FetchRank(v)
  BY DEF FetchRank

\* Within an attempt every step lowers the rank.
LEMMA AttemptGoesOn ==
  ASSUME TypeOK, NEW w \in Worker, attempt' = attempt,
         NEW a, at' = [at EXCEPT ![w] = a],
         \/ at[w] = "waiting" /\ a = "slot"
         \/ at[w] = "slot" /\ a = "acquire"
         \/ at[w] = "acquire" /\ a = "request"
         \/ at[w] = "request" /\ a = "answered"
         \/ at[w] = "answered" /\ a = "idle"
  PROVE  GoesOn(w)
<1>1. at'[w] = a /\ at[w] # "idle"
  BY DEF TypeOK
<1>2. \A v \in Worker \ {w} : at'[v] = at[v]
  BY DEF TypeOK
<1>3. Retries - attempt[w] \in Nat
  BY DEF TypeOK
<1>4. FetchRank(w) = 5 * (Retries - attempt[w]) + StepsLeft[at[w]]
  BY <1>1 DEF FetchRank
<1>5. FetchRank(w)' = IF a = "idle" THEN 0
                      ELSE 5 * (Retries - attempt[w]) + StepsLeft[a]
  BY <1>1 DEF FetchRank, StepsLeft
<1>6. /\ StepsLeft["waiting"] = 5 /\ StepsLeft["slot"] = 4
      /\ StepsLeft["acquire"] = 3 /\ StepsLeft["request"] = 2
      /\ StepsLeft["answered"] = 1
  BY DEF StepsLeft
<1>7. FetchRank(w)' < FetchRank(w)
  BY <1>3, <1>4, <1>5, <1>6
<1>. QED BY <1>2, <1>7, OthersKeepRank DEF GoesOn

\* Every step of the workers and of the clock goes on.
LEMMA FetchStep ==
  ASSUME TypeOK, TypeOK', Next
  PROVE  (\E w \in Worker : GoesOn(w) \/ TakesUp(w)) \/ TimePasses
<1>1. ASSUME NEW w \in Worker, NEW d \in Domain, Fetch(w, d)
      PROVE  TakesUp(w)
  <2>1. at[w] = "idle" /\ at'[w] = "waiting" /\ attempt'[w] = 0
    BY <1>1 DEF Fetch, TypeOK
  <2>2. \A v \in Worker \ {w} : at'[v] = at[v] /\ attempt'[v] = attempt[v]
    BY <1>1 DEF Fetch, TypeOK
  <2>3. FetchRank(w)' = 5 * Retries + 5
    BY <2>1 DEF FetchRank, StepsLeft
  <2>. QED BY <2>1, <2>2, <2>3, OthersKeepRank DEF TakesUp
<1>2. ASSUME NEW w \in Worker, Waited(w) PROVE GoesOn(w)
  BY <1>2, AttemptGoesOn DEF Waited
<1>3. ASSUME NEW w \in Worker, FindSlot(w) PROVE GoesOn(w)
  BY <1>3, AttemptGoesOn DEF FindSlot
<1>4. ASSUME NEW w \in Worker, MakeSlot(w) PROVE GoesOn(w)
  BY <1>4, AttemptGoesOn DEF MakeSlot
<1>5. ASSUME NEW w \in Worker, Acquire(w) PROVE GoesOn(w)
  BY <1>5, AttemptGoesOn DEF Acquire
<1>6. ASSUME NEW w \in Worker, Release(w) PROVE GoesOn(w)
  BY <1>6, AttemptGoesOn DEF Release
<1>7. ASSUME NEW w \in Worker, Return(w) \/ ParkDomain(w) PROVE GoesOn(w)
  BY <1>7, AttemptGoesOn DEF Return, ParkDomain, Leave
<1>8. ASSUME NEW w \in Worker, Retry(w) PROVE GoesOn(w)
  <2>1. /\ at[w] = "answered" /\ attempt[w] # Retries
        /\ at' = [at EXCEPT ![w] = "waiting"]
        /\ attempt' = [attempt EXCEPT ![w] = @ + 1]
    BY <1>8 DEF Retry, LastAttempt
  <2>2. at'[w] = "waiting" /\ attempt'[w] = attempt[w] + 1
    BY <2>1 DEF TypeOK
  <2>3. \A v \in Worker \ {w} : at'[v] = at[v] /\ attempt'[v] = attempt[v]
    BY <2>1 DEF TypeOK
  <2>4. attempt[w] \in 0..Retries
    BY DEF TypeOK
  <2>5. /\ FetchRank(w) = 5 * (Retries - attempt[w]) + 1
        /\ FetchRank(w)' = 5 * (Retries - (attempt[w] + 1)) + 5
    BY <2>1, <2>2 DEF FetchRank, StepsLeft
  <2>. QED BY <2>3, <2>4, <2>5, OthersKeepRank DEF GoesOn
<1>9. CASE Tick
  <2>1. PICK d \in Domain : cooldown[d] > 0
    BY <1>9 DEF Tick
  <2>2. cooldown' = [e \in Domain |-> IF cooldown[e] > 0 THEN cooldown[e] - 1 ELSE 0]
    BY <1>9 DEF Tick
  <2>3. cooldown'[d] < cooldown[d] /\ \A e \in Domain : cooldown'[e] <= cooldown[e]
    BY <2>1, <2>2 DEF TypeOK
  <2>4. \A v \in Worker : FetchRank(v)' = FetchRank(v)
    BY <1>9 DEF Tick, worker, FetchRank
  <2>. QED BY <2>1, <2>3, <2>4 DEF TimePasses
<1>. QED
  BY <1>1, <1>2, <1>3, <1>4, <1>5, <1>6, <1>7, <1>8, <1>9 DEF Next, WorkerStep

(***************************************************************************)
(* Nobody waits for a permit that was lost: a worker before an exhausted    *)
(* semaphore, one the registry has dropped too, always has a request under  *)
(* way before it, whose end gives the permit back.                          *)
(***************************************************************************)
THEOREM PermitsComeBack == Spec => []PermitsAwaited
<1>1. (TypeOK /\ SemOK /\ OrderOK) /\ PermitsKept => PermitsAwaited
  BY NoPermitMeansHeld
<1>. QED BY <1>1, TypeCorrect, NoPermitLeaks, PTL

(***************************************************************************)
(* A fetch ends: after at most 5 * (http_retries + 1) steps of its own a    *)
(* worker is back, however often its requests fail and whatever the others  *)
(* do, and between its steps nothing changes but the others and the time    *)
(* that runs down the cooldowns.                                            *)
(***************************************************************************)
THEOREM FetchesFinite == Spec => []RanksOK /\ FetchAdvances
<1>1. TypeOK /\ SemOK /\ OrderOK => RanksOK
  BY RanksBounded
<1>2. (TypeOK /\ SemOK /\ OrderOK) /\ (TypeOK /\ SemOK /\ OrderOK)' /\ [Next]_vars
      => [(\E w \in Worker : GoesOn(w) \/ TakesUp(w)) \/ TimePasses]_vars
  BY FetchStep
<1>. QED BY <1>1, <1>2, TypeCorrect, PTL DEF Spec, FetchAdvances
=============================================================================
