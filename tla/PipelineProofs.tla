---------------------------- MODULE PipelineProofs ----------------------------
(***************************************************************************)
(* Proofs about Pipeline for any queries, listings, number of workers and   *)
(* queue capacity, under every fault and over any number of sessions: type  *)
(* correctness, that no record is lost or doubled between its collection    *)
(* and its decision, one lead per business, that a shutdown which did not   *)
(* give up on a thread leaves nothing behind, that the run implements       *)
(* Campaign and BusinessClaims, and that no session is stuck or goes on for *)
(* ever.                                                                    *)
(***************************************************************************)
EXTENDS Pipeline, FunctionTheorems, SequenceTheorems, FiniteSetTheorems, TLAPS

Records == Listing \cup {None}

\* While it collects, there is a current query.
QueryOK == pc \in {"collect", "put"} => qi \in 1..Len(Queries)

\* The main thread has a record exactly while it puts one.
HeldOK == held # None <=> pc = "put"

\* The records under way are of different businesses, all of them known to the
\* resolver and none of them committed.
LiveOK ==
    /\ \A l \in live : BusinessOf[l] \in seen /\ BusinessOf[l] \notin Range(committed)
    /\ \A l, m \in live : BusinessOf[l] = BusinessOf[m] => l = m

\* The resolver of a session knows every committed business.
CommittedSeen == pc # "down" => Range(committed) \subseteq seen

\* Where the main thread is before it puts the first sentinel.
Filling == {"down", "next", "collect", "put"}

\* Each sentinel is still to be put, in the queue, or has ended a worker.
SentinelsCounted ==
    unsent + Count(workQ, None) + Cardinality(exited) =
        IF pc \in Filling THEN 0 ELSE Cardinality(Worker)

\* No record is behind a sentinel, and a worker that has ended has none.
NothingBehind ==
    /\ \A i, j \in 1..Len(workQ) : i < j /\ workQ[i] = None => workQ[j] = None
    /\ exited # {} => \A i \in 1..Len(workQ) : workQ[i] = None
    /\ \A w \in exited : task[w] = None

\* Workers end before the committer is told to, unless the main thread gave up.
Joined ==
    /\ pc \in Filling \cup {"stopping", "joining"} => ~abandoned
    /\ pc \notin Filling \cup {"stopping"} /\ ~abandoned => unsent = 0
    /\ pc \in {"draining", "xlsx", "close"} /\ ~abandoned => exited = Worker

\* The committer's sentinel is the last of its queue.
Drained ==
    /\ pc \in Filling \cup {"stopping", "joining"} =>
          ~committerDone /\ \A i \in 1..Len(doneQ) : doneQ[i] # None
    /\ pc \in {"draining", "xlsx", "close"} /\ ~abandoned =>
          \/ committerDone /\ doneQ = <<>>
          \/ /\ ~committerDone /\ doneQ # <<>>
             /\ \A i \in 1..Len(doneQ) : doneQ[i] = None <=> i = Len(doneQ)
    /\ committerDone => committing = None
    /\ pc \in {"xlsx", "close"} /\ ~abandoned => committerDone
    /\ pc = "close" /\ ~abandoned /\ written => workbook = Range(committed)

\* Between sessions there is nothing in memory.
Empty ==
    pc = "down" =>
        /\ held = None /\ workQ = <<>> /\ doneQ = <<>> /\ committing = None
        /\ task = [w \in Worker |-> None] /\ live = {}

IInv ==
    /\ TypeOK /\ NothingLostOrDoubled /\ OneLeadPerBusiness
    /\ QueryOK /\ HeldOK /\ LiveOK /\ CommittedSeen
    /\ SentinelsCounted /\ NothingBehind /\ Joined /\ Drained /\ Empty

-----------------------------------------------------------------------------
(* Counting occurrences *)

\* What one element adds to the count of l.
One(x, l) == IF x = l THEN 1 ELSE 0

\* The places of a value in a finite function are finitely many.
LEMMA PlacesFinite ==
    ASSUME NEW q, IsFiniteSet(DOMAIN q), NEW l
    PROVE  IsFiniteSet({i \in DOMAIN q : q[i] = l})
BY FS_Subset

\* A count is a number, and zero when the value is nowhere.
LEMMA CountNat ==
    ASSUME NEW q, IsFiniteSet(DOMAIN q), NEW l
    PROVE  /\ Count(q, l) \in Nat
           /\ Count(q, l) = 0 <=> \A i \in DOMAIN q : q[i] # l
<1> DEFINE P == {i \in DOMAIN q : q[i] = l}
<1>1. IsFiniteSet(P)
  BY PlacesFinite
<1>2. Cardinality(P) \in Nat /\ (Cardinality(P) = 0 <=> P = {})
  BY <1>1, FS_CardinalityType, FS_EmptySet
<1> QED
  BY <1>2 DEF Count

LEMMA SeqDomainFinite ==
    ASSUME NEW S, NEW q \in Seq(S)
    PROVE  DOMAIN q = 1..Len(q) /\ Len(q) \in Nat /\ IsFiniteSet(DOMAIN q)
BY LenProperties, FS_Interval

\* An element appended is counted once.
LEMMA CountAppend ==
    ASSUME NEW S, NEW q \in Seq(S), NEW x \in S, NEW l
    PROVE  Count(Append(q, x), l) = Count(q, l) + One(x, l)
<1> DEFINE r == Append(q, x)
           P == {i \in DOMAIN q : q[i] = l}
           R == {i \in DOMAIN r : r[i] = l}
           n == Len(q) + 1
<1>0. Count(q, l) = Cardinality(P) /\ Count(r, l) = Cardinality(R)
  BY DEF Count
<1>1. DOMAIN q = 1..Len(q) /\ Len(q) \in Nat /\ IsFiniteSet(P)
  BY SeqDomainFinite, PlacesFinite
<1>2. DOMAIN r = 1..n /\ r[n] = x /\ \A i \in 1..Len(q) : r[i] = q[i]
  BY AppendProperties, LenProperties
<1>3. CASE x = l
  <2>1. R = P \cup {n} /\ n \notin P
    BY <1>1, <1>2, <1>3
  <2>2. Cardinality(R) = Cardinality(P) + 1
    BY <1>1, <2>1, FS_AddElement
  <2> QED
    BY <2>2, <1>0, <1>3 DEF One
<1>4. CASE x # l
  <2>1. R = P
    BY <1>1, <1>2, <1>4
  <2>2. Cardinality(P) \in Nat
    BY <1>1, FS_CardinalityType
  <2> HIDE DEF P, R
  <2> QED
    BY <2>1, <2>2, <1>0, <1>4 DEF One
<1> QED
  BY <1>3, <1>4

\* The head taken from a queue is counted once less.
LEMMA CountTail ==
    ASSUME NEW S, NEW q \in Seq(S), q # <<>>, NEW l
    PROVE  Count(q, l) = Count(Tail(q), l) + One(Head(q), l)
<1> DEFINE r == Tail(q)
           P == {i \in DOMAIN q : q[i] = l}
           R == {i \in DOMAIN r : r[i] = l}
           Q == P \ {1}
           f == [i \in R |-> i + 1]
<1>0. Count(q, l) = Cardinality(P) /\ Count(r, l) = Cardinality(R)
  BY DEF Count
<1>1. /\ DOMAIN q = 1..Len(q) /\ Len(q) \in Nat \ {0} /\ IsFiniteSet(P)
      /\ r \in Seq(S) /\ Head(q) = q[1]
  <2>1. DOMAIN q = 1..Len(q) /\ Len(q) \in Nat \ {0} /\ r \in Seq(S)
    BY LenProperties, HeadTailProperties, EmptySeq
  <2>2. IsFiniteSet(P)
    BY SeqDomainFinite, PlacesFinite
  <2> QED
    BY <2>1, <2>2
<1>2. /\ DOMAIN r = 1..(Len(q) - 1) /\ IsFiniteSet(R)
      /\ \A i \in 1..(Len(q) - 1) : r[i] = q[i + 1]
  <2>1. Len(r) = Len(q) - 1 /\ \A i \in 1..Len(r) : r[i] = q[i + 1]
    BY HeadTailProperties
  <2>2. DOMAIN r = 1..Len(r) /\ IsFiniteSet(DOMAIN r)
    BY <1>1, SeqDomainFinite
  <2>3. IsFiniteSet(R)
    BY <2>2, PlacesFinite
  <2> QED
    BY <2>1, <2>2, <2>3
<1>3. f \in Bijection(R, Q)
  <2>1. f \in [R -> Q]
    BY <1>1, <1>2
  <2>2. \A i, j \in R : f[i] = f[j] => i = j
    BY <1>1, <1>2
  <2>3. \A k \in Q : \E i \in R : f[i] = k
    <3> SUFFICES ASSUME NEW k \in Q PROVE \E i \in R : f[i] = k
      OBVIOUS
    <3>1. k - 1 \in R /\ f[k - 1] = k
      BY <1>1, <1>2
    <3> QED
      BY <3>1
  <2> QED
    BY <2>1, <2>2, <2>3, Fun_IsBij
<1>4. IsFiniteSet(Q) /\ Cardinality(Q) = Cardinality(R) /\ Cardinality(R) \in Nat
  BY <1>2, <1>3, FS_Bijection, FS_CardinalityType, ZenonT(40) DEF ExistsBijection
<1>5. CASE q[1] = l
  <2>1. P = Q \cup {1} /\ 1 \notin Q
    BY <1>1, <1>5
  <2>2. Cardinality(P) = Cardinality(Q) + 1
    BY <1>4, <2>1, FS_AddElement
  <2> QED
    BY <2>2, <1>0, <1>1, <1>4, <1>5 DEF One
<1>6. CASE q[1] # l
  <2>1. P = Q
    BY <1>1, <1>6
  <2> HIDE DEF P, Q, R
  <2> QED
    BY <2>1, <1>0, <1>1, <1>4, <1>6 DEF One
<1> QED
  BY <1>5, <1>6

\* A worker that gives up one record for another moves one count to the other.
LEMMA CountExcept ==
    ASSUME NEW f \in [Worker -> Records], NEW g \in [Worker -> Records], NEW w \in Worker,
           \A v \in Worker : v # w => g[v] = f[v],
           NEW l
    PROVE  Count(g, l) + One(f[w], l) = Count(f, l) + One(g[w], l)
<1> USE PoolAssumption
<1> DEFINE P == {i \in DOMAIN f : f[i] = l}
           R == {i \in DOMAIN g : g[i] = l}
           Q == P \ {w}
<1>1. IsFiniteSet(P) /\ IsFiniteSet(R) /\ IsFiniteSet(Q)
  BY PlacesFinite, FS_Subset
<1>2. Cardinality(Q) \in Nat /\ Cardinality(Q \cup {w}) = Cardinality(Q) + 1
  BY <1>1, FS_CardinalityType, FS_AddElement
<1>3. P = IF f[w] = l THEN Q \cup {w} ELSE Q
  OBVIOUS
<1>4. R = IF g[w] = l THEN Q \cup {w} ELSE Q
  OBVIOUS
<1>5. Count(f, l) = Cardinality(P) /\ Count(g, l) = Cardinality(R)
  BY DEF Count
<1> HIDE DEF P, Q, R
<1> QED
  BY <1>2, <1>3, <1>4, <1>5 DEF One

\* The count of a pair is the sum of its parts.
LEMMA CountPair ==
    ASSUME NEW x, NEW y, NEW l
    PROVE  Count(<<x, y>>, l) = One(x, l) + One(y, l)
<1> DEFINE p == <<x, y>>
<1>1. {i \in DOMAIN p : p[i] = l} = {i \in {1, 2} : p[i] = l}
  OBVIOUS
<1>2. Cardinality({}) = 0 /\ Cardinality({1}) = 1 /\ Cardinality({2}) = 1
  BY FS_EmptySet, FS_Singleton
<1>3. Cardinality({1, 2}) = 2
  <2>0. 2 \notin {1}
    OBVIOUS
  <2>1. IsFiniteSet({1})
    BY FS_Singleton
  <2>2. Cardinality({1} \cup {2}) = Cardinality({1}) + 1
    BY <2>0, <2>1, FS_AddElement
  <2>3. {1} \cup {2} = {1, 2}
    OBVIOUS
  <2> QED
    BY <2>2, <2>3, <1>2
<1>4. {i \in {1, 2} : p[i] = l} =
        IF x = l THEN IF y = l THEN {1, 2} ELSE {1}
                 ELSE IF y = l THEN {2} ELSE {}
  OBVIOUS
<1> QED
  BY <1>1, <1>2, <1>3, <1>4 DEF Count, One

-----------------------------------------------------------------------------
(* Type correctness *)

USE DEF Records

\* There are finitely many workers, and at least one.
LEMMA WorkerCount == Cardinality(Worker) \in Nat \ {0}
BY PoolAssumption, FS_CardinalityType, FS_EmptySet

\* The current query is one of the queries, and the listing its collector
\* yields next one of the listings.
LEMMA NextListingType ==
    ASSUME TypeOK, QueryOK, Yielded
    PROVE  NextListing \in Listing /\ BusinessOf[NextListing] \in Business
<1>1. Queries[qi] \in Query
  BY ListingAssumption, ElementOfSeq DEF QueryOK, Yielded
<1>2. Results[Queries[qi]] \in Seq(Listing)
  BY <1>1, ListingAssumption
<1>3. taken + 1 \in 1..Len(Results[Queries[qi]])
  <2>1. taken \in Nat /\ taken < Len(Results[Queries[qi]])
    BY DEF TypeOK, Yielded
  <2>2. Len(Results[Queries[qi]]) \in Nat
    BY <1>2, LenProperties
  <2> QED
    BY <2>1, <2>2
<1> QED
  BY <1>2, <1>3, ElementOfSeq DEF NextListing, Business

\* Every step keeps the types.
LEMMA TypeStep == TypeOK /\ QueryOK /\ [Next]_vars => TypeOK'
<1> SUFFICES ASSUME TypeOK, QueryOK, [Next]_vars PROVE TypeOK'
  OBVIOUS
<1> USE ListingAssumption, PoolAssumption DEF TypeOK, Stopping, durable, main, workers, commit
<1>0. Len(Queries) \in Nat /\ Cardinality(Worker) \in Nat \ {0}
  BY WorkerCount, LenProperties
<1>1. CASE Start
  BY <1>1, RangeOfSeq DEF Start
<1>2. CASE SkipDoneQuery
  BY <1>0, <1>2 DEF SkipDoneQuery
<1>3. CASE EndQueries
  <2>1. pc' = "stopping" /\ unsent' = Cardinality(Worker) /\ timed' \in BOOLEAN
    BY <1>3, Zenon DEF EndQueries, BeginShutdown
  <2>2. UNCHANGED <<durable, qi, taken, held, abandoned, written,
                    seen, workQ, doneQ, workers, commit, live>>
    BY <1>3, Zenon DEF EndQueries
  <2> QED
    BY <1>0, <2>1, <2>2
<1>4. CASE BeginQuery
  BY <1>0, <1>4 DEF BeginQuery
<1>5. CASE CollectDuplicate
  BY <1>5 DEF CollectDuplicate, Yielded
<1>6. CASE CollectRefused
  BY <1>6, NextListingType DEF CollectRefused, Yielded
<1>7. CASE CollectAdmitted
  BY <1>7, NextListingType DEF CollectAdmitted, Yielded
<1>8. CASE PutWork
  <2>1. /\ workQ' \in Seq(Records) /\ Len(workQ') = Len(workQ) + 1
        /\ Len(workQ) \in Nat
    BY <1>8, AppendProperties, LenProperties DEF PutWork
  <2>2. Len(workQ') <= MaxInFlight
    BY <1>8, <2>1 DEF PutWork
  <2>3. \/ pc' = "collect" /\ UNCHANGED <<unsent, timed>>
        \/ pc' = "stopping" /\ unsent' = Cardinality(Worker) /\ timed' \in BOOLEAN
    BY <1>8, Zenon DEF PutWork, BeginShutdown
  <2>4. held' = None /\ UNCHANGED <<durable, qi, taken, abandoned, written,
                                   seen, doneQ, workers, commit, live>>
    BY <1>8, Zenon DEF PutWork
  <2> QED
    BY <1>0, <2>1, <2>2, <2>3, <2>4
<1>9. CASE EndQuery
  <2>1. qi' \in 1..Len(Queries) + 1
    BY <1>0, <1>9 DEF EndQuery, QueryOK
  <2> QED
    BY <1>9, <2>1 DEF EndQuery
<1>10. CASE QueryFails
  <2>1. qi' \in 1..Len(Queries) + 1
    BY <1>0, <1>10 DEF QueryFails, QueryOK
  <2> QED
    BY <1>10, <2>1 DEF QueryFails
<1>11. CASE PutSentinel
  BY <1>0, <1>11, AppendProperties DEF PutSentinel
<1>12. CASE SentinelsPut
  BY <1>12 DEF SentinelsPut
<1>13. CASE JoinWorkers
  BY <1>13, AppendProperties DEF JoinWorkers
<1>14. CASE JoinCommitter
  BY <1>14 DEF JoinCommitter
<1>15. CASE WriteXlsx
  <2>1. written' \in BOOLEAN
    BY <1>15, Zenon DEF WriteXlsx
  <2> QED
    BY <1>15, <2>1, RangeOfSeq DEF WriteXlsx
<1>16. CASE Close \/ Crash
  <2>1. workQ' \in Seq(Records) /\ Len(workQ') = 0 /\ doneQ' \in Seq(Records)
    BY <1>16, EmptySeq, ZenonT(40) DEF Close, Crash, Exit
  <2>2. qi' \in 1..Len(Queries) + 1 /\ unsent' \in 0..Cardinality(Worker)
    BY <1>0, <1>16 DEF Close, Crash, Exit
  <2>3. /\ timed' \in BOOLEAN /\ abandoned' \in BOOLEAN /\ committerDone' \in BOOLEAN
        /\ written' \in BOOLEAN
    BY <1>16, Zenon DEF Close, Crash, Exit
  <2>4. /\ workbook' \subseteq Business
        /\ UNCHANGED <<status, committed, refused>>
    BY <1>16 DEF Close, Crash, WorkbookLeft
  <2> QED
    BY <1>0, <1>16, <2>1, <2>2, <2>3, <2>4 DEF Close, Crash, Exit
<1>17. CASE InterruptLoop
  BY <1>0, <1>17 DEF InterruptLoop, BeginShutdown
<1>18. CASE InterruptShutdown
  <2>1. workbook' \subseteq Business /\ abandoned' \in BOOLEAN
    BY <1>18 DEF InterruptShutdown, WorkbookLeft
  <2> QED
    BY <1>18, <2>1 DEF InterruptShutdown
<1>19. ASSUME NEW w \in Worker, TakeTask(w) PROVE TypeOK'
  <2>1. /\ Head(workQ) \in Records /\ workQ' \in Seq(Records)
        /\ Len(workQ') = Len(workQ) - 1 /\ Len(workQ) \in Nat
    BY <1>19, HeadTailProperties, LenProperties DEF TakeTask
  <2>2. Len(workQ') <= MaxInFlight
    BY <2>1
  <2> QED
    BY <1>19, <2>1, <2>2, ZenonT(40) DEF TakeTask
<1>20. ASSUME NEW w \in Worker, Enrich(w) PROVE TypeOK'
  BY <1>20, AppendProperties DEF Enrich
<1>21. CASE TakeDone
  <2>1. Head(doneQ) \in Records /\ doneQ' \in Seq(Records)
    BY <1>21, HeadTailProperties DEF TakeDone
  <2> QED
    BY <1>21, <2>1 DEF TakeDone
<1>22. CASE RefuseRecord
  BY <1>22 DEF RefuseRecord, Decided, Business
<1>23. CASE CommitRecord
  BY <1>23, AppendProperties DEF CommitRecord, Decided, Business
<1>24. CASE CommitRaises
  BY <1>24 DEF CommitRaises, Decided
<1>25. CASE UNCHANGED vars
  BY <1>25 DEF vars
<1> QED
  BY <1>1, <1>2, <1>3, <1>4, <1>5, <1>6, <1>7, <1>8, <1>9, <1>10, <1>11, <1>12,
     <1>13, <1>14, <1>15, <1>16, <1>17, <1>18, <1>19, <1>20, <1>21, <1>22, <1>23,
     <1>24, <1>25 DEF Next, MainStep, WorkerStep, CommitterStep, Close, Crash

\* Every step keeps the main thread's record and query.
LEMMA MainThreadStep ==
    TypeOK /\ QueryOK /\ HeldOK /\ [Next]_vars => QueryOK' /\ HeldOK'
<1> SUFFICES ASSUME TypeOK, QueryOK, HeldOK, [Next]_vars PROVE QueryOK' /\ HeldOK'
  OBVIOUS
<1> USE ListingAssumption DEF QueryOK, HeldOK, Stopping, durable, main, workers, commit
<1>0. qi \in Nat \ {0} /\ Len(Queries) \in Nat
  BY LenProperties DEF TypeOK
<1>1. CASE BeginQuery
  BY <1>0, <1>1 DEF BeginQuery
<1>2. CASE CollectAdmitted
  BY <1>2, NextListingType DEF CollectAdmitted, Yielded
<1>3. CASE PutWork
  BY <1>3, Zenon DEF PutWork, BeginShutdown
<1>4. CASE SkipDoneQuery \/ EndQuery \/ QueryFails
  BY <1>4 DEF SkipDoneQuery, EndQuery, QueryFails
<1>5. CASE EndQueries
  BY <1>5, Zenon DEF EndQueries, BeginShutdown
<1>6. CASE CollectDuplicate \/ CollectRefused
  BY <1>6 DEF CollectDuplicate, CollectRefused, Yielded
<1>7. CASE Start \/ PutSentinel \/ SentinelsPut \/ JoinWorkers \/ JoinCommitter \/ WriteXlsx
  BY <1>7 DEF Start, PutSentinel, SentinelsPut, JoinWorkers, JoinCommitter, WriteXlsx
<1>8. CASE InterruptLoop \/ InterruptShutdown \/ Exit
  BY <1>8 DEF InterruptLoop, InterruptShutdown, Exit, BeginShutdown
<1>9. ASSUME NEW w \in Worker, TakeTask(w) \/ Enrich(w) PROVE QueryOK' /\ HeldOK'
  BY <1>9 DEF TakeTask, Enrich
<1>10. CASE CommitterStep
  BY <1>10 DEF CommitterStep, TakeDone, RefuseRecord, CommitRecord, CommitRaises, Decided
<1>11. CASE UNCHANGED vars
  BY <1>11 DEF vars
<1> QED
  BY <1>1, <1>2, <1>3, <1>4, <1>5, <1>6, <1>7, <1>8, <1>9, <1>10, <1>11
     DEF Next, MainStep, WorkerStep, Close, Crash

-----------------------------------------------------------------------------
(* Nothing lost or doubled *)

LEMMA CountQueue ==
    ASSUME NEW q \in Seq(Records), NEW l
    PROVE  Count(q, l) \in Nat
BY SeqDomainFinite, CountNat

LEMMA CountTask ==
    ASSUME NEW t \in [Worker -> Records], NEW l
    PROVE  Count(t, l) \in Nat /\ (Count(t, l) = 0 <=> \A w \in Worker : t[w] # l)
<1>1. DOMAIN t = Worker /\ IsFiniteSet(Worker)
  BY PoolAssumption
<1> QED
  BY <1>1, CountNat

LEMMA OneType == \A x, l : One(x, l) \in 0..1
BY DEF One

\* A record in a thread's hands is under way.
LEMMA InHandsLive ==
    ASSUME TypeOK, NothingLostOrDoubled
    PROVE  /\ held # None => held \in live
           /\ committing # None => committing \in live
           /\ \A w \in Worker : task[w] # None => task[w] \in live
<1> USE ListingAssumption DEF TypeOK
<1>1. ASSUME NEW l \in Listing, l = held \/ l = committing \/ \E w \in Worker : l = task[w]
      PROVE  l \in live
  <2>1. Count(workQ, l) \in Nat /\ Count(doneQ, l) \in Nat
    BY CountQueue
  <2>2. Count(task, l) \in Nat /\ (Count(task, l) = 0 => \A w \in Worker : task[w] # l)
    BY CountTask
  <2>3. Count(<<held, committing>>, l) = One(held, l) + One(committing, l)
    BY CountPair
  <2>4. /\ One(held, l) \in 0..1 /\ One(committing, l) \in 0..1
        /\ One(held, l) = 0 => held # l
        /\ One(committing, l) = 0 => committing # l
    BY DEF One
  <2> HIDE DEF TypeOK
  <2>5. Places(l) = Count(<<held, committing>>, l) + Count(workQ, l)
                        + Count(doneQ, l) + Count(task, l)
    BY DEF Places
  <2>6. One(held, l) # 0 \/ One(committing, l) # 0 \/ Count(task, l) # 0
    BY <1>1, <2>2, <2>4
  <2>7. Places(l) # 0
    BY <2>1, <2>2, <2>3, <2>4, <2>5, <2>6
  <2> QED
    BY <2>7 DEF NothingLostOrDoubled
<1> QED
  BY <1>1

\* No step loses a record or makes a second one of it.
LEMMA PlacesStep ==
    TypeOK /\ QueryOK /\ HeldOK /\ LiveOK /\ NothingLostOrDoubled /\ TypeOK' /\ [Next]_vars
        => NothingLostOrDoubled'
<1> SUFFICES ASSUME TypeOK, QueryOK, HeldOK, LiveOK, NothingLostOrDoubled, TypeOK', [Next]_vars,
                    NEW l \in Listing
             PROVE  Places(l)' = IF l \in live' THEN 1 ELSE 0
  BY DEF NothingLostOrDoubled
<1> USE ListingAssumption, PoolAssumption DEF durable, main, workers, commit
<1>0. /\ held \in Records /\ committing \in Records /\ task \in [Worker -> Records]
      /\ workQ \in Seq(Records) /\ doneQ \in Seq(Records)
      /\ workQ' \in Seq(Records) /\ doneQ' \in Seq(Records) /\ task' \in [Worker -> Records]
  BY DEF TypeOK
<1>1. /\ Places(l) = IF l \in live THEN 1 ELSE 0
      /\ Places(l) = One(held, l) + One(committing, l)
                        + Count(workQ, l) + Count(doneQ, l) + Count(task, l)
      /\ One(held, l) \in 0..1 /\ One(committing, l) \in 0..1
      /\ Count(workQ, l) \in Nat /\ Count(doneQ, l) \in Nat /\ Count(task, l) \in Nat
  <2>1. Count(workQ, l) \in Nat /\ Count(doneQ, l) \in Nat /\ Count(task, l) \in Nat
    BY <1>0, CountQueue, CountTask
  <2>2. Count(<<held, committing>>, l) = One(held, l) + One(committing, l)
    BY CountPair
  <2>3. Places(l) = Count(<<held, committing>>, l) + Count(workQ, l)
                        + Count(doneQ, l) + Count(task, l)
    BY DEF Places
  <2>4. Places(l) = IF l \in live THEN 1 ELSE 0
    BY DEF NothingLostOrDoubled
  <2> QED
    BY <2>1, <2>2, <2>3, <2>4, OneType
<1>2. /\ Places(l)' = One(held', l) + One(committing', l)
                        + Count(workQ', l) + Count(doneQ', l) + Count(task', l)
      /\ Count(workQ', l) \in Nat /\ Count(doneQ', l) \in Nat /\ Count(task', l) \in Nat
  <2>1. Count(<<held', committing'>>, l) = One(held', l) + One(committing', l)
    BY CountPair
  <2>2. Count(workQ', l) \in Nat /\ Count(doneQ', l) \in Nat /\ Count(task', l) \in Nat
    BY <1>0, CountQueue, CountTask
  <2> QED
    BY <2>1, <2>2 DEF Places
<1>3. One(None, l) = 0 /\ l # None
  BY DEF One
<1>4. ASSUME UNCHANGED <<held, committing, workQ, doneQ, task, live>>
      PROVE  Places(l)' = IF l \in live' THEN 1 ELSE 0
  BY <1>1, <1>2, <1>4
<1>5. CASE CollectAdmitted
  <2>1. /\ held = None /\ held' = NextListing /\ live' = live \cup {NextListing}
        /\ UNCHANGED <<committing, workQ, doneQ, task>>
    BY <1>5 DEF CollectAdmitted, Yielded, HeldOK
  <2>2. NextListing \notin live
    BY <1>5 DEF CollectAdmitted, LiveOK
  <2> QED
    BY <1>1, <1>2, <1>3, <2>1, <2>2 DEF One
<1>6. CASE PutWork
  <2>1. /\ workQ' = Append(workQ, held) /\ held' = None
        /\ UNCHANGED <<committing, doneQ, task, live>>
    BY <1>6, Zenon DEF PutWork
  <2>2. Count(workQ', l) = Count(workQ, l) + One(held, l)
    BY <1>0, <2>1, CountAppend, SMTT(40)
  <2> QED
    BY <1>1, <1>2, <1>3, <2>1, <2>2
<1>7. CASE PutSentinel
  <2>1. Count(workQ', l) = Count(workQ, l) + One(None, l)
    BY <1>7, <1>0, CountAppend DEF PutSentinel
  <2> QED
    BY <1>1, <1>2, <1>3, <1>7, <2>1 DEF PutSentinel
<1>8. CASE JoinWorkers
  <2>1. /\ doneQ' = Append(doneQ, None)
        /\ UNCHANGED <<held, committing, workQ, task, live>>
    BY <1>8, Zenon DEF JoinWorkers
  <2>2. Count(doneQ', l) = Count(doneQ, l) + One(None, l)
    BY <1>0, <2>1, CountAppend, SMTT(40)
  <2> QED
    BY <1>1, <1>2, <1>3, <2>1, <2>2
<1>9. CASE Exit
  <2>1. Count(workQ', l) = 0 /\ Count(doneQ', l) = 0 /\ Count(task', l) = 0
    <3>1. DOMAIN <<>> = {} /\ IsFiniteSet({})
      BY FS_EmptySet
    <3>2. Count(<<>>, l) = 0
      BY <3>1, CountNat
    <3>3. Count([w \in Worker |-> None], l) = 0
      BY <1>3, CountNat
    <3> QED
      BY <1>9, <3>2, <3>3 DEF Exit
  <2> QED
    BY <1>2, <1>3, <1>9, <2>1 DEF Exit
<1>10. CASE InterruptLoop
  <2>1. /\ held' = None /\ live' = live \ {held}
        /\ UNCHANGED <<committing, workQ, doneQ, task>>
    BY <1>10 DEF InterruptLoop
  <2> QED
    BY <1>1, <1>2, <1>3, <2>1 DEF One
<1>11. ASSUME NEW w \in Worker, TakeTask(w)
       PROVE  Places(l)' = IF l \in live' THEN 1 ELSE 0
  <2>0. UNCHANGED <<held, committing, doneQ, live>>
    BY <1>11, Zenon DEF TakeTask
  <2>1. /\ workQ # <<>> /\ workQ' = Tail(workQ) /\ task[w] = None
        /\ \/ Head(workQ) = None /\ task' = task
           \/ task' = [task EXCEPT ![w] = Head(workQ)]
    BY <1>11, Zenon DEF TakeTask
  <2>2. Count(workQ, l) = Count(workQ', l) + One(Head(workQ), l)
    BY <1>0, <2>1, CountTail
  <2>3. CASE Head(workQ) = None /\ task' = task
    BY <1>1, <1>2, <1>3, <2>0, <2>2, <2>3
  <2>4. CASE task' = [task EXCEPT ![w] = Head(workQ)]
    <3>1. Count(task', l) + One(None, l) = Count(task, l) + One(Head(workQ), l)
      <4>1. /\ task[w] = None /\ task'[w] = Head(workQ)
            /\ \A v \in Worker : v # w => task'[v] = task[v]
        BY <1>0, <2>1, <2>4
      <4>2. task \in [Worker -> Records] /\ task' \in [Worker -> Records]
        BY <1>0
      <4>3. \A v \in Worker : v # w => task'[v] = task[v]
        BY <4>1
      <4>4. Count(task', l) + One(task[w], l) = Count(task, l) + One(task'[w], l)
        BY <4>2, <4>3, CountExcept
      <4> QED
        BY <4>1, <4>4
    <3> QED
      <4>1. /\ One(held, l) \in Nat /\ One(committing, l) \in Nat /\ One(Head(workQ), l) \in Nat
            /\ Count(workQ', l) \in Nat /\ Count(doneQ, l) \in Nat
            /\ Count(task, l) \in Nat /\ Count(task', l) \in Nat
        BY <1>1, <1>2, OneType DEF One
      <4>2. /\ Count(task', l) = Count(task, l) + One(Head(workQ), l)
            /\ Places(l)' = One(held, l) + One(committing, l)
                              + Count(workQ', l) + Count(doneQ, l) + Count(task', l)
        BY <1>2, <1>3, <2>0, <3>1, <4>1
      <4>3. Count(workQ', l) + Count(task', l) = Count(workQ, l) + Count(task, l)
        BY <2>2, <4>1, <4>2
      <4>4. Places(l)' = Places(l)
        <5>1. Places(l) = One(held, l) + One(committing, l)
                            + Count(workQ, l) + Count(doneQ, l) + Count(task, l)
          BY <1>1
        <5>2. Count(workQ, l) \in Nat
          BY <1>1
        <5> QED
          BY ONLY <4>1, <4>2, <4>3, <5>1, <5>2
      <4> QED
        BY <1>1, <2>0, <4>4
  <2> QED
    BY <2>1, <2>3, <2>4
<1>12. ASSUME NEW w \in Worker, Enrich(w)
       PROVE  Places(l)' = IF l \in live' THEN 1 ELSE 0
  <2>0. UNCHANGED <<held, committing, workQ, live>>
    BY <1>12, Zenon DEF Enrich
  <2>1. doneQ' = Append(doneQ, task[w])
    BY <1>12, Zenon DEF Enrich
  <2>2. task[w] \in Records /\ None \in Records
    BY <1>0
  <2>3. Count(doneQ', l) = Count(doneQ, l) + One(task[w], l)
    BY <1>0, <2>1, <2>2, CountAppend
  <2>4. Count(task', l) + One(task[w], l) = Count(task, l) + One(None, l)
    <3>1. task'[w] = None /\ \A v \in Worker : v # w => task'[v] = task[v]
      BY <1>0, <1>12 DEF Enrich
    <3>2. task \in [Worker -> Records] /\ task' \in [Worker -> Records]
      BY <1>0
    <3>3. \A v \in Worker : v # w => task'[v] = task[v]
      BY <3>1
    <3>4. Count(task', l) + One(task[w], l) = Count(task, l) + One(task'[w], l)
      BY <3>2, <3>3, CountExcept
    <3> QED
      BY <3>1, <3>4
  <2>5. One(task[w], l) \in 0..1 /\ One(held, l) \in 0..1
    BY OneType
  <2> QED
    BY <1>1, <1>2, <1>3, <2>0, <2>3, <2>4, <2>5, SMTT(40)
<1>13. CASE TakeDone
  <2>1. /\ doneQ # <<>> /\ doneQ' = Tail(doneQ) /\ committing = None
        /\ \/ Head(doneQ) = None /\ committing' = None
           \/ committing' = Head(doneQ)
        /\ UNCHANGED <<held, workQ, task, live>>
    BY <1>13, Zenon DEF TakeDone
  <2>2. Count(doneQ, l) = Count(doneQ', l) + One(Head(doneQ), l)
    BY <1>0, <2>1, CountTail
  <2>3. One(committing', l) = One(Head(doneQ), l)
    BY <2>1
  <2>4. One(committing, l) = 0 /\ UNCHANGED <<held, workQ, task, live>>
    BY <1>3, <2>1
  <2>5. One(Head(doneQ), l) \in 0..1
    BY OneType
  <2> QED
    BY <1>1, <1>2, <2>2, <2>3, <2>4, <2>5
<1>14. CASE RefuseRecord \/ CommitRecord \/ CommitRaises
  <2>1. /\ committing' = None /\ live' = live \ {committing}
        /\ UNCHANGED <<held, workQ, doneQ, task>>
    BY <1>14 DEF RefuseRecord, CommitRecord, CommitRaises, Decided
  <2> QED
    BY <1>1, <1>2, <1>3, <2>1 DEF One
<1>15. CASE EndQueries
  BY <1>4, <1>15, Zenon DEF EndQueries, BeginShutdown
<1>16. CASE \/ Start \/ SkipDoneQuery \/ BeginQuery \/ CollectDuplicate \/ CollectRefused
            \/ EndQuery \/ QueryFails \/ SentinelsPut \/ JoinCommitter \/ WriteXlsx
            \/ InterruptShutdown \/ UNCHANGED vars
  BY <1>4, <1>16, Zenon DEF Start, SkipDoneQuery, BeginQuery, CollectDuplicate, CollectRefused,
     Yielded, EndQuery, QueryFails, SentinelsPut, JoinCommitter, WriteXlsx,
     InterruptShutdown, vars
<1> QED
  BY <1>5, <1>6, <1>7, <1>8, <1>9, <1>10, <1>11, <1>12, <1>13, <1>14, <1>15, <1>16
     DEF Next, MainStep, WorkerStep, CommitterStep, Close, Crash

-----------------------------------------------------------------------------
(* One lead per business *)

\* What a commit adds to the log.
LEMMA AppendShape ==
    ASSUME NEW S, NEW q \in Seq(S), NEW x \in S, NEW r, r = Append(q, x)
    PROVE  /\ DOMAIN q = 1..Len(q) /\ Len(q) \in Nat
           /\ DOMAIN r = 1..(Len(q) + 1) /\ r[Len(q) + 1] = x
           /\ \A i \in 1..Len(q) : r[i] = q[i]
<1>1. r \in Seq(S) /\ Len(r) = Len(q) + 1
  BY AppendProperties
<1>2. DOMAIN q = 1..Len(q) /\ Len(q) \in Nat /\ DOMAIN r = 1..(Len(q) + 1)
  BY <1>1, LenProperties
<1> QED
  BY <1>2, AppendProperties

LEMMA AppendRange ==
    ASSUME NEW S, NEW q \in Seq(S), NEW x \in S, NEW r, r = Append(q, x)
    PROVE  Range(r) = Range(q) \cup {x}
BY AppendShape DEF Range

\* A new value keeps a sequence free of repetitions.
LEMMA AppendFresh ==
    ASSUME NEW S, NEW q \in Seq(S), NEW x \in S, IsInjective(q), x \notin Range(q),
           NEW r, r = Append(q, x)
    PROVE  IsInjective(r)
<1>1. /\ DOMAIN q = 1..Len(q) /\ Len(q) \in Nat
      /\ DOMAIN r = 1..(Len(q) + 1) /\ r[Len(q) + 1] = x
      /\ \A i \in 1..Len(q) : r[i] = q[i]
  BY AppendShape
<1>2. \A i \in 1..Len(q) : q[i] # x
  BY <1>1 DEF Range
<1>3. \A i, j \in 1..Len(q) : q[i] = q[j] => i = j
  BY <1>1 DEF IsInjective
<1>4. \A i \in 1..(Len(q) + 1) : i \in 1..Len(q) \/ i = Len(q) + 1
  BY <1>1
<1>5. \A i, j \in 1..(Len(q) + 1) : r[i] = r[j] => i = j
  BY ONLY <1>1, <1>2, <1>3, <1>4
<1>6. \A i, j \in DOMAIN r : r[i] = r[j] => i = j
  BY ONLY <1>1, <1>5, Zenon
<1> QED
  BY <1>6, Zenon DEF IsInjective

\* What the resolver knows stays enough to let no committed business through.
LEMMA ResolverStep ==
    /\ TypeOK /\ QueryOK /\ HeldOK /\ Empty /\ NothingLostOrDoubled
    /\ OneLeadPerBusiness /\ LiveOK /\ CommittedSeen /\ [Next]_vars
    => OneLeadPerBusiness' /\ LiveOK' /\ CommittedSeen'
<1> SUFFICES ASSUME TypeOK, QueryOK, HeldOK, Empty, NothingLostOrDoubled,
                    OneLeadPerBusiness, LiveOK, CommittedSeen, [Next]_vars
             PROVE  OneLeadPerBusiness' /\ LiveOK' /\ CommittedSeen'
  OBVIOUS
<1> USE DEF durable, main, workers, commit
<1>1. ASSUME UNCHANGED <<committed, seen, live>>, pc' # "down" => pc # "down"
      PROVE  OneLeadPerBusiness' /\ LiveOK' /\ CommittedSeen'
  BY <1>1 DEF OneLeadPerBusiness, LiveOK, CommittedSeen
<1>2. CASE Start
  BY <1>2 DEF Start, OneLeadPerBusiness, LiveOK, CommittedSeen, Empty
<1>3. CASE Close \/ Crash
  BY <1>3 DEF Close, Crash, Exit, OneLeadPerBusiness, LiveOK, CommittedSeen
<1>4. CASE CollectAdmitted
  <2>1. /\ UNCHANGED committed /\ pc # "down"
        /\ BusinessOf[NextListing] \notin seen
        /\ seen' = seen \cup {BusinessOf[NextListing]}
        /\ live' = live \cup {NextListing}
    BY <1>4, Zenon DEF CollectAdmitted, Yielded
  <2>2. BusinessOf[NextListing] \notin Range(committed)
    BY <2>1 DEF CommittedSeen
  <2> HIDE DEF NextListing
  <2> QED
    BY <2>1, <2>2 DEF OneLeadPerBusiness, LiveOK, CommittedSeen
<1>5. CASE InterruptLoop
  BY <1>5 DEF InterruptLoop, OneLeadPerBusiness, LiveOK, CommittedSeen
<1>6. CASE RefuseRecord
  <2>1. committing \in live
    BY <1>6, InHandsLive DEF RefuseRecord, Decided
  <2>2. /\ UNCHANGED <<committed, pc>>
        /\ seen' = seen \ {BusinessOf[committing]} /\ live' = live \ {committing}
    BY <1>6, Zenon DEF RefuseRecord, Decided
  <2> QED
    BY <2>1, <2>2 DEF OneLeadPerBusiness, LiveOK, CommittedSeen
<1>7. CASE CommitRecord
  <2>1. committing \in live /\ BusinessOf[committing] \in Business
    BY <1>7, InHandsLive DEF CommitRecord, Decided, TypeOK, Business
  <2>2. /\ committed' = Append(committed, BusinessOf[committing])
        /\ live' = live \ {committing} /\ UNCHANGED <<seen, pc>>
    BY <1>7, Zenon DEF CommitRecord, Decided
  <2>3. BusinessOf[committing] \notin Range(committed) /\ committed \in Seq(Business)
    BY <2>1 DEF LiveOK, TypeOK
  <2>4. Range(committed)' = Range(committed) \cup {BusinessOf[committing]}
    BY <2>1, <2>2, <2>3, AppendRange, ZenonT(40)
  <2>5. OneLeadPerBusiness'
    BY <2>1, <2>2, <2>3, AppendFresh, Zenon DEF OneLeadPerBusiness
  <2> QED
    BY <2>1, <2>2, <2>4, <2>5 DEF LiveOK, CommittedSeen
<1>8. CASE CommitRaises
  BY <1>8 DEF CommitRaises, Decided, OneLeadPerBusiness, LiveOK, CommittedSeen
<1>9. ASSUME NEW w \in Worker, TakeTask(w) \/ Enrich(w)
      PROVE  OneLeadPerBusiness' /\ LiveOK' /\ CommittedSeen'
  BY <1>1, <1>9, Zenon DEF TakeTask, Enrich
<1>10. CASE \/ SkipDoneQuery \/ BeginQuery \/ CollectDuplicate \/ CollectRefused
            \/ EndQuery \/ QueryFails
  BY <1>1, <1>10 DEF SkipDoneQuery, BeginQuery, CollectDuplicate, CollectRefused,
     Yielded, EndQuery, QueryFails
<1>11. CASE EndQueries \/ PutWork
  BY <1>1, <1>11, Zenon DEF EndQueries, PutWork, BeginShutdown
<1>12. CASE \/ PutSentinel \/ SentinelsPut \/ JoinWorkers \/ JoinCommitter \/ WriteXlsx
            \/ InterruptShutdown \/ TakeDone \/ UNCHANGED vars
  BY <1>1, <1>12, Zenon DEF PutSentinel, SentinelsPut, JoinWorkers, JoinCommitter, WriteXlsx,
     InterruptShutdown, Stopping, TakeDone, vars
<1> QED
  BY <1>2, <1>3, <1>4, <1>5, <1>6, <1>7, <1>8, <1>9, <1>10, <1>11, <1>12
     DEF Next, MainStep, WorkerStep, CommitterStep, Close, Crash

-----------------------------------------------------------------------------
(* The shutdown *)

\* The numbers SentinelsCounted adds up.
LEMMA SentinelTypes ==
    ASSUME TypeOK
    PROVE  /\ Count(workQ, None) \in Nat /\ unsent \in Nat
           /\ IsFiniteSet(exited) /\ Cardinality(exited) \in Nat
           /\ Cardinality(exited) = 0 <=> exited = {}
<1>1. Count(workQ, None) \in Nat
  BY CountQueue DEF TypeOK
<1>2. unsent \in Nat
  BY WorkerCount DEF TypeOK
<1>3. IsFiniteSet(exited)
  BY PoolAssumption, FS_Subset DEF TypeOK
<1> QED
  BY <1>1, <1>2, <1>3, FS_CardinalityType, FS_EmptySet

\* Before the shutdown there is no sentinel and every worker runs.
LEMMA NoSentinel ==
    ASSUME TypeOK, SentinelsCounted, pc \in Filling
    PROVE  /\ unsent = 0 /\ Count(workQ, None) = 0 /\ exited = {}
           /\ \A i \in 1..Len(workQ) : workQ[i] # None
<1>1. unsent = 0 /\ Count(workQ, None) = 0 /\ exited = {}
  BY SentinelTypes DEF SentinelsCounted
<1>2. DOMAIN workQ = 1..Len(workQ) /\ IsFiniteSet(DOMAIN workQ)
  BY SeqDomainFinite DEF TypeOK
<1> QED
  BY <1>1, <1>2, CountNat

LEMMA SentinelsStep ==
    TypeOK /\ HeldOK /\ SentinelsCounted /\ TypeOK' /\ [Next]_vars => SentinelsCounted'
<1> SUFFICES ASSUME TypeOK, HeldOK, SentinelsCounted, TypeOK', [Next]_vars
             PROVE  SentinelsCounted'
  OBVIOUS
<1> USE DEF durable, main, workers, commit
<1>0. /\ Count(workQ, None) \in Nat /\ unsent \in Nat /\ Cardinality(exited) \in Nat
      /\ IsFiniteSet(exited) /\ Count(workQ', None) \in Nat
      /\ workQ \in Seq(Records) /\ workQ' \in Seq(Records) /\ None \in Records
      /\ held \in Records
      /\ Cardinality(Worker) \in Nat
  BY SentinelTypes, CountQueue, WorkerCount DEF TypeOK
<1>1. ASSUME UNCHANGED <<unsent, workQ, exited>>, pc \in Filling <=> pc' \in Filling
      PROVE  SentinelsCounted'
  BY <1>1, Zenon DEF SentinelsCounted
<1>2. ASSUME pc \in Filling, pc' \notin Filling, unsent' = Cardinality(Worker),
             UNCHANGED exited, Count(workQ', None) = Count(workQ, None)
      PROVE  SentinelsCounted'
  <2>1. Count(workQ, None) = 0 /\ Cardinality(exited) = 0
    BY <1>2, NoSentinel, FS_EmptySet
  <2> QED
    BY <1>0, <1>2, <2>1 DEF SentinelsCounted
<1>3. CASE PutWork
  <2>1. workQ' = Append(workQ, held) /\ held # None
    BY <1>3, Zenon DEF PutWork, HeldOK
  <2>2. Count(workQ', None) = Count(workQ, None)
    <3>1. Count(workQ', None) = Count(workQ, None) + One(held, None)
      BY <1>0, <2>1, CountAppend
    <3> QED
      BY <1>0, <2>1, <3>1 DEF One
  <2>3. CASE pc' = "collect" /\ UNCHANGED unsent
    BY <1>3, <2>2, <2>3 DEF PutWork, SentinelsCounted, Filling
  <2>4. CASE BeginShutdown(FALSE)
    BY <1>2, <1>3, <2>2, <2>4, Zenon DEF PutWork, BeginShutdown, Filling
  <2> QED
    BY <1>3, <2>3, <2>4, Zenon DEF PutWork
<1>4. CASE EndQueries
  BY <1>2, <1>4, Zenon DEF EndQueries, BeginShutdown, Filling
<1>5. CASE InterruptLoop
  BY <1>2, <1>5 DEF InterruptLoop, BeginShutdown, Filling
<1>6. CASE PutSentinel
  <2>1. Count(workQ', None) = Count(workQ, None) + 1
    BY <1>0, <1>6, CountAppend DEF PutSentinel, One
  <2>2. unsent' = unsent - 1 /\ exited' = exited /\ pc' = pc
    BY <1>6 DEF PutSentinel
  <2> QED
    BY <1>0, <2>1, <2>2 DEF SentinelsCounted
<1>7. ASSUME NEW w \in Worker, TakeTask(w)
      PROVE  SentinelsCounted'
  <2>1. /\ workQ # <<>> /\ workQ' = Tail(workQ) /\ w \notin exited
        /\ unsent' = unsent /\ pc' = pc
        /\ IF Head(workQ) = None THEN exited' = exited \cup {w} ELSE exited' = exited
    BY <1>7, Zenon DEF TakeTask
  <2>2. Count(workQ, None) = Count(workQ', None) + One(Head(workQ), None)
    BY <1>0, <2>1, CountTail
  <2>3. Cardinality(exited \cup {w}) = Cardinality(exited) + 1
    BY <1>0, <2>1, FS_AddElement
  <2>4. Count(workQ', None) + Cardinality(exited') = Count(workQ, None) + Cardinality(exited)
    <3>1. CASE Head(workQ) = None
      <4>1. Cardinality(exited') = Cardinality(exited) + 1
        BY <2>1, <2>3, <3>1
      <4>2. Count(workQ, None) = Count(workQ', None) + 1
        BY <2>2, <3>1 DEF One
      <4> QED
        BY <1>0, <4>1, <4>2
    <3>2. CASE Head(workQ) # None
      BY <1>0, <2>1, <2>2, <3>2 DEF One
    <3> QED
      BY <3>1, <3>2
  <2>5. Cardinality(exited') \in Nat
    <3>1. \/ Cardinality(exited') = Cardinality(exited) + 1
          \/ Cardinality(exited') = Cardinality(exited)
      BY <2>1, <2>3, Zenon
    <3> QED
      BY <1>0, <3>1
  <2> QED
    BY <1>0, <2>1, <2>4, <2>5, SMTT(40) DEF SentinelsCounted
<1>8. CASE Exit
  <2>1. DOMAIN <<>> = {} /\ IsFiniteSet({}) /\ Cardinality({}) = 0
    BY FS_EmptySet
  <2>2. Count(<<>>, None) = 0
    BY <2>1, CountNat
  <2> QED
    BY <1>8, <2>1, <2>2 DEF Exit, SentinelsCounted, Filling
<1>9. CASE \/ Start \/ SkipDoneQuery \/ BeginQuery \/ EndQuery \/ QueryFails
  BY <1>1, <1>9 DEF Start, SkipDoneQuery, BeginQuery, EndQuery, QueryFails, Filling
<1>10. CASE \/ CollectDuplicate \/ CollectRefused \/ CollectAdmitted
  BY <1>1, <1>10 DEF CollectDuplicate, CollectRefused, CollectAdmitted, Yielded, Filling
<1>11. CASE \/ SentinelsPut \/ JoinWorkers \/ JoinCommitter \/ WriteXlsx \/ InterruptShutdown
  BY <1>1, <1>11 DEF SentinelsPut, JoinWorkers, JoinCommitter, WriteXlsx,
     InterruptShutdown, Stopping, Filling
<1>12. ASSUME NEW w \in Worker, Enrich(w) PROVE SentinelsCounted'
  BY <1>1, <1>12, Zenon DEF Enrich
<1>13. CASE CommitterStep \/ UNCHANGED vars
  BY <1>1, <1>13, Zenon DEF CommitterStep, TakeDone, RefuseRecord, CommitRecord,
     CommitRaises, Decided, vars
<1> QED
  BY <1>3, <1>4, <1>5, <1>6, <1>7, <1>8, <1>9, <1>10, <1>11, <1>12, <1>13
     DEF Next, MainStep, WorkerStep, Close, Crash

\* The queue order: a record never gets behind a sentinel.
LEMMA BehindStep ==
    TypeOK /\ HeldOK /\ SentinelsCounted /\ NothingBehind /\ [Next]_vars => NothingBehind'
<1> SUFFICES ASSUME TypeOK, HeldOK, SentinelsCounted, NothingBehind, [Next]_vars
             PROVE  NothingBehind'
  OBVIOUS
<1> USE DEF durable, main, workers, commit
<1>0. /\ workQ \in Seq(Records) /\ None \in Records /\ held \in Records
      /\ task \in [Worker -> Records] /\ exited \subseteq Worker
  BY DEF TypeOK
<1>1. ASSUME UNCHANGED <<workQ, exited, task>> PROVE NothingBehind'
  BY <1>1 DEF NothingBehind
<1>2. CASE PutWork
  <2>1. workQ' = Append(workQ, held) /\ UNCHANGED <<task, exited>> /\ pc \in Filling
    BY <1>2, Zenon DEF PutWork, Filling
  <2>2. /\ DOMAIN workQ = 1..Len(workQ) /\ Len(workQ) \in Nat
        /\ Len(workQ') = Len(workQ) + 1 /\ \A i \in 1..Len(workQ) : workQ'[i] = workQ[i]
    BY <1>0, <2>1, AppendProperties, LenProperties
  <2>3. exited = {} /\ \A i \in 1..Len(workQ) : workQ[i] # None
    BY <2>1, NoSentinel
  <2>4. \A i, j \in 1..Len(workQ') : i < j => i \in 1..Len(workQ)
    BY <2>2
  <2> QED
    BY <2>1, <2>2, <2>3, <2>4 DEF NothingBehind
<1>3. CASE PutSentinel
  <2>1. workQ' = Append(workQ, None) /\ UNCHANGED <<task, exited>>
    BY <1>3, Zenon DEF PutSentinel
  <2>2. /\ Len(workQ) \in Nat /\ Len(workQ') = Len(workQ) + 1
        /\ \A i \in 1..Len(workQ) : workQ'[i] = workQ[i]
        /\ workQ'[Len(workQ) + 1] = None
    BY <1>0, <2>1, AppendProperties, LenProperties
  <2>3. \A i \in 1..Len(workQ') : i \in 1..Len(workQ) \/ i = Len(workQ) + 1
    BY <2>2
  <2>4. \A i, j \in 1..Len(workQ') : i < j /\ workQ'[i] = None => workQ'[j] = None
    <3>1. \A i, j \in 1..Len(workQ') : i < j => i \in 1..Len(workQ)
      BY <2>2
    <3> QED
      BY <2>2, <2>3, <3>1 DEF NothingBehind
  <2> QED
    BY <2>1, <2>2, <2>3, <2>4 DEF NothingBehind
<1>4. ASSUME NEW w \in Worker, TakeTask(w) PROVE NothingBehind'
  <2>1. /\ workQ # <<>> /\ workQ' = Tail(workQ) /\ w \notin exited /\ task[w] = None
        /\ \/ Head(workQ) = None /\ exited' = exited \cup {w} /\ task' = task
           \/ Head(workQ) # None /\ exited' = exited
    BY <1>4, Zenon DEF TakeTask
  <2>2. /\ Len(workQ) \in Nat \ {0} /\ Len(workQ') = Len(workQ) - 1 /\ Head(workQ) = workQ[1]
        /\ \A i \in 1..Len(workQ') : workQ'[i] = workQ[i + 1]
    BY <1>0, <2>1, HeadTailProperties, EmptySeq
  <2>3. \A i \in 1..Len(workQ') : i + 1 \in 1..Len(workQ) /\ 1 < i + 1
    BY <2>2
  <2>4. \A i, j \in 1..Len(workQ') : i < j /\ workQ'[i] = None => workQ'[j] = None
    <3>1. \A i, j \in 1..Len(workQ') : i < j => i + 1 < j + 1
      BY <2>2
    <3> QED
      BY <2>2, <2>3, <3>1 DEF NothingBehind
  <2>5. CASE Head(workQ) = None
    <3>1. \A i \in 1..Len(workQ') : workQ'[i] = None
      BY <2>2, <2>3, <2>5 DEF NothingBehind
    <3> QED
      BY <2>1, <2>4, <2>5, <3>1 DEF NothingBehind
  <2>6. CASE Head(workQ) # None
    <3>1. exited = {}
      BY <2>2, <2>6 DEF NothingBehind
    <3> QED
      BY <2>1, <2>4, <2>6, <3>1 DEF NothingBehind
  <2> QED
    BY <2>5, <2>6
<1>5. ASSUME NEW w \in Worker, Enrich(w) PROVE NothingBehind'
  <2>1. task' = [task EXCEPT ![w] = None] /\ UNCHANGED <<workQ, exited>>
    BY <1>5, Zenon DEF Enrich
  <2>2. \A v \in exited' : task'[v] = None
    BY <1>0, <2>1 DEF NothingBehind
  <2> QED
    BY <2>1, <2>2 DEF NothingBehind
<1>6. CASE Exit
  BY <1>6, EmptySeq DEF Exit, NothingBehind
<1>7. CASE \/ Start \/ SkipDoneQuery \/ EndQueries \/ BeginQuery \/ CollectDuplicate
           \/ CollectRefused \/ CollectAdmitted \/ EndQuery \/ QueryFails \/ SentinelsPut
           \/ JoinWorkers \/ JoinCommitter \/ WriteXlsx \/ InterruptLoop
           \/ InterruptShutdown \/ CommitterStep \/ UNCHANGED vars
  BY <1>1, <1>7, Zenon DEF Start, SkipDoneQuery, EndQueries, BeginQuery, CollectDuplicate,
     CollectRefused, CollectAdmitted, EndQuery, QueryFails, SentinelsPut, JoinWorkers,
     JoinCommitter, WriteXlsx, InterruptLoop, InterruptShutdown, CommitterStep, TakeDone,
     RefuseRecord, CommitRecord, CommitRaises, Decided, vars
<1> QED
  BY <1>2, <1>3, <1>4, <1>5, <1>6, <1>7 DEF Next, MainStep, WorkerStep, Close, Crash

\* Between sessions nothing is in memory, and nothing runs.
LEMMA EmptyStep == TypeOK /\ Empty /\ [Next]_vars => Empty'
<1> SUFFICES ASSUME TypeOK, Empty, [Next]_vars, pc' = "down" PROVE Empty'
  BY DEF Empty
<1> USE DEF durable, main, workers, commit
<1>1. CASE Exit
  BY <1>1, Zenon DEF Exit, Empty
<1>2. CASE UNCHANGED vars
  BY <1>2 DEF vars, Empty
<1>3. CASE \/ Start \/ SkipDoneQuery \/ EndQueries \/ BeginQuery \/ CollectDuplicate
           \/ CollectRefused \/ CollectAdmitted \/ EndQuery \/ QueryFails \/ SentinelsPut
           \/ JoinWorkers \/ JoinCommitter \/ WriteXlsx \/ InterruptLoop
           \/ InterruptShutdown \/ PutWork \/ PutSentinel
  BY <1>3 DEF Start, SkipDoneQuery, EndQueries, BeginQuery, CollectDuplicate,
     CollectRefused, CollectAdmitted, Yielded, EndQuery, QueryFails, SentinelsPut, JoinWorkers,
     JoinCommitter, WriteXlsx, InterruptLoop, InterruptShutdown, PutWork, PutSentinel,
     BeginShutdown, Stopping
<1>4. ASSUME NEW w \in Worker, TakeTask(w) \/ Enrich(w) PROVE Empty'
  BY <1>4, Zenon DEF TakeTask, Enrich, Empty
<1>5. CASE CommitterStep
  BY <1>5 DEF CommitterStep, TakeDone, RefuseRecord, CommitRecord, CommitRaises, Decided, Empty
<1> QED
  BY <1>1, <1>2, <1>3, <1>4, <1>5 DEF Next, MainStep, WorkerStep, Close, Crash

\* The workers end before the committer is told to.
LEMMA JoinedStep ==
    TypeOK /\ Joined /\ [Next]_vars => Joined'
<1> SUFFICES ASSUME TypeOK, Joined, [Next]_vars PROVE Joined'
  OBVIOUS
<1> USE DEF durable, main, workers, commit
<1>1. ASSUME UNCHANGED <<unsent, exited, abandoned>>,
             pc' \in Filling \cup {"stopping", "joining"} => pc \in Filling \cup {"stopping", "joining"},
             pc' \notin Filling \cup {"stopping"} => pc \notin Filling \cup {"stopping"},
             pc' \in {"draining", "xlsx", "close"} => pc \in {"draining", "xlsx", "close"}
      PROVE  Joined'
  BY <1>1, Zenon DEF Joined
<1>2. CASE EndQueries \/ InterruptLoop \/ PutWork
  BY <1>2 DEF EndQueries, InterruptLoop, PutWork, BeginShutdown, Joined, Filling
<1>3. CASE PutSentinel \/ SentinelsPut
  BY <1>3 DEF PutSentinel, SentinelsPut, Joined, Filling
<1>4. CASE JoinWorkers
  BY <1>4 DEF JoinWorkers, Joined, Filling
<1>5. CASE JoinCommitter \/ WriteXlsx
  BY <1>5 DEF JoinCommitter, WriteXlsx, Joined, Filling
<1>6. CASE InterruptShutdown
  BY <1>6 DEF InterruptShutdown, Joined, Filling, Stopping
<1>7. CASE Exit
  BY <1>7 DEF Exit, Joined, Filling
<1>8. ASSUME NEW w \in Worker, TakeTask(w) PROVE Joined'
  <2>1. /\ UNCHANGED <<pc, unsent, abandoned>> /\ w \notin exited
        /\ exited' = exited \/ exited' = exited \cup {w}
    BY <1>8, Zenon DEF TakeTask
  <2> QED
    BY <1>8, <2>1 DEF Joined
<1>9. ASSUME NEW w \in Worker, Enrich(w) PROVE Joined'
  BY <1>1, <1>9, Zenon DEF Enrich
<1>10. CASE CommitterStep \/ UNCHANGED vars
  BY <1>1, <1>10, Zenon DEF CommitterStep, TakeDone, RefuseRecord, CommitRecord,
     CommitRaises, Decided, vars
<1>11. CASE \/ Start \/ SkipDoneQuery \/ BeginQuery \/ CollectDuplicate \/ CollectRefused
            \/ CollectAdmitted \/ EndQuery \/ QueryFails
  BY <1>1, <1>11 DEF Start, SkipDoneQuery, BeginQuery, CollectDuplicate, CollectRefused,
     CollectAdmitted, Yielded, EndQuery, QueryFails, Filling
<1> QED
  BY <1>2, <1>3, <1>4, <1>5, <1>6, <1>7, <1>8, <1>9, <1>10, <1>11
     DEF Next, MainStep, WorkerStep, Close, Crash

\* The committer's sentinel ends it, after every record.
LEMMA DrainedStep ==
    TypeOK /\ NothingBehind /\ Joined /\ Drained /\ Empty /\ [Next]_vars => Drained'
<1> SUFFICES ASSUME TypeOK, NothingBehind, Joined, Drained, Empty, [Next]_vars PROVE Drained'
  OBVIOUS
<1> USE DEF durable, main, workers, commit
<1>0. /\ doneQ \in Seq(Records) /\ Len(doneQ) \in Nat /\ None \in Records
      /\ task \in [Worker -> Records]
  BY LenProperties DEF TypeOK
<1>1. ASSUME UNCHANGED <<doneQ, committerDone, committing, abandoned>>,
             pc' \in Filling \cup {"stopping", "joining"} => pc \in Filling \cup {"stopping", "joining"},
             pc' \notin {"draining", "xlsx", "close"}
      PROVE  Drained'
  BY <1>1, Zenon DEF Drained
<1>2. CASE JoinWorkers
  <2>1. /\ pc = "joining" /\ pc' = "draining" /\ doneQ' = Append(doneQ, None)
        /\ UNCHANGED <<committerDone, committing>>
    BY <1>2, Zenon DEF JoinWorkers
  <2>2. /\ Len(doneQ') = Len(doneQ) + 1 /\ doneQ'[Len(doneQ) + 1] = None /\ doneQ' # <<>>
        /\ \A i \in 1..Len(doneQ) : doneQ'[i] = doneQ[i]
    BY <1>0, <2>1, AppendProperties
  <2>3. ~committerDone /\ \A i \in 1..Len(doneQ) : doneQ[i] # None
    BY <2>1 DEF Drained
  <2>4. \A i \in 1..Len(doneQ') : doneQ'[i] = None <=> i = Len(doneQ')
    BY <1>0, <2>2, <2>3
  <2> QED
    BY <2>1, <2>2, <2>3, <2>4 DEF Drained, Filling
<1>3. CASE JoinCommitter
  BY <1>3 DEF JoinCommitter, Drained, Filling
<1>4. CASE WriteXlsx
  BY <1>4 DEF WriteXlsx, Drained, Filling
<1>5. CASE InterruptShutdown
  BY <1>5 DEF InterruptShutdown, Drained, Filling, Stopping
<1>6. CASE Exit
  BY <1>6, EmptySeq DEF Exit, Drained, Filling
<1>7. ASSUME NEW w \in Worker, TakeTask(w) PROVE Drained'
  <2>1. UNCHANGED <<pc, doneQ, committerDone, committing, abandoned, written, workbook, committed>>
    BY <1>7, Zenon DEF TakeTask
  <2> QED
    BY <2>1 DEF Drained
<1>8. ASSUME NEW w \in Worker, Enrich(w) PROVE Drained'
  <2>1. /\ doneQ' = Append(doneQ, task[w]) /\ task[w] # None /\ task[w] \in Records
        /\ UNCHANGED <<pc, committerDone, committing, abandoned, written, workbook, committed>>
    BY <1>0, <1>8 DEF Enrich
  <2>2. pc \in {"draining", "xlsx", "close"} => abandoned
    BY <1>8, <2>1 DEF Joined, NothingBehind
  <2>3. /\ Len(doneQ') = Len(doneQ) + 1 /\ doneQ'[Len(doneQ) + 1] = task[w]
        /\ \A i \in 1..Len(doneQ) : doneQ'[i] = doneQ[i]
    BY <1>0, <2>1, AppendProperties
  <2>4. (\A i \in 1..Len(doneQ) : doneQ[i] # None) => \A i \in 1..Len(doneQ') : doneQ'[i] # None
    BY <1>0, <2>1, <2>3
  <2> QED
    BY <2>1, <2>2, <2>4 DEF Drained, Filling
<1>9. CASE TakeDone
  <2>1. /\ doneQ # <<>> /\ doneQ' = Tail(doneQ) /\ ~committerDone /\ committing = None
        /\ \/ Head(doneQ) = None /\ committerDone' /\ committing' = None
           \/ Head(doneQ) # None /\ ~committerDone'
        /\ UNCHANGED <<pc, abandoned, written, workbook, committed>>
    BY <1>9, Zenon DEF TakeDone
  <2>2. /\ Len(doneQ) \in Nat \ {0} /\ Len(doneQ') = Len(doneQ) - 1 /\ Head(doneQ) = doneQ[1]
        /\ \A i \in 1..Len(doneQ') : doneQ'[i] = doneQ[i + 1]
        /\ doneQ' \in Seq(Records)
    BY <1>0, <2>1, HeadTailProperties, EmptySeq
  <2>3. \A i \in 1..Len(doneQ') : i + 1 \in 1..Len(doneQ)
    BY <2>2
  <2>4. (\A i \in 1..Len(doneQ) : doneQ[i] # None) =>
            Head(doneQ) # None /\ \A i \in 1..Len(doneQ') : doneQ'[i] # None
    BY <2>2, <2>3
  <2>5. ASSUME \A i \in 1..Len(doneQ) : doneQ[i] = None <=> i = Len(doneQ)
        PROVE  IF Head(doneQ) = None
               THEN doneQ' = <<>>
               ELSE doneQ' # <<>> /\ \A i \in 1..Len(doneQ') : doneQ'[i] = None <=> i = Len(doneQ')
    <3>1. CASE Head(doneQ) = None
      <4>1. Len(doneQ') = 0
        BY <2>2, <2>5, <3>1
      <4> QED
        BY <2>2, <3>1, <4>1, EmptySeq
    <3>2. CASE Head(doneQ) # None
      <4>1. Len(doneQ) # 1
        BY <2>2, <2>5, <3>2
      <4>2. Len(doneQ') # 0
        BY <2>2, <4>1
      <4>3. \A i \in 1..Len(doneQ') : doneQ'[i] = None <=> i = Len(doneQ')
        BY <2>2, <2>3, <2>5
      <4> QED
        BY <3>2, <4>2, <4>3, EmptySeq
    <3> QED
      BY <3>1, <3>2
  <2> QED
    BY <2>1, <2>4, <2>5 DEF Drained
<1>10. CASE RefuseRecord \/ CommitRecord \/ CommitRaises
  <2>1. ~committerDone /\ committing' = None /\ UNCHANGED <<pc, doneQ, committerDone, abandoned>>
    BY <1>10 DEF RefuseRecord, CommitRecord, CommitRaises, Decided, Drained
  <2> QED
    BY <2>1 DEF Drained
<1>11. CASE \/ Start \/ SkipDoneQuery \/ BeginQuery \/ CollectDuplicate \/ CollectRefused
            \/ CollectAdmitted \/ EndQuery \/ QueryFails \/ PutSentinel \/ SentinelsPut
  BY <1>1, <1>11 DEF Start, SkipDoneQuery, BeginQuery, CollectDuplicate, CollectRefused,
     CollectAdmitted, Yielded, EndQuery, QueryFails, PutSentinel, SentinelsPut, Filling
<1>12. CASE EndQueries \/ PutWork \/ InterruptLoop
  BY <1>1, <1>12 DEF EndQueries, PutWork, InterruptLoop, BeginShutdown, Filling
<1>13. CASE UNCHANGED vars
  BY <1>13 DEF vars, Drained
<1> QED
  BY <1>2, <1>3, <1>4, <1>5, <1>6, <1>7, <1>8, <1>9, <1>10, <1>11, <1>12, <1>13
     DEF Next, MainStep, WorkerStep, CommitterStep, Close, Crash

-----------------------------------------------------------------------------
(* The theorems *)

LEMMA InitInv == Init => IInv
<1> SUFFICES ASSUME Init PROVE IInv
  OBVIOUS
<1> USE DEF Init
<1>1. TypeOK
  <2>1. <<>> \in Seq(Business) /\ <<>> \in Seq(Records) /\ Len(<<>>) = 0
    BY EmptySeq
  <2>2. qi \in 1..Len(Queries) + 1 /\ unsent \in 0..Cardinality(Worker) /\ 0 <= MaxInFlight
    BY ListingAssumption, PoolAssumption, LenProperties, WorkerCount
  <2> QED
    BY <2>1, <2>2 DEF TypeOK, Stopping
<1>2. \A l : Count(<<>>, l) = 0
  <2>1. DOMAIN <<>> = {} /\ IsFiniteSet({})
    BY FS_EmptySet
  <2> QED
    BY <2>1, CountNat
<1>3. NothingLostOrDoubled
  <2> SUFFICES ASSUME NEW l \in Listing PROVE Places(l) = 0
    BY DEF NothingLostOrDoubled
  <2>1. l # None
    BY ListingAssumption
  <2>2. Count(task, l) = 0
    BY <1>1, <2>1, CountTask DEF TypeOK
  <2>3. Count(<<held, committing>>, l) = 0
    BY <2>1, CountPair DEF One
  <2> QED
    BY <1>2, <2>2, <2>3 DEF Places
<1>4. OneLeadPerBusiness /\ LiveOK /\ CommittedSeen
  BY DEF OneLeadPerBusiness, IsInjective, LiveOK, CommittedSeen
<1>5. SentinelsCounted
  BY <1>2, FS_EmptySet DEF SentinelsCounted, Filling
<1>6. QueryOK /\ HeldOK /\ NothingBehind /\ Joined /\ Drained /\ Empty
  BY EmptySeq DEF QueryOK, HeldOK, NothingBehind, Joined, Drained, Empty, Filling
<1> QED
  BY <1>1, <1>3, <1>4, <1>5, <1>6 DEF IInv

LEMMA NextInv == IInv /\ [Next]_vars => IInv'
<1> SUFFICES ASSUME IInv, [Next]_vars PROVE IInv'
  OBVIOUS
<1> USE DEF IInv
<1>1. TypeOK'
  BY TypeStep
<1>2. QueryOK' /\ HeldOK'
  BY MainThreadStep
<1>3. NothingLostOrDoubled'
  BY <1>1, PlacesStep
<1>4. OneLeadPerBusiness' /\ LiveOK' /\ CommittedSeen'
  BY ResolverStep
<1>5. SentinelsCounted' /\ NothingBehind'
  BY <1>1, SentinelsStep, BehindStep
<1>6. Joined' /\ Drained' /\ Empty'
  BY JoinedStep, DrainedStep, EmptyStep
<1> QED
  BY <1>1, <1>2, <1>3, <1>4, <1>5, <1>6

(***************************************************************************)
(* The invariant of a campaign, over all its sessions.                      *)
(***************************************************************************)
THEOREM Invariance == Spec => []IInv
BY InitInv, NextInv, PTL DEF Spec

(***************************************************************************)
(* The variables keep their types; in particular the work queue stays       *)
(* within max_in_flight and no sentinel too many is ever owed.              *)
(***************************************************************************)
THEOREM TypeCorrect == Spec => []TypeOK
<1>1. IInv => TypeOK
  BY DEF IInv
<1> QED
  BY <1>1, Invariance, PTL

(***************************************************************************)
(* From its collection to its decision every record is in exactly one       *)
(* place, however threads interleave and whatever fails.                    *)
(***************************************************************************)
THEOREM RecordsConserved == Spec => []NothingLostOrDoubled
<1>1. IInv => NothingLostOrDoubled
  BY DEF IInv
<1> QED
  BY <1>1, Invariance, PTL

(***************************************************************************)
(* Over any number of sessions and crashes a business gets one lead.        *)
(***************************************************************************)
THEOREM LeadsUnique == Spec => []OneLeadPerBusiness
<1>1. IInv => OneLeadPerBusiness
  BY DEF IInv
<1> QED
  BY <1>1, Invariance, PTL

\* When both joins succeeded, no place can hold a record any more.
LEMMA InvDrained == IInv => DrainedBeforeFinish
<1> SUFFICES ASSUME IInv, pc \in {"xlsx", "close"}, ~abandoned PROVE live = {}
  BY Zenon DEF DrainedBeforeFinish, IInv, Drained
<1> USE DEF IInv
<1>1. /\ pc \notin Filling /\ exited = Worker /\ unsent = 0
      /\ committerDone /\ committing = None /\ doneQ = <<>>
  BY DEF Joined, Drained, Filling
<1>2. held = None /\ \A w \in Worker : task[w] = None
  BY <1>1 DEF HeldOK, NothingBehind
<1>3. Count(workQ, None) = 0
  BY <1>1, SentinelTypes, WorkerCount DEF SentinelsCounted
<1>4. workQ = <<>>
  <2>1. workQ \in Seq(Records) /\ DOMAIN workQ = 1..Len(workQ) /\ Len(workQ) \in Nat
        /\ IsFiniteSet(DOMAIN workQ)
    BY SeqDomainFinite DEF TypeOK
  <2>2. \A i \in 1..Len(workQ) : workQ[i] # None
    BY <1>3, <2>1, CountNat
  <2>3. \A i \in 1..Len(workQ) : workQ[i] = None
    BY <1>1, PoolAssumption DEF NothingBehind
  <2>4. Len(workQ) = 0
    BY <2>1, <2>2, <2>3
  <2> QED
    BY <2>1, <2>4, EmptySeq
<1>5. ASSUME NEW l \in Listing PROVE Places(l) = 0
  <2>1. l # None
    BY ListingAssumption
  <2>2. Count(<<held, committing>>, l) = 0
    BY <1>1, <1>2, <2>1, CountPair DEF One
  <2>3. Count(task, l) = 0
    BY <1>2, <2>1, CountTask DEF TypeOK
  <2>4. Count(workQ, l) = 0 /\ Count(doneQ, l) = 0
    <3>1. DOMAIN <<>> = {} /\ IsFiniteSet({})
      BY FS_EmptySet
    <3> QED
      BY <1>1, <1>4, <3>1, CountNat
  <2> QED
    BY <2>2, <2>3, <2>4 DEF Places
<1> QED
  BY <1>5 DEF NothingLostOrDoubled, TypeOK

(***************************************************************************)
(* A run that waited for its threads has decided every record before it     *)
(* writes the workbook, and ends with every committed lead in it.           *)
(***************************************************************************)
THEOREM ShutdownDrains == Spec => []DrainedBeforeFinish
BY InvDrained, Invariance, PTL

-----------------------------------------------------------------------------
(* Done queries, when only the collector may fail *)

\* A business the campaign has decided about, or is about to.
Resolved(b) == b \in Range(committed) \cup refused \cup {BusinessOf[l] : l \in live}

\* What the main thread may count on when it marks a query done: the resolver
\* turns a listing away only for a record that is committed or under way.
Accounted ==
    /\ ~abandoned
    /\ \A b \in seen : Resolved(b)
    /\ \A q \in Query : status[q] = "done" =>
          \A i \in 1..Len(Results[q]) : Resolved(BusinessOf[Results[q][i]])
    /\ pc \in {"collect", "put"} =>
          \A i \in 1..taken : Resolved(BusinessOf[Results[Queries[qi]][i]])

OnlyCollectErrors == Faults \subseteq {"collect_error"}

\* Without crashes and lost commits, nothing resolved is forgotten in a step.
LEMMA ResolvedStays ==
    ASSUME OnlyCollectErrors, IInv, Accounted, [Next]_vars, NEW b, Resolved(b)
    PROVE  Resolved(b)'
<1> USE DEF durable, main, workers, commit, Resolved
<1>1. ASSUME UNCHANGED <<committed, refused, live>> PROVE Resolved(b)'
  BY <1>1
<1>2. CASE CollectAdmitted
  BY <1>2 DEF CollectAdmitted
<1>3. CASE CollectRefused
  BY <1>3 DEF CollectRefused
<1>4. CASE Close
  <2>1. live = {} /\ UNCHANGED durable
    BY <1>4, InvDrained DEF Close, Exit, DrainedBeforeFinish, Accounted
  <2> QED
    BY <2>1
<1>5. CASE RefuseRecord
  BY <1>5 DEF RefuseRecord, Decided
<1>6. CASE CommitRecord
  <2>1. committed' = Append(committed, BusinessOf[committing])
        /\ refused' = refused /\ live' = live \ {committing}
    BY <1>6, Zenon DEF CommitRecord, Decided
  <2>2. committed \in Seq(Business) /\ BusinessOf[committing] \in Business
    BY <1>6, InHandsLive DEF IInv, TypeOK, CommitRecord, Decided, Business
  <2>3. Range(committed)' = Range(committed) \cup {BusinessOf[committing]}
    BY <2>1, <2>2, AppendRange, ZenonT(40)
  <2> QED
    BY <2>1, <2>3
<1>7. ~InterruptLoop /\ ~InterruptShutdown /\ ~Crash /\ ~CommitRaises
  BY DEF OnlyCollectErrors, InterruptLoop, InterruptShutdown, Crash, CommitRaises
<1>8. ASSUME NEW w \in Worker, TakeTask(w) \/ Enrich(w) PROVE Resolved(b)'
  BY <1>1, <1>8, Zenon DEF TakeTask, Enrich
<1>9. CASE \/ Start \/ SkipDoneQuery \/ EndQueries \/ BeginQuery \/ CollectDuplicate
           \/ PutWork \/ EndQuery \/ QueryFails \/ PutSentinel \/ SentinelsPut
           \/ JoinWorkers \/ JoinCommitter \/ WriteXlsx \/ TakeDone \/ UNCHANGED vars
  BY <1>1, <1>9, Zenon DEF Start, SkipDoneQuery, EndQueries, BeginQuery, CollectDuplicate,
     PutWork, EndQuery, QueryFails, PutSentinel, SentinelsPut, JoinWorkers, JoinCommitter,
     WriteXlsx, TakeDone, vars
<1> QED
  BY <1>2, <1>3, <1>4, <1>5, <1>6, <1>7, <1>8, <1>9
     DEF Next, MainStep, WorkerStep, CommitterStep

\* What a step must show when it leaves the status table and the query alone.
LEMMA AccountedStays ==
    ASSUME OnlyCollectErrors, IInv, Accounted, [Next]_vars,
           ~abandoned', UNCHANGED status,
           \A b \in seen' : Resolved(b) \/ Resolved(b)',
           pc' \in {"collect", "put"} =>
              pc \in {"collect", "put"} /\ UNCHANGED <<qi, taken>>
    PROVE  Accounted'
<1>1. \A b : Resolved(b) => Resolved(b)'
  BY ResolvedStays
<1> QED
  BY <1>1 DEF Accounted

LEMMA AccountedStep == OnlyCollectErrors /\ IInv /\ Accounted /\ [Next]_vars => Accounted'
<1> SUFFICES ASSUME OnlyCollectErrors, IInv, Accounted, [Next]_vars PROVE Accounted'
  OBVIOUS
<1> USE DEF durable, main, workers, commit
<1>1. \A b : Resolved(b) => Resolved(b)'
  BY ResolvedStays
<1>2. /\ qi \in Nat \ {0} /\ taken \in Nat /\ ~abandoned
      /\ \A b \in seen : Resolved(b)
      /\ \A i \in 1..Len(Queries) : Queries[i] \in Query
      /\ \A q \in Query : Len(Results[q]) \in Nat
      /\ status \in [Query -> {"absent", "pending", "done"}]
  BY ListingAssumption, LenProperties, ElementOfSeq DEF IInv, TypeOK, Accounted
<1>3. CASE Start
  <2>1. \A b \in seen' : Resolved(b)
    BY <1>3 DEF Start, Resolved
  <2> QED
    BY <1>2, <1>3, <2>1, AccountedStays DEF Start
<1>4. CASE BeginQuery
  <2>1. /\ taken' = 0 /\ UNCHANGED <<seen, abandoned>>
        /\ \A q \in Query : status'[q] = "done" => status[q] = "done"
    BY <1>2, <1>4 DEF BeginQuery
  <2> QED
    BY <1>1, <1>2, <2>1 DEF Accounted
<1>5. CASE Yielded /\ (CollectDuplicate \/ CollectRefused \/ CollectAdmitted)
  <2> PICK b : b = BusinessOf[NextListing]
    OBVIOUS
  <2>1. /\ taken' = taken + 1 /\ UNCHANGED <<qi, status, abandoned>> /\ pc = "collect"
        /\ seen' \subseteq seen \cup {b}
    BY <1>5 DEF Yielded, CollectDuplicate, CollectRefused, CollectAdmitted
  <2>2. Resolved(b)'
    <3>1. CASE CollectDuplicate
      BY <1>1, <1>2, <3>1 DEF CollectDuplicate
    <3>2. CASE CollectRefused
      BY <3>2 DEF CollectRefused, Resolved
    <3>3. CASE CollectAdmitted
      BY <3>3 DEF CollectAdmitted, Resolved
    <3> QED
      BY <1>5, <3>1, <3>2, <3>3
  <2>3. \A i \in 1..taken' : i \in 1..taken \/ i = taken + 1
    BY <1>2, <2>1
  <2>4. \A i \in 1..taken' : Resolved(BusinessOf[Results[Queries[qi]][i]])'
    BY <1>1, <2>1, <2>2, <2>3 DEF Accounted, NextListing
  <2> QED
    BY <1>1, <1>2, <2>1, <2>2, <2>4 DEF Accounted
<1>6. CASE EndQuery
  <2>1. /\ pc = "collect" /\ pc' = "next" /\ taken = Len(Results[Queries[qi]])
        /\ status' = [status EXCEPT ![Queries[qi]] = "done"]
        /\ UNCHANGED <<seen, abandoned>>
    BY <1>6, Zenon DEF EndQuery
  <2>2. \A q \in Query : status'[q] = "done" => status[q] = "done" \/ q = Queries[qi]
    BY <1>2, <2>1
  <2>3. \A i \in 1..Len(Results[Queries[qi]]) : Resolved(BusinessOf[Results[Queries[qi]][i]])
    BY <2>1 DEF Accounted
  <2>4. \A q \in Query : status'[q] = "done" =>
            \A i \in 1..Len(Results[q]) : Resolved(BusinessOf[Results[q][i]])'
    BY <1>1, <2>2, <2>3 DEF Accounted
  <2> QED
    BY <1>1, <1>2, <2>1, <2>4 DEF Accounted
<1>7. CASE QueryFails
  <2>1. /\ pc' = "next" /\ UNCHANGED <<seen, abandoned>>
        /\ \A q \in Query : status'[q] = "done" => status[q] = "done"
    BY <1>2, <1>7 DEF QueryFails
  <2> QED
    BY <1>1, <1>2, <2>1 DEF Accounted
<1>8. CASE Close
  BY <1>1, <1>8 DEF Close, Exit, Accounted
<1>9. CASE EndQueries \/ PutWork
  <2>1. /\ UNCHANGED <<abandoned, seen, status, qi, taken>>
        /\ pc' \in {"collect", "put"} => pc \in {"collect", "put"}
    BY <1>9 DEF EndQueries, PutWork, BeginShutdown
  <2> QED
    BY <1>2, <2>1, AccountedStays
<1>10. CASE SkipDoneQuery \/ PutSentinel \/ SentinelsPut \/ WriteXlsx
  <2>1. /\ UNCHANGED <<abandoned, seen, status>> /\ pc' \notin {"collect", "put"}
    BY <1>10 DEF SkipDoneQuery, PutSentinel, SentinelsPut, WriteXlsx
  <2> QED
    BY <1>2, <2>1, AccountedStays
<1>11. CASE JoinWorkers \/ JoinCommitter
  <2>1. /\ UNCHANGED <<abandoned, seen, status>> /\ pc' \notin {"collect", "put"}
    BY <1>11 DEF OnlyCollectErrors, JoinWorkers, JoinCommitter
  <2> QED
    BY <1>2, <2>1, AccountedStays
<1>12. CASE CommitterStep
  <2>1. /\ UNCHANGED <<abandoned, status, pc, qi, taken>> /\ seen' \subseteq seen
    BY <1>12 DEF CommitterStep, TakeDone, RefuseRecord, CommitRecord, CommitRaises
  <2> QED
    BY <1>2, <2>1, AccountedStays
<1>13. ASSUME NEW w \in Worker, TakeTask(w) \/ Enrich(w) PROVE Accounted'
  <2>1. UNCHANGED <<abandoned, status, pc, qi, taken, seen>>
    BY <1>13, Zenon DEF TakeTask, Enrich
  <2> QED
    BY <1>2, <2>1, AccountedStays
<1>14. CASE UNCHANGED vars
  BY <1>2, <1>14, AccountedStays DEF vars
<1>15. ~InterruptLoop /\ ~InterruptShutdown /\ ~Crash
  BY DEF OnlyCollectErrors, InterruptLoop, InterruptShutdown, Crash
<1> QED
  BY <1>3, <1>4, <1>5, <1>6, <1>7, <1>8, <1>9, <1>10, <1>11, <1>12, <1>13, <1>14, <1>15
     DEF Next, MainStep, WorkerStep, CollectDuplicate, CollectRefused, CollectAdmitted

(***************************************************************************)
(* When the only faults are failures of the collector, a query the          *)
(* checkpoint calls done may be skipped by the next session: each of its    *)
(* businesses was committed or refused.  (With crashes, interrupts, missed  *)
(* deadlines or failed commits it need not have been.)                      *)
(***************************************************************************)
THEOREM DoneQueriesSkippable == OnlyCollectErrors /\ Spec => []DoneQueriesResolved
<1> SUFFICES ASSUME OnlyCollectErrors PROVE Spec => []DoneQueriesResolved
  OBVIOUS
<1>1. Init => Accounted
  BY DEF Init, Accounted
<1>2. IInv /\ Accounted => DoneQueriesResolved
  <2> SUFFICES ASSUME IInv, Accounted, pc = "down",
                      NEW q \in Query, status[q] = "done", NEW l \in Range(Results[q])
               PROVE  BusinessOf[l] \in Range(committed) \cup refused
    BY DEF DoneQueriesResolved
  <2>1. live = {}
    BY DEF IInv, Empty
  <2>2. PICK i \in 1..Len(Results[q]) : l = Results[q][i]
    BY ListingAssumption, RangeEquality
  <2> QED
    BY <2>1, <2>2 DEF Accounted, Resolved
<1>3. IInv /\ Accounted /\ [Next]_vars => Accounted'
  BY AccountedStep
<1> QED
  BY <1>1, <1>2, <1>3, Invariance, PTL DEF Spec

-----------------------------------------------------------------------------
(* The run implements Campaign *)

\* The query that is being asked is not done.
QueryOpen == pc \in {"collect", "put"} => status[Queries[qi]] # "done"

Claimed == {BusinessOf[l] : l \in live}
Done == {q \in Query : status[q] = "done"}

\* What the run promises is a matter of these variables alone.
LEMMA LedgerStutters ==
    ASSUME UNCHANGED <<committed, refused, workbook, live, status>>, Phase' = Phase
    PROVE  UNCHANGED Ledger!vars
BY DEF Ledger!vars

\* While it collects, the current query is one of the campaign's.
LEMMA CurrentQuery ==
    ASSUME TypeOK, QueryOK, pc \in {"collect", "put"}
    PROVE  Queries[qi] \in Query
BY ListingAssumption, ElementOfSeq DEF QueryOK

\* Setting a query that is not done to something else than done changes nothing.
LEMMA DoneKept ==
    ASSUME TypeOK, NEW q \in Query, NEW s, s # "done", status[q] # "done",
           status' = [status EXCEPT ![q] = s]
    PROVE  Done' = Done
BY DEF TypeOK, Done

LEMMA QueryOpenStep == TypeOK /\ QueryOK /\ QueryOpen /\ [Next]_vars => QueryOpen'
<1> SUFFICES ASSUME TypeOK, QueryOK, QueryOpen, [Next]_vars PROVE QueryOpen'
  OBVIOUS
<1>1. CASE UNCHANGED <<pc, qi, status>>
  BY <1>1 DEF QueryOpen
<1>2. CASE pc' \notin {"collect", "put"}
  BY <1>2 DEF QueryOpen
<1>3. CASE pc \in {"collect", "put"} /\ UNCHANGED <<qi, status>>
  BY <1>3 DEF QueryOpen
<1>4. CASE BeginQuery
  <2>1. qi \in 1..Len(Queries)
    BY <1>4, ListingAssumption, LenProperties DEF BeginQuery, TypeOK
  <2>2. Queries[qi] \in Query
    BY <2>1, ListingAssumption, ElementOfSeq
  <2>3. status[Queries[qi]] # "done" /\ qi' = qi /\ status \in [Query -> {"absent", "pending", "done"}]
        /\ status' = [status EXCEPT ![Queries[qi]] = IF @ = "absent" THEN "pending" ELSE @]
    BY <1>4 DEF BeginQuery, TypeOK
  <2>4. status'[Queries[qi]] # "done"
    BY <2>2, <2>3
  <2> QED
    BY <2>3, <2>4 DEF QueryOpen
<1>5. CASE MainStep /\ ~BeginQuery
  <2>1. CASE PutWork
    BY <2>1, <1>2, <1>3 DEF PutWork, BeginShutdown, durable
  <2>2. CASE CollectDuplicate \/ CollectRefused \/ CollectAdmitted
    BY <2>2, <1>3, Zenon DEF CollectDuplicate, CollectRefused, CollectAdmitted, Yielded, durable
  <2>3. CASE ~PutWork /\ ~CollectDuplicate /\ ~CollectRefused /\ ~CollectAdmitted
    <3>1. pc' \notin {"collect", "put"}
      BY <1>5, <2>3 DEF MainStep, SkipDoneQuery, EndQueries, BeginShutdown, EndQuery,
            QueryFails, PutSentinel, SentinelsPut, JoinWorkers, JoinCommitter, WriteXlsx,
            Close, Exit
    <3> QED
      BY <3>1, <1>2
  <2> QED
    BY <2>1, <2>2, <2>3
<1>6. CASE Start \/ InterruptLoop \/ InterruptShutdown \/ Crash
  BY <1>6, <1>2 DEF Start, InterruptLoop, BeginShutdown, InterruptShutdown, Crash, Exit
<1>7. CASE CommitterStep \/ \E w \in Worker : WorkerStep(w)
  BY <1>7, <1>1, Zenon DEF CommitterStep, TakeDone, RefuseRecord, CommitRecord, CommitRaises,
        WorkerStep, TakeTask, Enrich, durable, main
<1>8. CASE UNCHANGED vars
  BY <1>8, <1>1 DEF vars, durable, main
<1> QED
  BY <1>4, <1>5, <1>6, <1>7, <1>8 DEF Next

\* Campaign takes Range from the same place.
LEMMA SameRange == \A f : Ledger!Range(f) = Range(f)
BY DEF Ledger!Range, Range

\* The claim of a record ends with it: no other is for its business.
LEMMA ClaimEnds ==
    ASSUME LiveOK, NEW l \in live, live' = live \ {l}
    PROVE  BusinessOf[l] \in Claimed /\ Claimed' = Claimed \ {BusinessOf[l]}
BY DEF LiveOK, Claimed

\* A new record is for a business that is no lead and not claimed.
LEMMA NewlyFound ==
    ASSUME IInv, Yielded, BusinessOf[NextListing] \notin seen
    PROVE  /\ Phase = "collecting" /\ BusinessOf[NextListing] \in Business
           /\ BusinessOf[NextListing] \notin Range(committed) \cup Claimed
<1>1. BusinessOf[NextListing] \in Business
  BY NextListingType DEF IInv
<1>2. pc = "collect"
  BY DEF Yielded
<1> HIDE DEF NextListing
<1> QED
  BY <1>1, <1>2 DEF IInv, CommittedSeen, LiveOK, Claimed, Phase

\* Every step of the run is a step of the campaign, or none.
LEMMA LedgerStep == IInv /\ QueryOpen /\ [Next]_vars => [Ledger!Next]_(Ledger!vars)
<1> SUFFICES ASSUME IInv, QueryOpen, [Next]_vars PROVE [Ledger!Next]_(Ledger!vars)
  OBVIOUS
<1> DEFINE kept == <<committed, refused, workbook, live, status>>
<1>0. TypeOK /\ QueryOK /\ LiveOK
  BY DEF IInv
<1>1. CASE UNCHANGED vars
  BY <1>1, LedgerStutters DEF vars, durable, main, Phase
<1>2. CASE Start
  <2>1. UNCHANGED kept /\ Phase = "stopped" /\ Phase' = "collecting"
    BY <1>2 DEF Start, Phase, durable
  <2> QED
    BY <2>1 DEF Ledger!Next, Ledger!Begin
<1>3. CASE SkipDoneQuery \/ CollectDuplicate
  <2>1. UNCHANGED kept /\ UNCHANGED <<pc, abandoned, written>>
    BY <1>3 DEF SkipDoneQuery, CollectDuplicate, Yielded, durable
  <2> QED
    BY <2>1, LedgerStutters DEF Phase
<1>4. CASE EndQueries
  <2>1. UNCHANGED kept /\ Phase = "collecting" /\ Phase' = "closing"
    BY <1>4 DEF EndQueries, BeginShutdown, Phase, durable
  <2> QED
    BY <2>1 DEF Ledger!Next, Ledger!EndCollecting
<1>5. CASE BeginQuery
  <2>1. qi \in 1..Len(Queries)
    BY <1>5, ListingAssumption, LenProperties DEF BeginQuery, IInv, TypeOK
  <2>2. Queries[qi] \in Query
    BY <2>1, ListingAssumption, ElementOfSeq
  <2>3. /\ status[Queries[qi]] # "done"
        /\ status' = [status EXCEPT ![Queries[qi]] = IF @ = "absent" THEN "pending" ELSE @]
        /\ UNCHANGED <<committed, refused, workbook, live>>
        /\ Phase = "collecting" /\ Phase' = "collecting"
    BY <1>5 DEF BeginQuery, Phase
  <2> DEFINE s == IF status[Queries[qi]] = "absent" THEN "pending" ELSE status[Queries[qi]]
  <2>4. s # "done" /\ status' = [status EXCEPT ![Queries[qi]] = s]
    BY <2>3
  <2> HIDE DEF s
  <2>5. Done' = Done
    BY <1>0, <2>2, <2>3, <2>4, DoneKept
  <2> QED
    BY <2>3, <2>5 DEF Ledger!vars, Done
<1>6. CASE CollectRefused
  <2> DEFINE b == BusinessOf[NextListing]
  <2>1. /\ Phase = "collecting" /\ b \in Business /\ b \notin Range(committed) \cup Claimed
    BY <1>6, NewlyFound DEF CollectRefused
  <2>2. /\ refused' = refused \cup {b}
        /\ UNCHANGED <<committed, workbook, live, status>> /\ Phase' = Phase
    BY <1>6, Zenon DEF CollectRefused, Phase
  <2> HIDE DEF b
  <2>3. Ledger!Reject(b)
    BY <2>1, <2>2, SameRange DEF Ledger!Reject, Ledger!Found, Claimed
  <2> QED
    BY <2>1, <2>3 DEF Ledger!Next
<1>7. CASE CollectAdmitted
  <2> DEFINE l == NextListing
             b == BusinessOf[l]
  <2>1. Phase = "collecting" /\ b \in Business /\ b \notin Range(committed) \cup Claimed
    BY <1>7, NewlyFound DEF CollectAdmitted
  <2>2. live' = live \cup {l} /\ UNCHANGED <<committed, refused, workbook, status>>
    BY <1>7, Zenon DEF CollectAdmitted, durable
  <2>3. Phase' = "collecting"
    BY <1>7 DEF CollectAdmitted, Phase
  <2> HIDE DEF l
  <2>4. Claimed' = Claimed \cup {b}
    BY <2>2 DEF Claimed
  <2> HIDE DEF b
  <2>5. Ledger!Claim(b)
    BY <2>1, <2>2, <2>3, <2>4, SameRange DEF Ledger!Claim, Ledger!Found, Claimed
  <2> QED
    BY <2>1, <2>5 DEF Ledger!Next, Ledger!Claim
<1>8. CASE PutWork
  <2>1. UNCHANGED kept /\ Phase = "collecting"
    BY <1>8 DEF PutWork, Phase, durable
  <2>2. Phase' = "collecting" \/ Phase' = "closing"
    BY <1>8 DEF PutWork, BeginShutdown, Phase
  <2>3. CASE Phase' = "collecting"
    BY <2>1, <2>3, LedgerStutters
  <2>4. CASE Phase' = "closing"
    BY <2>1, <2>4 DEF Ledger!Next, Ledger!EndCollecting
  <2> QED
    BY <2>2, <2>3, <2>4
<1>9. CASE EndQuery
  <2> DEFINE q == Queries[qi]
  <2>1. q \in Query /\ Phase = "collecting" /\ Phase' = "collecting"
    BY <1>0, <1>9, CurrentQuery DEF EndQuery, Phase
  <2>2. /\ status' = [status EXCEPT ![q] = "done"]
        /\ UNCHANGED <<committed, refused, workbook, live>>
    BY <1>9 DEF EndQuery
  <2> HIDE DEF q
  <2>3. Done' = Done \cup {q}
    BY <1>0, <2>1, <2>2 DEF TypeOK, Done
  <2>4. Ledger!MarkDone(q)
    BY <2>1, <2>2, <2>3 DEF Ledger!MarkDone, Done
  <2> QED
    BY <2>1, <2>4 DEF Ledger!Next, Ledger!MarkDone
<1>10. CASE QueryFails
  <2>1. /\ Queries[qi] \in Query /\ status[Queries[qi]] # "done" /\ Phase' = Phase
    BY <1>0, <1>10, CurrentQuery DEF QueryFails, QueryOpen, Phase
  <2>2. /\ status' = [status EXCEPT ![Queries[qi]] = "pending"]
        /\ UNCHANGED <<committed, refused, workbook, live>>
    BY <1>10 DEF QueryFails
  <2>3. Done' = Done
    BY <1>0, <2>1, <2>2, DoneKept
  <2> QED
    BY <2>1, <2>2, <2>3 DEF Ledger!vars, Done
<1>11. CASE PutSentinel \/ SentinelsPut \/ JoinWorkers \/ JoinCommitter
  <2>1. UNCHANGED kept /\ Phase = "closing" /\ Phase' = "closing"
    BY <1>11 DEF PutSentinel, SentinelsPut, JoinWorkers, JoinCommitter, Phase, durable
  <2> QED
    BY <2>1, LedgerStutters
<1>12. CASE WriteXlsx
  <2>1. /\ pc = "xlsx" /\ pc' = "close" /\ UNCHANGED abandoned
        /\ UNCHANGED <<committed, refused, live, status>>
    BY <1>12 DEF WriteXlsx
  <2>2. Phase = "closing" /\ Phase' = IF ~abandoned /\ written' THEN "reported" ELSE "closing"
    BY <2>1 DEF Phase
  <2>3. ~abandoned => live = {}
    BY <2>1, InvDrained DEF DrainedBeforeFinish
  <2>4. CASE workbook' = Range(committed) /\ written' = TRUE
    <3>1. Ledger!Report
      BY <2>1, <2>2, <2>3, <2>4, SameRange DEF Ledger!Report
    <3> QED
      BY <3>1 DEF Ledger!Next
  <2>5. CASE workbook' \in {workbook, {}} /\ written' = FALSE
    <3>1. Ledger!LoseReport
      BY <2>1, <2>2, <2>5 DEF Ledger!LoseReport
    <3> QED
      BY <3>1 DEF Ledger!Next
  <2> QED
    BY <1>12, <2>4, <2>5 DEF WriteXlsx
<1>13. CASE Close \/ Crash
  <2>1. /\ Phase # "stopped" /\ Phase' = "stopped" /\ live' = {}
        /\ UNCHANGED <<committed, refused, status>>
    BY <1>13 DEF Close, Crash, Exit, Phase, durable
  <2>3. UNCHANGED workbook \/ (Phase = "closing" /\ workbook' = {})
    BY <1>13 DEF Close, Crash, WorkbookLeft, Phase, durable
  <2>2. Ledger!Stop
    BY <2>1, <2>3 DEF Ledger!Stop
  <2> QED
    BY <2>2 DEF Ledger!Next
<1>14. CASE InterruptLoop
  <2>1. /\ Phase = "collecting" /\ Phase' = "closing" /\ live' = live \ {held}
        /\ UNCHANGED <<committed, refused, workbook, status>>
    BY <1>14 DEF InterruptLoop, BeginShutdown, Phase, durable
  <2>2. CASE held = None
    <3>1. live' = live
      BY <1>0, <2>1, <2>2, ListingAssumption DEF TypeOK
    <3> QED
      BY <2>1, <3>1 DEF Ledger!Next, Ledger!EndCollecting
  <2>3. CASE held # None
    <3> DEFINE b == BusinessOf[held]
    <3>1. held \in live /\ live \subseteq Listing
      BY <2>3, InHandsLive DEF IInv, TypeOK
    <3>2. b \in Business /\ b \in Claimed /\ Claimed' = Claimed \ {b}
      BY <1>0, <2>1, <3>1, ClaimEnds DEF Business
    <3> HIDE DEF b
    <3>3. Ledger!EndCollecting
      BY <2>1, <3>2 DEF Ledger!EndCollecting, Ledger!Settle, Claimed
    <3> QED
      BY <3>3 DEF Ledger!Next
  <2> QED
    BY <2>2, <2>3
<1>15. CASE InterruptShutdown
  <2>1. /\ UNCHANGED <<committed, refused, live, status>>
        /\ Phase = "closing" /\ Phase' = "closing"
        /\ workbook' \in {workbook, {}}
    BY <1>15 DEF InterruptShutdown, WorkbookLeft, Phase, Stopping
  <2>2. Ledger!LoseReport
    BY <2>1 DEF Ledger!LoseReport
  <2> QED
    BY <2>2 DEF Ledger!Next
<1>16. CASE TakeDone \/ \E w \in Worker : WorkerStep(w)
  <2>1. UNCHANGED kept /\ UNCHANGED <<pc, abandoned, written>>
    BY <1>16, Zenon DEF TakeDone, WorkerStep, TakeTask, Enrich, durable, main
  <2> QED
    BY <2>1, LedgerStutters DEF Phase
<1>17. CASE RefuseRecord \/ CommitRecord \/ CommitRaises
  <2> DEFINE b == BusinessOf[committing]
  <2>1. committing # None /\ live' = live \ {committing}
    BY <1>17 DEF RefuseRecord, CommitRecord, CommitRaises, Decided
  <2>2. committing \in live /\ live \subseteq Listing
    BY <2>1, InHandsLive DEF IInv, TypeOK
  <2>3. b \in Business /\ b \in Claimed /\ Claimed' = Claimed \ {b}
    BY <1>0, <2>1, <2>2, ClaimEnds DEF Business
  <2>0. UNCHANGED <<pc, abandoned, written, status, workbook>>
    BY <1>17, Zenon DEF RefuseRecord, CommitRecord, CommitRaises, main, durable
  <2>4. Phase' = Phase
    BY <2>0 DEF Phase
  <2>5. \/ refused' = refused \cup {b} /\ UNCHANGED committed
        \/ committed' = Append(committed, b) /\ UNCHANGED refused
        \/ UNCHANGED <<committed, refused>>
    BY <1>17, Zenon DEF RefuseRecord, CommitRecord, CommitRaises, durable
  <2> HIDE DEF b
  <2>6. CASE refused' = refused \cup {b} /\ UNCHANGED committed
    <3>1. Ledger!Refuse(b)
      BY <2>0, <2>3, <2>4, <2>6 DEF Ledger!Refuse, Ledger!Settle, Claimed
    <3> QED
      BY <2>3, <3>1 DEF Ledger!Next, Ledger!Refuse, Ledger!Settle
  <2>7. CASE committed' = Append(committed, b) /\ UNCHANGED refused
    <3>1. Ledger!Export(b)
      BY <2>0, <2>3, <2>4, <2>7 DEF Ledger!Export, Ledger!Settle, Claimed
    <3> QED
      BY <2>3, <3>1 DEF Ledger!Next, Ledger!Export, Ledger!Settle
  <2>8. CASE UNCHANGED <<committed, refused>>
    <3>1. Ledger!Fail(b)
      BY <2>0, <2>3, <2>4, <2>8 DEF Ledger!Fail, Ledger!Settle, Claimed
    <3> QED
      BY <2>3, <3>1 DEF Ledger!Next, Ledger!Fail, Ledger!Settle
  <2> QED
    BY <2>5, <2>6, <2>7, <2>8
<1> QED
  BY <1>1, <1>2, <1>3, <1>4, <1>5, <1>6, <1>7, <1>8, <1>9, <1>10, <1>11, <1>12, <1>13,
     <1>14, <1>15, <1>16, <1>17 DEF Next, MainStep, CommitterStep

(***************************************************************************)
(* The threads, queues and sentinels of any number of sessions do for the   *)
(* businesses what Campaign says: one claim at a time, one lead, queries    *)
(* done for good, and a report of every lead when the shutdown was complete *)
(* (pipeline.py:362-637).                                                   *)
(***************************************************************************)
THEOREM ImplementsCampaign == Spec => CampaignSpec
<1>1. Init => Ledger!Init /\ QueryOpen
  BY DEF Init, Ledger!Init, Phase, QueryOpen
<1>2. IInv /\ QueryOpen /\ [Next]_vars => QueryOpen'
  BY QueryOpenStep DEF IInv
<1> QED
  BY <1>1, <1>2, LedgerStep, Invariance, PTL DEF Spec, CampaignSpec, Ledger!Spec

-----------------------------------------------------------------------------
(* Every session comes to its end: the safety part *)

\* How many listings the current query yields.
Current == Len(Results[Queries[qi]])

TakenOK == pc \in {"collect", "put"} => taken \in 0..Current

\* While the committer is joined, its sentinel is on its way or has arrived.
SentinelWaits ==
    pc = "draining" => committerDone \/ \E i \in 1..Len(doneQ) : doneQ[i] = None

(***************************************************************************)
(* The guards of the three kinds of threads: what each waits for.  The main *)
(* thread waits for room in the queue and in the two joins (whose deadline  *)
(* is not counted on), a worker and the committer for something to take.    *)
(***************************************************************************)
MainReady ==
    \/ pc \in {"next", "xlsx", "close"}
    \/ pc = "collect" /\ taken <= Current
    \/ pc = "put" /\ Len(workQ) < MaxInFlight
    \/ pc = "stopping" /\ (unsent = 0 \/ Len(workQ) < MaxInFlight)
    \/ pc = "joining" /\ exited = Worker
    \/ pc = "draining" /\ committerDone

WorkerReady(w) == task[w] # None \/ (w \notin exited /\ workQ # <<>>)

CommitterReady == committing # None \/ (~committerDone /\ doneQ # <<>>)

\* While a session runs, somebody need not wait.
NobodyStuck ==
    pc # "down" => MainReady \/ CommitterReady \/ \E w \in Worker : WorkerReady(w)

(***************************************************************************)
(* What a session has still to do: queries, then the stage of the current   *)
(* query or of the shutdown, then listings or sentinels, then what the      *)
(* records in the queues and in the threads' hands have before them.        *)
(***************************************************************************)
QueriesLeft == Len(Queries) + 1 - qi

Stage ==
    CASE pc = "next" -> 7
      [] pc \in {"collect", "put"} -> 6
      [] pc = "stopping" -> 5
      [] pc = "joining" -> 4
      [] pc = "draining" -> 3
      [] pc = "xlsx" -> 2
      [] OTHER -> 1

Produce ==
    IF pc \in {"collect", "put"}
    THEN 2 * (Current - taken) + (IF pc = "put" THEN 1 ELSE 0)
    ELSE unsent

Busy == {w \in Worker : task[w] # None}

Consume ==
    4 * Len(workQ) + 3 * Cardinality(Busy) + 2 * Len(doneQ)
        + (IF committing # None THEN 1 ELSE 0)

\* The rank of a session: four numbers.
RankOK == QueriesLeft \in Nat /\ Stage \in Nat /\ Produce \in Nat /\ Consume \in Nat

\* The first of them that changes gets smaller.
Advance ==
    \/ QueriesLeft' < QueriesLeft
    \/ /\ QueriesLeft' = QueriesLeft
       /\ \/ Stage' < Stage
          \/ /\ Stage' = Stage
             /\ Produce' < Produce \/ (Produce' = Produce /\ Consume' < Consume)

InSession == pc # "down" /\ pc' # "down"

\* No step of a session, of whatever thread, leaves the rank as it was.
SessionsAdvance == [][InSession => Advance]_vars

LEMMA CurrentNat ==
    ASSUME TypeOK, QueryOK, pc \in {"collect", "put"}
    PROVE  Current \in Nat
<1>1. Results[Queries[qi]] \in Seq(Listing)
  BY CurrentQuery, ListingAssumption
<1> QED
  BY <1>1, LenProperties DEF Current

\* The collector never yields more than it has.
LEMMA TakenStep ==
    TypeOK /\ QueryOK /\ TakenOK /\ TypeOK' /\ QueryOK' /\ [Next]_vars => TakenOK'
<1> SUFFICES ASSUME TypeOK, QueryOK, TakenOK, TypeOK', QueryOK', [Next]_vars PROVE TakenOK'
  OBVIOUS
<1>1. CASE pc' \notin {"collect", "put"}
  BY <1>1 DEF TakenOK
<1>2. CASE pc \in {"collect", "put"} /\ UNCHANGED <<qi, taken>>
  BY <1>2 DEF TakenOK, Current
<1>3. CASE UNCHANGED <<pc, qi, taken>>
  BY <1>3 DEF TakenOK, Current
<1>4. CASE BeginQuery
  <2>1. Queries[qi] \in Query
    <3>1. qi \in 1..Len(Queries)
      BY <1>4, ListingAssumption, LenProperties DEF BeginQuery, TypeOK
    <3> QED
      BY <3>1, ListingAssumption, ElementOfSeq
  <2>2. Current \in Nat
    BY <2>1, ListingAssumption, LenProperties DEF Current
  <2>3. taken' = 0 /\ qi' = qi
    BY <1>4 DEF BeginQuery
  <2> QED
    BY <2>2, <2>3 DEF TakenOK, Current
<1>5. CASE CollectDuplicate \/ CollectRefused \/ CollectAdmitted
  <2>1. pc = "collect" /\ taken < Current /\ taken' = taken + 1 /\ qi' = qi
    BY <1>5 DEF CollectDuplicate, CollectRefused, CollectAdmitted, Yielded, Current
  <2>2. Current \in Nat /\ taken \in Nat /\ Current' = Current
    BY <2>1, CurrentNat DEF TypeOK, Current
  <2>3. taken' \in 0..Current
    BY <2>1, <2>2
  <2> QED
    BY <2>2, <2>3 DEF TakenOK
<1>6. CASE PutWork
  BY <1>6, <1>2 DEF PutWork
<1>7. CASE SkipDoneQuery \/ EndQueries \/ EndQuery \/ QueryFails \/ PutSentinel
           \/ SentinelsPut \/ JoinWorkers \/ JoinCommitter \/ WriteXlsx \/ Close
  <2>1. pc' \notin {"collect", "put"}
    BY <1>7 DEF SkipDoneQuery, EndQueries, BeginShutdown, EndQuery, QueryFails,
       PutSentinel, SentinelsPut, JoinWorkers, JoinCommitter, WriteXlsx, Close, Exit
  <2> QED
    BY <2>1, <1>1
<1>8. CASE Start \/ InterruptLoop \/ InterruptShutdown \/ Crash
  BY <1>8, <1>1 DEF Start, InterruptLoop, BeginShutdown, InterruptShutdown, Crash, Exit
<1>9. CASE CommitterStep \/ \E w \in Worker : WorkerStep(w)
  BY <1>9, <1>3, Zenon DEF CommitterStep, TakeDone, RefuseRecord, CommitRecord, CommitRaises,
        WorkerStep, TakeTask, Enrich, main
<1>10. CASE UNCHANGED vars
  BY <1>10, <1>3 DEF vars, main
<1> QED
  BY <1>4, <1>5, <1>6, <1>7, <1>8, <1>9, <1>10 DEF Next, MainStep

\* The committer's sentinel stays in its queue until the committer takes it.
LEMMA WaitsStep == TypeOK /\ SentinelWaits /\ [Next]_vars => SentinelWaits'
<1> SUFFICES ASSUME TypeOK, SentinelWaits, [Next]_vars, pc' = "draining"
             PROVE  committerDone' \/ \E i \in 1..Len(doneQ') : doneQ'[i] = None
  BY DEF SentinelWaits
<1>0. doneQ \in Seq(Records) /\ None \in Records /\ Len(doneQ) \in Nat
      /\ task \in [Worker -> Records]
  BY LenProperties DEF TypeOK
<1>1. CASE JoinWorkers
  <2>1. doneQ' = Append(doneQ, None)
    BY <1>1 DEF JoinWorkers
  <2>2. Len(doneQ') \in 1..Len(doneQ') /\ doneQ'[Len(doneQ')] = None
    BY <1>0, <2>1, AppendProperties
  <2> QED
    BY <2>2
<1>2. ASSUME NEW w \in Worker, Enrich(w)
      PROVE  committerDone' \/ \E i \in 1..Len(doneQ') : doneQ'[i] = None
  <2>1. doneQ' = Append(doneQ, task[w]) /\ committerDone' = committerDone /\ pc' = pc
    BY <1>2 DEF Enrich, commit, main
  <2>2. \A i \in 1..Len(doneQ) : i \in 1..Len(doneQ') /\ doneQ'[i] = doneQ[i]
    BY <1>0, <2>1, AppendProperties
  <2> QED
    BY <2>1, <2>2 DEF SentinelWaits
<1>3. CASE TakeDone
  <2>1. /\ doneQ # <<>> /\ doneQ' = Tail(doneQ) /\ pc' = pc /\ ~committerDone
        /\ (Head(doneQ) = None => committerDone')
    BY <1>3, Zenon DEF TakeDone, main
  <2>2. /\ Len(doneQ) \in Nat \ {0} /\ Len(doneQ') = Len(doneQ) - 1 /\ Head(doneQ) = doneQ[1]
        /\ \A i \in 1..Len(doneQ') : doneQ'[i] = doneQ[i + 1]
    BY <1>0, <2>1, HeadTailProperties, EmptySeq
  <2>3. PICK i \in 1..Len(doneQ) : doneQ[i] = None
    BY <2>1 DEF SentinelWaits
  <2>4. i # 1 => i - 1 \in 1..Len(doneQ') /\ doneQ'[i - 1] = None
    <3>1. i # 1 => i - 1 \in 1..Len(doneQ') /\ (i - 1) + 1 = i
      BY <2>2
    <3> QED
      BY <2>2, <2>3, <3>1
  <2> QED
    BY <2>1, <2>2, <2>3, <2>4
<1>4. CASE UNCHANGED <<pc, doneQ, committerDone>>
  BY <1>4 DEF SentinelWaits
<1>5. CASE MainStep /\ ~JoinWorkers
  <2>1. pc' # "draining"
    BY <1>5 DEF MainStep, SkipDoneQuery, EndQueries, BeginShutdown, BeginQuery, EndQuery,
       CollectDuplicate, CollectRefused, CollectAdmitted, Yielded, PutWork,
       QueryFails, PutSentinel, SentinelsPut, JoinCommitter, WriteXlsx, Close, Exit
  <2> QED
    BY <2>1
<1>6. CASE Start \/ InterruptLoop \/ InterruptShutdown \/ Crash
  BY <1>6 DEF Start, InterruptLoop, BeginShutdown, InterruptShutdown, Crash, Exit
<1>7. CASE RefuseRecord \/ CommitRecord \/ CommitRaises \/ \E w \in Worker : TakeTask(w)
  BY <1>7, <1>4, Zenon DEF RefuseRecord, CommitRecord, CommitRaises, TakeTask, main, commit
<1>8. CASE UNCHANGED vars
  BY <1>8, <1>4 DEF vars, main, commit
<1> QED
  BY <1>1, <1>2, <1>3, <1>5, <1>6, <1>7, <1>8 DEF Next, CommitterStep, WorkerStep

\* Whoever waits, another thread can go on.
LEMMA InvNobodyStuck == IInv /\ TakenOK /\ SentinelWaits => NobodyStuck
<1> SUFFICES ASSUME IInv, TakenOK, SentinelWaits, pc # "down",
                    ~MainReady, ~CommitterReady, \A w \in Worker : ~WorkerReady(w)
             PROVE  FALSE
  BY DEF NobodyStuck
<1>0. /\ TypeOK /\ QueryOK /\ SentinelsCounted
      /\ workQ \in Seq(Records) /\ Len(workQ) \in Nat /\ Len(workQ) <= MaxInFlight
      /\ MaxInFlight \in Nat \ {0}
      /\ Cardinality(Worker) \in Nat \ {0} /\ Cardinality(exited) \in Nat
      /\ Count(workQ, None) \in Nat /\ unsent \in Nat /\ exited \subseteq Worker
  BY PoolAssumption, LenProperties, WorkerCount, SentinelTypes DEF IInv, TypeOK
<1>1. workQ # <<>> => exited = Worker
  BY <1>0 DEF WorkerReady
<1>2. Len(workQ) >= MaxInFlight => exited = Worker
  <2>1. Len(workQ) >= MaxInFlight => workQ # <<>>
    BY <1>0, EmptySeq
  <2> QED
    BY <2>1, <1>1
<1>3. workQ = <<>> => Count(workQ, None) = 0
  <2>1. DOMAIN <<>> = {} /\ IsFiniteSet({})
    BY FS_EmptySet
  <2> QED
    BY <2>1, CountNat
<1>4. CASE pc = "collect"
  <2>1. taken \in 0..Current /\ Current \in Nat
    BY <1>0, <1>4, CurrentNat DEF TakenOK
  <2> QED
    BY <1>4, <2>1 DEF MainReady
<1>5. CASE pc = "put"
  <2>1. exited = Worker
    BY <1>0, <1>2, <1>5 DEF MainReady
  <2>2. Cardinality(exited) = 0
    BY <1>0, <1>5 DEF SentinelsCounted, Filling
  <2> QED
    BY <1>0, <2>1, <2>2
<1>6. CASE pc = "stopping"
  <2>1. unsent > 0 /\ exited = Worker
    BY <1>0, <1>2, <1>6 DEF MainReady
  <2>2. unsent + Count(workQ, None) + Cardinality(exited) = Cardinality(Worker)
    BY <1>6 , <1>0 DEF SentinelsCounted, Filling
  <2> QED
    BY <1>0, <2>1, <2>2
<1>7. CASE pc = "joining"
  <2>1. exited # Worker /\ workQ = <<>>
    BY <1>1, <1>7 DEF MainReady
  <2>2. unsent = 0
    BY <1>7 DEF IInv, Joined, Filling
  <2>3. Cardinality(exited) = Cardinality(Worker)
    BY <1>0, <1>3, <1>7, <2>1, <2>2 DEF SentinelsCounted, Filling
  <2>4. exited = Worker
    BY <1>0, <2>3, PoolAssumption, FS_Subset
  <2> QED
    BY <2>1, <2>4
<1>8. CASE pc = "draining"
  <2>1. ~committerDone /\ doneQ = <<>>
    BY <1>8 DEF MainReady, CommitterReady
  <2>2. \E i \in 1..Len(doneQ) : doneQ[i] = None
    BY <1>8, <2>1 DEF SentinelWaits
  <2>3. Len(doneQ) = 0
    BY <2>1, EmptySeq
  <2> QED
    BY <2>2, <2>3
<1>9. pc \notin {"next", "xlsx", "close"}
  BY DEF MainReady
<1> QED
  BY <1>0, <1>4, <1>5, <1>6, <1>7, <1>8, <1>9 DEF TypeOK, Stopping

\* The rank is made of numbers.
LEMMA RankNat == IInv /\ TakenOK => RankOK
<1> SUFFICES ASSUME IInv, TakenOK PROVE RankOK
  OBVIOUS
<1>0. TypeOK /\ QueryOK
  BY DEF IInv
<1>1. QueriesLeft \in Nat
  <2>1. qi \in 1..Len(Queries) + 1 /\ Len(Queries) \in Nat
    BY <1>0, ListingAssumption, LenProperties DEF TypeOK
  <2> QED
    BY <2>1 DEF QueriesLeft
<1>2. Stage \in Nat
  BY DEF Stage
<1>3. Produce \in Nat
  <2>1. unsent \in Nat
    BY <1>0, WorkerCount DEF TypeOK
  <2>2. CASE pc \in {"collect", "put"}
    <3>1. Current \in Nat /\ taken \in 0..Current
      BY <1>0, <2>2, CurrentNat DEF TakenOK
    <3> QED
      BY <2>2, <3>1 DEF Produce
  <2> QED
    BY <2>1, <2>2 DEF Produce
<1>4. Consume \in Nat
  <2>1. Len(workQ) \in Nat /\ Len(doneQ) \in Nat
    BY <1>0, LenProperties DEF TypeOK
  <2>2. Cardinality(Busy) \in Nat
    BY PoolAssumption, FS_Subset, FS_CardinalityType DEF Busy
  <2> QED
    BY <2>1, <2>2 DEF Consume
<1> QED
  BY <1>1, <1>2, <1>3, <1>4 DEF RankOK

\* A thread that takes a record is busy, one that passes it on is not.
LEMMA BusyStep ==
    ASSUME TypeOK, NEW w \in Worker, NEW x \in Records, task' = [task EXCEPT ![w] = x]
    PROVE  /\ Cardinality(Busy) \in Nat /\ Cardinality(Busy') \in Nat
           /\ task[w] = None /\ x # None => Cardinality(Busy') = Cardinality(Busy) + 1
           /\ task[w] # None /\ x = None => Cardinality(Busy') = Cardinality(Busy) - 1
<1>0. IsFiniteSet(Busy) /\ IsFiniteSet(Busy') /\ task \in [Worker -> Records]
  BY PoolAssumption, FS_Subset DEF Busy, TypeOK
<1>1. Cardinality(Busy) \in Nat /\ Cardinality(Busy') \in Nat
  BY <1>0, FS_CardinalityType
<1>2. ASSUME task[w] = None, x # None PROVE Cardinality(Busy') = Cardinality(Busy) + 1
  <2>1. w \notin Busy /\ Busy' = Busy \cup {w}
    BY <1>0, <1>2 DEF Busy
  <2> QED
    BY <1>0, <2>1, FS_AddElement
<1>3. ASSUME task[w] # None, x = None PROVE Cardinality(Busy') = Cardinality(Busy) - 1
  <2>1. w \in Busy /\ Busy' = Busy \ {w}
    BY <1>0, <1>3 DEF Busy
  <2> QED
    BY <1>0, <2>1, FS_RemoveElement
<1> QED
  BY <1>1, <1>2, <1>3

\* Only the main thread changes what is left of the queries and of the stage.
LEMMA MainUnchanged ==
    ASSUME UNCHANGED main, pc # "down", Consume' < Consume
    PROVE  Advance
BY Zenon DEF Advance, QueriesLeft, Stage, Produce, Current, main

\* Every step of a session lowers the rank.
LEMMA AdvanceStep ==
    ASSUME IInv, TakenOK, RankOK, IInv', RankOK', Next, InSession
    PROVE  Advance
<1> USE DEF InSession
<1>0. /\ TypeOK /\ QueryOK /\ TypeOK' /\ QueryOK' /\ RankOK /\ RankOK'
      /\ qi \in Nat /\ unsent \in Nat /\ Len(workQ) \in Nat /\ Len(doneQ) \in Nat
      /\ workQ \in Seq(Records) /\ doneQ \in Seq(Records)
      /\ task \in [Worker -> Records] /\ None \in Records /\ Len(Queries) \in Nat
  <2>1. TypeOK /\ QueryOK /\ TypeOK' /\ QueryOK'
    BY DEF IInv
  <2> QED
    BY <2>1, ListingAssumption, WorkerCount, LenProperties, SMTT(40) DEF TypeOK
<1>1. ASSUME qi' = qi + 1 PROVE Advance
  <2>1. QueriesLeft' < QueriesLeft
    BY <1>0, <1>1 DEF QueriesLeft
  <2> QED
    BY <2>1 DEF Advance
<1>2. ASSUME qi' = qi, Stage' < Stage PROVE Advance
  BY <1>2 DEF Advance, QueriesLeft
<1>3. ASSUME qi' = qi, Stage' = Stage, Produce' < Produce PROVE Advance
  BY <1>3 DEF Advance, QueriesLeft
<1>4. CASE SkipDoneQuery \/ EndQuery \/ QueryFails
  BY <1>4, <1>1 DEF SkipDoneQuery, EndQuery, QueryFails
<1>5. CASE EndQueries \/ BeginQuery \/ InterruptLoop
  <2>1. qi' = qi /\ Stage' < Stage
    BY <1>5 DEF EndQueries, BeginQuery, InterruptLoop, BeginShutdown, Stage
  <2> QED
    BY <2>1, <1>2
<1>6. CASE SentinelsPut \/ JoinWorkers \/ JoinCommitter \/ WriteXlsx \/ InterruptShutdown
  <2>1. qi' = qi /\ Stage' < Stage
    BY <1>6 DEF SentinelsPut, JoinWorkers, JoinCommitter, WriteXlsx, InterruptShutdown,
       Stopping, Stage
  <2> QED
    BY <2>1, <1>2
<1>7. CASE CollectDuplicate \/ CollectRefused \/ CollectAdmitted
  <2>1. /\ pc = "collect" /\ pc' \in {"collect", "put"}
        /\ taken' = taken + 1 /\ qi' = qi
    BY <1>7 DEF CollectDuplicate, CollectRefused, CollectAdmitted, Yielded
  <2>2. Current \in Nat /\ taken \in Nat /\ Current' = Current
    BY <1>0, <2>1, CurrentNat DEF TypeOK, Current
  <2>3. Produce' < Produce
    BY <2>1, <2>2 DEF Produce
  <2>4. Stage' = Stage
    BY <2>1 DEF Stage
  <2> QED
    BY <1>3, <2>1, <2>3, <2>4
<1>8. CASE PutWork
  <2>1. pc = "put" /\ qi' = qi /\ taken' = taken
    BY <1>8, Zenon DEF PutWork
  <2>2. CASE pc' = "collect"
    <3>1. Current \in Nat /\ taken \in Nat /\ Current' = Current
      BY <1>0, <2>1, CurrentNat DEF TypeOK, Current
    <3>2. Produce' < Produce
      BY <2>1, <2>2, <3>1 DEF Produce
    <3>3. Stage' = Stage
      BY <2>1, <2>2 DEF Stage
    <3> QED
      BY <1>3, <2>1, <3>2, <3>3
  <2>3. CASE pc' = "stopping"
    <3>1. Stage' < Stage
      BY <2>1, <2>3 DEF Stage
    <3> QED
      BY <1>2, <2>1, <3>1
  <2> QED
    BY <1>8, <2>2, <2>3, Zenon DEF PutWork, BeginShutdown
<1>9. CASE PutSentinel
  <2>1. pc = "stopping" /\ pc' = pc /\ qi' = qi /\ unsent' = unsent - 1
    BY <1>9 DEF PutSentinel
  <2>2. Produce' < Produce
    BY <1>0, <2>1 DEF Produce
  <2>3. Stage' = Stage
    BY <2>1 DEF Stage
  <2> QED
    BY <1>3, <2>1, <2>2, <2>3
<1>10. ASSUME NEW w \in Worker, TakeTask(w) PROVE Advance
  <2>1. /\ workQ # <<>> /\ workQ' = Tail(workQ) /\ task[w] = None
        /\ \/ Head(workQ) = None /\ task' = task
           \/ Head(workQ) # None /\ task' = [task EXCEPT ![w] = Head(workQ)]
        /\ UNCHANGED <<main, doneQ, committing>>
    BY <1>10, Zenon DEF TakeTask, commit
  <2>2. Len(workQ') = Len(workQ) - 1 /\ Head(workQ) \in Records
    BY <1>0, <2>1, HeadTailProperties
  <2>3. Cardinality(Busy) \in Nat /\ Cardinality(Busy') \in Nat
    BY PoolAssumption, FS_Subset, FS_CardinalityType DEF Busy
  <2>4. Cardinality(Busy') <= Cardinality(Busy) + 1
    <3>1. CASE task' = task
      BY <2>3, <3>1 DEF Busy
    <3>2. CASE Head(workQ) # None /\ task' = [task EXCEPT ![w] = Head(workQ)]
      <4> DEFINE x == Head(workQ)
      <4>1. x \in Records /\ x # None /\ task' = [task EXCEPT ![w] = x] /\ task[w] = None
        BY <2>1, <2>2, <3>2
      <4> HIDE DEF x
      <4>2. Cardinality(Busy') = Cardinality(Busy) + 1
        BY <1>0, <4>1, BusyStep
      <4> QED
        BY <2>3, <4>2
    <3> QED
      BY <2>1, <3>1, <3>2
  <2>5. Consume' < Consume
    BY <1>0, <2>1, <2>2, <2>3, <2>4, SMTT(40) DEF Consume
  <2> QED
    BY <2>1, <2>5, MainUnchanged
<1>11. ASSUME NEW w \in Worker, Enrich(w) PROVE Advance
  <2>1. /\ task[w] # None /\ doneQ' = Append(doneQ, task[w])
        /\ task' = [task EXCEPT ![w] = None] /\ UNCHANGED <<main, workQ, committing>>
    BY <1>11, Zenon DEF Enrich, commit
  <2>2. Len(doneQ') = Len(doneQ) + 1
    BY <1>0, <2>1, AppendProperties
  <2>3. Cardinality(Busy) \in Nat /\ Cardinality(Busy') = Cardinality(Busy) - 1
    BY <1>0, <2>1, BusyStep
  <2>4. Consume' < Consume
    BY <1>0, <2>1, <2>2, <2>3 DEF Consume
  <2> QED
    BY <2>1, <2>4, MainUnchanged
<1>12. CASE TakeDone
  <2>1. /\ doneQ # <<>> /\ doneQ' = Tail(doneQ) /\ committing = None
        /\ UNCHANGED <<main, workQ, task>>
    BY <1>12, Zenon DEF TakeDone, workers
  <2>2. Len(doneQ') = Len(doneQ) - 1
    BY <1>0, <2>1, HeadTailProperties
  <2>3. Cardinality(Busy) \in Nat /\ Busy' = Busy
    BY <2>1, PoolAssumption, FS_Subset, FS_CardinalityType DEF Busy
  <2>4. Consume' < Consume
    BY <1>0, <2>1, <2>2, <2>3 DEF Consume
  <2> QED
    BY <2>1, <2>4, MainUnchanged
<1>13. CASE RefuseRecord \/ CommitRecord \/ CommitRaises
  <2>1. committing # None /\ committing' = None /\ UNCHANGED <<main, workQ, doneQ, task>>
    BY <1>13, Zenon DEF RefuseRecord, CommitRecord, CommitRaises, Decided, workers
  <2>2. Cardinality(Busy) \in Nat /\ Busy' = Busy
    BY <2>1, PoolAssumption, FS_Subset, FS_CardinalityType DEF Busy
  <2>3. Consume' < Consume
    BY <1>0, <2>1, <2>2 DEF Consume
  <2> QED
    BY <2>1, <2>3, MainUnchanged
<1>14. ~Start /\ ~Close /\ ~Crash
  BY DEF Start, Close, Crash, Exit
<1> QED
  BY <1>4, <1>5, <1>6, <1>7, <1>8, <1>9, <1>10, <1>11, <1>12, <1>13, <1>14
     DEF Next, MainStep, CommitterStep, WorkerStep

\* What NobodyWaitsForever and SessionsFinite rest on.
Progress == IInv /\ TakenOK /\ SentinelWaits

LEMMA ProgressInvariant == Spec => []Progress
<1>1. Init => TakenOK /\ SentinelWaits
  BY DEF Init, TakenOK, SentinelWaits
<1>2. IInv /\ IInv' /\ TakenOK /\ SentinelWaits /\ [Next]_vars => TakenOK' /\ SentinelWaits'
  BY TakenStep, WaitsStep DEF IInv
<1> QED
  BY <1>1, <1>2, Invariance, PTL DEF Spec, Progress

(***************************************************************************)
(* In no reachable state does everybody wait: a full queue, a sentinel or a *)
(* join that holds one thread up leaves another that can go on, whatever    *)
(* failed or was interrupted before, and without counting on the deadline   *)
(* of a join (pipeline.py:482-513).                                         *)
(***************************************************************************)
THEOREM NobodyWaitsForever == Spec => []NobodyStuck
<1>1. Progress => NobodyStuck
  BY InvNobodyStuck DEF Progress
<1> QED
  BY <1>1, ProgressInvariant, PTL

(***************************************************************************)
(* No session goes on for ever: each step of each thread lowers its rank,   *)
(* four natural numbers in lexicographic order, until the process is down.  *)
(* With NobodyWaitsForever this is what RunEnds rests on, for any number of *)
(* queries, listings and workers and any fault.                             *)
(***************************************************************************)
THEOREM SessionsFinite == Spec => []RankOK /\ SessionsAdvance
<1>1. Progress => RankOK
  BY RankNat DEF Progress
<1>2. Progress /\ RankOK /\ Progress' /\ RankOK' /\ [Next]_vars
        => [InSession => Advance]_vars
  BY AdvanceStep DEF Progress
<1> QED
  BY <1>1, <1>2, ProgressInvariant, PTL DEF Spec, SessionsAdvance

-----------------------------------------------------------------------------
(* The promise of the resolver *)

\* Both instances have the range of functions.
LEMMA SameRangeOfClaims == \A f : Claims!Range(f) = Ledger!Range(f)
BY DEF Claims!Range, Ledger!Range

\* Each step of Campaign claims, exports or gives up at most one business, or
\* forgets every claim.
LEMMA ClaimsStep == [Ledger!Next]_(Ledger!vars) => [Claims!Next]_(Claims!vars)
<1> SUFFICES ASSUME [Ledger!Next]_(Ledger!vars) PROVE [Claims!Next]_(Claims!vars)
  OBVIOUS
<1>1. ASSUME UNCHANGED <<committed, Claimed>> PROVE [Claims!Next]_(Claims!vars)
  BY <1>1 DEF Claims!vars, Claimed
<1>2. CASE UNCHANGED Ledger!vars
  BY <1>1, <1>2 DEF Ledger!vars, Claimed
<1>3. CASE Ledger!Begin
  BY <1>1, <1>3 DEF Ledger!Begin, Claimed
<1>4. CASE Ledger!Report \/ Ledger!LoseReport
  BY <1>1, <1>4 DEF Ledger!Report, Ledger!LoseReport, Claimed
<1>5. CASE Ledger!EndCollecting
  <2>1. CASE UNCHANGED Claimed
    BY <1>1, <1>5, <2>1 DEF Ledger!EndCollecting, Claimed
  <2>2. ASSUME NEW b \in Business, Ledger!Settle(b) PROVE Claims!Next
    BY <1>5, <2>2 DEF Ledger!EndCollecting, Ledger!Settle, Claims!Next, Claims!GiveUp
  <2> QED
    BY <1>5, <2>1, <2>2 DEF Ledger!EndCollecting, Claimed
<1>6. CASE Ledger!Stop
  BY <1>6 DEF Ledger!Stop, Claims!Next, Claims!Restart
<1>7. ASSUME NEW q \in Query, Ledger!MarkDone(q) PROVE [Claims!Next]_(Claims!vars)
  BY <1>1, <1>7 DEF Ledger!MarkDone, Claimed
<1>8. ASSUME NEW b \in Business, Ledger!Claim(b) PROVE Claims!Next
  BY <1>8, SameRangeOfClaims DEF Ledger!Claim, Ledger!Found, Claims!Next, Claims!Claim
<1>9. ASSUME NEW b \in Business, Ledger!Reject(b) PROVE [Claims!Next]_(Claims!vars)
  BY <1>1, <1>9 DEF Ledger!Reject, Claimed
<1>10. ASSUME NEW b \in Business, Ledger!Export(b) PROVE Claims!Next
  BY <1>10 DEF Ledger!Export, Ledger!Settle, Claims!Next, Claims!Export
<1>11. ASSUME NEW b \in Business, Ledger!Refuse(b) \/ Ledger!Fail(b) PROVE Claims!Next
  BY <1>11 DEF Ledger!Refuse, Ledger!Fail, Ledger!Settle, Claims!Next, Claims!GiveUp
<1> QED
  BY <1>2, <1>3, <1>4, <1>5, <1>6, <1>7, <1>8, <1>9, <1>10, <1>11 DEF Ledger!Next

(***************************************************************************)
(* A campaign that does what Campaign says keeps the claims apart as        *)
(* BusinessClaims wants it.  IdentityResolver keeps the same promise call   *)
(* by call, so Pipeline's resolver is the one it is, while the leads fit in *)
(* the preload.                                                             *)
(***************************************************************************)
THEOREM CampaignKeepsClaims == CampaignSpec => ClaimsSpec
<1>1. Ledger!Init => Claims!Init
  BY DEF Ledger!Init, Claims!Init
<1> QED
  BY <1>1, ClaimsStep, PTL DEF CampaignSpec, ClaimsSpec, Ledger!Spec, Claims!Spec
=============================================================================
