--------------------------- MODULE RenderPoolProofs ---------------------------
(***************************************************************************)
(* Proofs about RenderPool for any callers, pages, pool size and futures:   *)
(* type correctness, that a caller is answered with its own page or with    *)
(* nothing, that one browser's crash costs only the page it was on, that    *)
(* close() leaves no thread of a complete pool without a sentinel, and that *)
(* no call, job or shutdown goes on for ever.                               *)
(***************************************************************************)
EXTENDS RenderPool, FunctionTheorems, SequenceTheorems, FiniteSetTheorems, TLAPS

Busy == {c \in Caller : at[c] \notin {"idle", "wait"}}

\* A caller that is in render() knows its page, and waits for a future exactly
\* when it has put its job.
CallerOK ==
    \A c \in Caller :
        /\ at[c] # "idle" => wanted[c] \in Pages
        /\ at[c] = "wait" <=> fut[c] \in Future

\* No two callers wait for one future.
OneEach == \A c, d \in Caller : fut[c] = fut[d] /\ fut[c] \in Future => c = d

\* There is a future left for every caller on its way to put a job.
Room == Cardinality(InUse) + Cardinality(Busy) <= Cardinality(Future)

\* A thread has a job exactly from taking it to answering it.
ThreadOK == \A t \in Thread : stage[t] \in {"launch", "render"} => job[t] \in Job \ {None}

\* The job of a future somebody waits for, as the waiting caller put it.
Faithful(j) == \A c \in Caller : fut[c] = j.fut => j.page = wanted[c]

JobsFaithful ==
    /\ \A t \in Thread : job[t] # None => Faithful(job[t])
    /\ \A i \in 1..Len(jobs) : jobs[i] # None => Faithful(jobs[i])

\* Only futures that are waited for have answers.
AnswersWanted == \A f \in Future : answer[f] # None => \E c \in Caller : fut[c] = f

\* A page on a dead browser was there when it died, or nobody waits for it.
DeadHurt ==
    \A t \in Thread : stage[t] = "render" /\ chromium[t] = "dead" =>
        job[t].fut \in hurt \/ \A c \in Caller : fut[c] # job[t].fut

IInv ==
    /\ TypeOK /\ CallerOK /\ OneEach /\ Room /\ ThreadOK
    /\ JobsFaithful /\ AnswersWanted /\ DeadHurt
    /\ OwnPageOrNothing /\ CrashIsolated

-----------------------------------------------------------------------------
(* Futures *)

LEMMA FiniteSets ==
    /\ IsFiniteSet(InUse) /\ IsFiniteSet(Busy)
    /\ Cardinality(InUse) \in Nat /\ Cardinality(Busy) \in Nat
    /\ Cardinality(Future) \in Nat
<1>1. InUse \subseteq Future /\ Busy \subseteq Caller
  BY DEF InUse, Busy
<1>2. IsFiniteSet(InUse) /\ IsFiniteSet(Busy) /\ IsFiniteSet(Future)
  BY <1>1, PoolAssumption, FS_Subset
<1> QED
  BY <1>2, FS_CardinalityType

\* A caller about to put its job finds a future nobody refers to.
LEMMA NewFutureIsNew ==
    ASSUME TypeOK, Room, NEW c \in Caller, at[c] = "put"
    PROVE  NewFuture(c) \in Future /\ ~Referenced(NewFuture(c))
<1>1. Cardinality(Busy) # 0
  <2>1. c \in Busy
    BY DEF Busy
  <2> QED
    BY <2>1, FiniteSets, FS_EmptySet
<1>2. Cardinality(InUse) < Cardinality(Future)
  BY <1>1, FiniteSets DEF Room
<1>3. InUse # Future
  BY <1>2, FiniteSets
<1>4. \E f \in Future : ~Referenced(f)
  BY <1>3 DEF InUse
<1> QED
  BY <1>4 DEF NewFuture

-----------------------------------------------------------------------------
(* The queue *)

\* A place of a longer queue is a place it had, or the new last one.
LEMMA PlacesAfterPut ==
    ASSUME NEW S, NEW q \in Seq(S), NEW e \in S
    PROVE  \A i \in 1..Len(Append(q, e)) :
               \/ i \in 1..Len(q) /\ Append(q, e)[i] = q[i]
               \/ Append(q, e)[i] = e
<1>1. /\ Len(q) \in Nat /\ Len(Append(q, e)) = Len(q) + 1
      /\ \A i \in 1..Len(q) : Append(q, e)[i] = q[i]
      /\ Append(q, e)[Len(q) + 1] = e
  BY AppendProperties, LenProperties
<1> SUFFICES ASSUME NEW i \in 1..Len(Append(q, e))
             PROVE  \/ i \in 1..Len(q) /\ Append(q, e)[i] = q[i]
                    \/ Append(q, e)[i] = e
  OBVIOUS
<1>2. i \in 1..Len(q) \/ i = Len(q) + 1
  BY <1>1
<1> QED
  BY <1>1, <1>2

\* What is left of a queue was in it one place later.
LEMMA PlacesAfterGet ==
    ASSUME NEW S, NEW q \in Seq(S), q # <<>>
    PROVE  /\ Head(q) = q[1] /\ 1 \in 1..Len(q) /\ q[1] \in S
           /\ \A i \in 1..Len(Tail(q)) : i + 1 \in 1..Len(q) /\ Tail(q)[i] = q[i + 1]
<1>1. Len(q) \in Nat \ {0}
  BY EmptySeq, LenProperties
<1>2. Head(q) = q[1] /\ 1 \in 1..Len(q) /\ q[1] \in S
  BY <1>1, ElementOfSeq
<1>3. /\ Len(Tail(q)) = Len(q) - 1
      /\ \A i \in 1..Len(Tail(q)) : Tail(q)[i] = q[i + 1]
  BY HeadTailProperties
<1>4. \A i \in 1..Len(Tail(q)) : i + 1 \in 1..Len(q)
  BY <1>1, <1>3
<1> QED
  BY <1>2, <1>3, <1>4

-----------------------------------------------------------------------------
(* Type correctness *)

\* Every step keeps the types.
LEMMA TypeStep == TypeOK /\ CallerOK /\ ThreadOK /\ Room /\ [Next]_vars => TypeOK'
<1> SUFFICES ASSUME TypeOK, CallerOK, ThreadOK, Room, [Next]_vars PROVE TypeOK'
  OBVIOUS
<1>0. Size \in Nat \ {0} /\ 0 \in 0..Size /\ threads \in Nat /\ next \in Nat
  <2>1. Size \in 1..8
    BY PoolAssumption, Zenon
  <2>2. threads \in 0..Size /\ next \in 0..Size
    BY Zenon DEF TypeOK
  <2> QED
    BY ONLY <2>1, <2>2
<1> USE PoolAssumption DEF TypeOK, callers, closing, workers, Thread
<1>1. ASSUME NEW c \in Caller, Call(c) PROVE TypeOK'
  <2>1. PICK x \in Wants[c] : wanted' = [wanted EXCEPT ![c] = x]
    BY <1>1 DEF Call
  <2>2. x \in Pages /\ at' = [at EXCEPT ![c] = "checked"]
    BY <1>1 DEF Call, Pages
  <2>3. UNCHANGED <<fut, answer, jobs, lock, threads, started, closing, workers>>
    BY <1>1 DEF Call
  <2> QED
    BY <2>1, <2>2, <2>3
<1>2. ASSUME NEW c \in Caller, EnsureStarted(c) PROVE TypeOK'
  BY <1>2 DEF EnsureStarted
<1>3. ASSUME NEW c \in Caller, StartThread(c) PROVE TypeOK'
  <2>1. threads < Size
    BY <1>3 DEF StartThread
  <2>2. \/ threads' = threads /\ stage' = [stage EXCEPT ![threads + 1] = "get"]
        \/ threads' = threads + 1 /\ stage' = stage
    BY <1>3 DEF StartThread
  <2>3. threads' \in 0..Size
    <3>1. threads + 1 \in 0..Size /\ threads \in 0..Size
      BY ONLY <1>0, <2>1
    <3>2. threads' = threads \/ threads' = threads + 1
      BY <2>2
    <3> QED
      BY ONLY <3>1, <3>2
  <2>4. stage' \in [Thread -> {"unborn", "get", "launch", "render", "exited"}]
    BY <2>2
  <2>5. UNCHANGED <<callers, answer, jobs, lock, started, closing, job, chromium, hurt>>
    BY <1>3 DEF StartThread
  <2> QED
    BY <2>3, <2>4, <2>5
<1>4. ASSUME NEW c \in Caller, Started(c) PROVE TypeOK'
  BY <1>4 DEF Started
<1>5. ASSUME NEW c \in Caller, PutJob(c) PROVE TypeOK'
  <2>1. PICK f \in Future :
            /\ fut' = [fut EXCEPT ![c] = f]
            /\ jobs' = Append(jobs, [page |-> wanted[c], fut |-> f])
    BY <1>5, NewFutureIsNew DEF PutJob
  <2>2. [page |-> wanted[c], fut |-> f] \in Job
    BY <1>5 DEF CallerOK, PutJob, Job
  <2>3. jobs' \in Seq(Job \cup {None})
    BY <2>1, <2>2, AppendProperties
  <2>4. fut' \in [Caller -> Future \cup {None}]
    BY <2>1
  <2>5. at' \in [Caller -> {"idle", "checked", "starting", "put", "wait"}]
    BY <1>5 DEF PutJob
  <2>6. UNCHANGED <<wanted, answer, lock, threads, started, closing, workers>>
    BY <1>5 DEF PutJob
  <2> QED
    BY <2>3, <2>4, <2>5, <2>6
<1>6. ASSUME NEW c \in Caller, Answered(c) \/ TimesOut(c) PROVE TypeOK'
  BY <1>6, ZenonT(40) DEF Answered, TimesOut, Return, CallerOK
<1>7. CASE BeginClose
  <2>1. closed' \in BOOLEAN /\ whole' \in BOOLEAN
    BY <1>7, Zenon DEF BeginClose
  <2>2. closer' = "sentinels" /\ next' = 0
    BY <1>7 DEF BeginClose
  <2>3. UNCHANGED <<callers, answer, jobs, lock, threads, started, workers>>
    BY <1>7, Zenon DEF BeginClose
  <2> QED
    BY <1>0, <2>1, <2>2, <2>3
<1>8. CASE PutSentinels
  <2>1. CASE next < threads
    <3>1. Append(jobs, None) \in Seq(Job \cup {None})
      BY AppendProperties
    <3>2. next + 1 \in 0..Size
      <4>1. threads <= Size
        <5>1. threads \in 0..Size
          BY Zenon DEF TypeOK
        <5> QED
          BY ONLY <1>0, <5>1
      <4> QED
        BY ONLY <1>0, <2>1, <4>1
    <3>3. next' = next + 1
      BY <1>8, <2>1 DEF PutSentinels
    <3> QED
      BY <1>8, <2>1, <3>1, <3>2, <3>3 DEF PutSentinels
  <2>2. CASE ~(next < threads)
    BY <1>0, <1>8, <2>2 DEF PutSentinels
  <2> QED
    BY <2>1, <2>2
<1>9. CASE Join
  BY <1>9 DEF Join
<1>10. ASSUME NEW t \in Thread, Take(t) PROVE TypeOK'
  <2>1. jobs' \in Seq(Job \cup {None}) /\ Head(jobs) \in Job \cup {None}
    BY <1>10, HeadTailProperties DEF Take
  <2>2. /\ stage' \in [Thread -> {"unborn", "get", "launch", "render", "exited"}]
        /\ job' \in [Thread -> Job \cup {None}]
        /\ chromium' \in [Thread -> {"none", "up", "dead"}]
    <3>1. CASE Head(jobs) = None
      BY <1>10, <3>1, ZenonT(40) DEF Take
    <3>2. CASE Head(jobs) # None
      <4>1. /\ stage' = [stage EXCEPT ![t] = "launch"]
            /\ job' = [job EXCEPT ![t] = Head(jobs)]
            /\ chromium' = chromium
        BY <1>10, <3>2, Zenon DEF Take
      <4>2. PICK j \in Job \cup {None} : j = Head(jobs)
        BY <2>1
      <4> QED
        BY <4>1, <4>2
    <3> QED
      BY <3>1, <3>2
  <2>3. UNCHANGED <<callers, answer, lock, threads, started, closing, hurt>>
    BY <1>10 DEF Take
  <2> QED
    BY <2>1, <2>2, <2>3
<1>11. ASSUME NEW t \in Thread, Launch(t) PROVE TypeOK'
  BY <1>11 DEF Launch
<1>12. ASSUME NEW t \in Thread, Render(t) \/ RenderFails(t) \/ RenderOnDead(t) PROVE TypeOK'
  <2>1. job[t] \in Job /\ job[t].page \in Pages /\ job[t].fut \in Future
    BY <1>12 DEF Render, RenderFails, RenderOnDead, ThreadOK, Job
  <2>2. /\ stage' = [stage EXCEPT ![t] = "get"] /\ job' = [job EXCEPT ![t] = None]
        /\ UNCHANGED <<callers, jobs, lock, threads, started, closing>>
    BY <1>12 DEF Render, RenderFails, RenderOnDead, Finish
  <2>3. answer' \in [Future -> Pages \cup {"", None}]
    BY <1>12, <2>1, ZenonT(40) DEF Render, RenderFails, RenderOnDead, Finish
  <2>4. chromium' \in [Thread -> {"none", "up", "dead"}] /\ hurt' \subseteq Future
    BY <1>12, <2>1 DEF Render, RenderFails, RenderOnDead
  <2> QED
    BY <2>2, <2>3, <2>4
<1>13. ASSUME NEW t \in Thread, ChromiumDies(t) PROVE TypeOK'
  BY <1>13 DEF ChromiumDies, ThreadOK, Job
<1>14. CASE UNCHANGED vars
  BY <1>14 DEF vars
<1> QED
  BY <1>1, <1>2, <1>3, <1>4, <1>5, <1>6, <1>7, <1>8, <1>9, <1>10, <1>11, <1>12,
     <1>13, <1>14 DEF Next, CallerStep, CloseStep, WorkerStep
-----------------------------------------------------------------------------
(* What the callers know *)

LEMMA CallersStep ==
    TypeOK /\ CallerOK /\ OneEach /\ Room /\ [Next]_vars => CallerOK' /\ OneEach'
<1> SUFFICES ASSUME TypeOK, CallerOK, OneEach, Room, [Next]_vars
             PROVE  CallerOK' /\ OneEach'
  OBVIOUS
<1>0. None \notin Future /\ None \notin Pages
  BY PoolAssumption, Zenon
<1> USE <1>0 DEF TypeOK, callers, closing, workers
<1>1. ASSUME NEW c \in Caller, Call(c) PROVE CallerOK' /\ OneEach'
  <2>1. PICK x \in Pages : wanted' = [wanted EXCEPT ![c] = x]
    BY <1>1, ZenonT(40) DEF Call, Pages
  <2>2. at[c] = "idle" /\ at' = [at EXCEPT ![c] = "checked"] /\ fut' = fut
    BY <1>1 DEF Call
  <2>3. CallerOK'
    BY <2>1, <2>2 DEF CallerOK
  <2>4. OneEach'
    BY <2>2 DEF OneEach
  <2> QED
    BY <2>3, <2>4
<1>2. ASSUME NEW c \in Caller, EnsureStarted(c) \/ Started(c) PROVE CallerOK' /\ OneEach'
  <2>1. /\ at[c] \in {"checked", "starting"} /\ wanted' = wanted /\ fut' = fut
        /\ \/ at' = [at EXCEPT ![c] = "put"]
           \/ at' = [at EXCEPT ![c] = "starting"]
    BY <1>2, Zenon DEF EnsureStarted, Started
  <2> QED
    BY <2>1 DEF CallerOK, OneEach
<1>3. ASSUME NEW c \in Caller, PutJob(c) PROVE CallerOK' /\ OneEach'
  <2>1. PICK f \in Future : fut' = [fut EXCEPT ![c] = f] /\ ~Referenced(f)
    BY <1>3, NewFutureIsNew DEF PutJob
  <2>2. at[c] = "put" /\ at' = [at EXCEPT ![c] = "wait"] /\ wanted' = wanted
    BY <1>3 DEF PutJob
  <2>3. \A d \in Caller : fut[d] # f
    BY <2>1 DEF Referenced
  <2>4. CallerOK'
    BY <2>1, <2>2 DEF CallerOK
  <2>5. OneEach'
    BY <2>1, <2>3 DEF OneEach
  <2> QED
    BY <2>4, <2>5
<1>4. ASSUME NEW c \in Caller, Answered(c) \/ TimesOut(c) PROVE CallerOK' /\ OneEach'
  <2>1. /\ at' = [at EXCEPT ![c] = "idle"]
        /\ wanted' = [wanted EXCEPT ![c] = None]
        /\ fut' = [fut EXCEPT ![c] = None]
    BY <1>4 DEF Answered, TimesOut, Return
  <2> QED
    BY <2>1 DEF CallerOK, OneEach
<1>5. CASE UNCHANGED <<at, wanted, fut>>
  BY <1>5 DEF CallerOK, OneEach
<1>6. ASSUME NEW c \in Caller, StartThread(c) PROVE UNCHANGED <<at, wanted, fut>>
  BY <1>6 DEF StartThread
<1>7. ASSUME BeginClose \/ CloseStep PROVE UNCHANGED <<at, wanted, fut>>
  BY <1>7 DEF BeginClose, CloseStep, PutSentinels, Join
<1>8. ASSUME NEW t \in Thread, WorkerStep(t) \/ ChromiumDies(t)
      PROVE  UNCHANGED <<at, wanted, fut>>
  BY <1>8 DEF WorkerStep, Take, Launch, Render, RenderFails, RenderOnDead, Finish,
              ChromiumDies
<1>9. CASE UNCHANGED vars
  BY <1>5, <1>9 DEF vars
<1> QED
  BY <1>1, <1>2, <1>3, <1>4, <1>5, <1>6, <1>7, <1>8, <1>9 DEF Next, CallerStep

-----------------------------------------------------------------------------
(* What the browser threads have *)

LEMMA ThreadsStep == TypeOK /\ ThreadOK /\ [Next]_vars => ThreadOK'
<1> SUFFICES ASSUME TypeOK, ThreadOK, [Next]_vars PROVE ThreadOK'
  OBVIOUS
<1> USE DEF TypeOK, ThreadOK, callers, closing, workers, Thread
<1>1. ASSUME NEW c \in Caller, StartThread(c) PROVE ThreadOK'
  <2>1. job' = job /\ (stage' = stage \/ stage' = [stage EXCEPT ![threads + 1] = "get"])
    BY <1>1, Zenon DEF StartThread
  <2>2. \A t \in Thread : stage'[t] = stage[t] \/ stage'[t] = "get"
    BY <2>1
  <2> QED
    BY <2>1, <2>2
<1>2. ASSUME NEW t \in Thread, Take(t) PROVE ThreadOK'
  <2>1. Head(jobs) \in Job \cup {None}
    BY <1>2, HeadTailProperties DEF Take
  <2>2. CASE Head(jobs) = None
    BY <1>2, <2>2, ZenonT(40) DEF Take
  <2>3. CASE Head(jobs) # None
    <3>1. PICK j \in Job \ {None} : j = Head(jobs)
      BY <2>1, <2>3
    <3>2. /\ stage' = [stage EXCEPT ![t] = "launch"]
          /\ job' = [job EXCEPT ![t] = j]
      BY <1>2, <2>3, <3>1, Zenon DEF Take
    <3> QED
      BY <3>2
  <2> QED
    BY <2>2, <2>3
<1>3. ASSUME NEW t \in Thread, Launch(t) PROVE ThreadOK'
  BY <1>3 DEF Launch
<1>4. ASSUME NEW t \in Thread, Render(t) \/ RenderFails(t) \/ RenderOnDead(t)
      PROVE  ThreadOK'
  <2>1. stage' = [stage EXCEPT ![t] = "get"] /\ job' = [job EXCEPT ![t] = None]
    BY <1>4 DEF Render, RenderFails, RenderOnDead, Finish
  <2> QED
    BY <2>1
<1>5. CASE UNCHANGED <<stage, job>>
  BY <1>5
<1>6. ASSUME NEW c \in Caller,
             Call(c) \/ EnsureStarted(c) \/ Started(c) \/ PutJob(c) \/ Answered(c)
                \/ TimesOut(c)
      PROVE  UNCHANGED <<stage, job>>
  BY <1>6 DEF Call, EnsureStarted, Started, PutJob, Answered, TimesOut, Return
<1>7. ASSUME BeginClose \/ CloseStep PROVE UNCHANGED <<stage, job>>
  BY <1>7 DEF BeginClose, CloseStep, PutSentinels, Join
<1>8. ASSUME NEW t \in Thread, ChromiumDies(t) PROVE UNCHANGED <<stage, job>>
  BY <1>8 DEF ChromiumDies
<1>9. CASE UNCHANGED vars
  BY <1>5, <1>9 DEF vars
<1> QED
  BY <1>1, <1>2, <1>3, <1>4, <1>5, <1>6, <1>7, <1>8, <1>9
     DEF Next, CallerStep, WorkerStep
-----------------------------------------------------------------------------
(* The jobs and their futures *)

\* What a caller does that puts its job: the job is its own and its future new.
LEMMA PutJobIsNew ==
    ASSUME TypeOK, CallerOK, Room, NEW c \in Caller, PutJob(c)
    PROVE  \E j \in Job :
               /\ j.page = wanted[c] /\ j.fut \in Future
               /\ fut' = [fut EXCEPT ![c] = j.fut]
               /\ ~Referenced(j.fut)
               /\ \A i \in 1..Len(jobs') :
                      (i \in 1..Len(jobs) /\ jobs'[i] = jobs[i]) \/ jobs'[i] = j
<1>1. PICK f \in Future :
          /\ fut' = [fut EXCEPT ![c] = f]
          /\ jobs' = Append(jobs, [page |-> wanted[c], fut |-> f])
          /\ ~Referenced(f)
  BY NewFutureIsNew DEF PutJob
<1>2. wanted[c] \in Pages
  BY DEF PutJob, CallerOK
<1>3. PICK j \in Job : j = [page |-> wanted[c], fut |-> f]
  BY <1>2 DEF Job
<1>4. j.fut = f /\ j.page = wanted[c]
  BY ONLY <1>3
<1>5. jobs' = Append(jobs, j)
  BY <1>1, <1>3, Zenon
<1>6. j \in Job \cup {None} /\ jobs \in Seq(Job \cup {None})
  BY Zenon DEF TypeOK
<1>7. \A i \in 1..Len(Append(jobs, j)) :
          \/ i \in 1..Len(jobs) /\ Append(jobs, j)[i] = jobs[i]
          \/ Append(jobs, j)[i] = j
  BY ONLY <1>6, PlacesAfterPut
<1>8. \A i \in 1..Len(jobs') : (i \in 1..Len(jobs) /\ jobs'[i] = jobs[i]) \/ jobs'[i] = j
  BY <1>5, <1>7, Zenon
<1> QED
  BY <1>1, <1>4, <1>8, Zenon

\* A sentinel brings no job.
LEMMA SentinelIsNoJob ==
    ASSUME TypeOK, PutSentinels
    PROVE  \A i \in 1..Len(jobs') : jobs'[i] # None => i \in 1..Len(jobs) /\ jobs'[i] = jobs[i]
<1>1. CASE jobs' = jobs
  BY <1>1
<1>2. CASE jobs' = Append(jobs, None)
  <2>1. None \in Job \cup {None} /\ jobs \in Seq(Job \cup {None})
    BY Zenon DEF TypeOK
  <2>2. \A i \in 1..Len(Append(jobs, None)) :
            \/ i \in 1..Len(jobs) /\ Append(jobs, None)[i] = jobs[i]
            \/ Append(jobs, None)[i] = None
    BY ONLY <2>1, PlacesAfterPut
  <2> QED
    BY <1>2, <2>2, Zenon
<1> QED
  BY <1>1, <1>2, Zenon DEF PutSentinels

\* A thread takes the first entry of the queue, and only that.
LEMMA TakeIsFirst ==
    ASSUME TypeOK, NEW t \in Thread, Take(t)
    PROVE  /\ 1 \in 1..Len(jobs)
           /\ \A i \in 1..Len(jobs') : i + 1 \in 1..Len(jobs) /\ jobs'[i] = jobs[i + 1]
           /\ job' = job \/ (jobs[1] \in Job \ {None} /\ job' = [job EXCEPT ![t] = jobs[1]])
<1>1. /\ jobs # <<>> /\ jobs' = Tail(jobs)
      /\ job' = job \/ (Head(jobs) # None /\ job' = [job EXCEPT ![t] = Head(jobs)])
  BY Zenon DEF Take
<1>2. jobs \in Seq(Job \cup {None})
  BY Zenon DEF TypeOK
<1>3. /\ Head(jobs) = jobs[1] /\ 1 \in 1..Len(jobs) /\ jobs[1] \in Job \cup {None}
      /\ \A i \in 1..Len(Tail(jobs)) : i + 1 \in 1..Len(jobs) /\ Tail(jobs)[i] = jobs[i + 1]
  BY ONLY <1>1, <1>2, PlacesAfterGet
<1> QED
  BY <1>1, <1>3, Zenon

-----------------------------------------------------------------------------
(* The futures that are left *)

\* A step that brings no new reference and no new caller on its way keeps Room.
LEMMA RoomKept ==
    ASSUME TypeOK, Room, InUse' \subseteq InUse, Busy' \subseteq Busy
    PROVE  Room'
<1>1. IsFiniteSet(InUse) /\ IsFiniteSet(Busy)
  BY FiniteSets
<1>2. Cardinality(InUse') <= Cardinality(InUse) /\ Cardinality(Busy') <= Cardinality(Busy)
  BY <1>1, FS_Subset
<1>3. Cardinality(InUse') \in Nat /\ Cardinality(Busy') \in Nat
  BY <1>1, FS_Subset, FS_CardinalityType
<1> QED
  BY <1>2, <1>3, FiniteSets DEF Room

LEMMA RoomStep == TypeOK /\ CallerOK /\ Room /\ [Next]_vars => Room'
<1> SUFFICES ASSUME TypeOK, CallerOK, Room, [Next]_vars PROVE Room'
  OBVIOUS
<1>0. None \notin Future /\ None \notin Pages
  BY PoolAssumption, Zenon
<1> USE <1>0 DEF TypeOK, callers, closing, workers
<1>1. ASSUME UNCHANGED <<at, fut, job, jobs>> PROVE Room'
  <2>1. InUse' = InUse
    BY <1>1 DEF InUse, Referenced
  <2>2. Busy' = Busy
    BY <1>1 DEF Busy
  <2> QED
    BY <2>1, <2>2, RoomKept
<1>2. ASSUME NEW c \in Caller, Call(c) PROVE Room'
  <2>1. UNCHANGED <<fut, job, jobs>> /\ at' = [at EXCEPT ![c] = "checked"]
    BY <1>2 DEF Call
  <2>2. InUse' = InUse
    BY <2>1 DEF InUse, Referenced
  <2>3. Busy' = Busy \cup {c}
    BY <2>1 DEF Busy
  <2>4. c \notin Busy
    BY <1>2 DEF Call, Busy
  <2>5. Cardinality(Busy') = Cardinality(Busy) + 1
    BY <2>3, <2>4, FiniteSets, FS_AddElement
  <2>6. Cardinality(InUse) + Cardinality(Busy) < Cardinality(Future)
    BY <1>2, Zenon DEF Call, Busy
  <2>7. Cardinality(InUse') + Cardinality(Busy') <= Cardinality(Future)
    BY ONLY <2>2, <2>5, <2>6, FiniteSets
  <2> QED
    BY <2>7, Zenon DEF Room
<1>3. ASSUME NEW c \in Caller, EnsureStarted(c) \/ Started(c) PROVE Room'
  <2>1. /\ at[c] \in {"checked", "starting"} /\ UNCHANGED <<fut, job, jobs>>
        /\ \/ at' = [at EXCEPT ![c] = "put"]
           \/ at' = [at EXCEPT ![c] = "starting"]
    BY <1>3, Zenon DEF EnsureStarted, Started
  <2>2. InUse' = InUse
    BY <2>1 DEF InUse, Referenced
  <2>3. Busy' \subseteq Busy
    BY <2>1 DEF Busy
  <2> QED
    BY <2>2, <2>3, RoomKept
<1>4. ASSUME NEW c \in Caller, PutJob(c) PROVE Room'
  <2>1. PICK j \in Job :
            /\ j.page = wanted[c] /\ j.fut \in Future
            /\ fut' = [fut EXCEPT ![c] = j.fut]
            /\ ~Referenced(j.fut)
            /\ \A i \in 1..Len(jobs') :
                   (i \in 1..Len(jobs) /\ jobs'[i] = jobs[i]) \/ jobs'[i] = j
    BY <1>4, PutJobIsNew
  <2>2. at[c] = "put" /\ at' = [at EXCEPT ![c] = "wait"] /\ job' = job
    BY <1>4 DEF PutJob
  <2>3. Busy' = Busy \ {c} /\ c \in Busy
    BY <2>2 DEF Busy
  <2>4. Cardinality(Busy') = Cardinality(Busy) - 1
    BY <2>3, FiniteSets, FS_RemoveElement
  <2>5. InUse' \subseteq InUse \cup {j.fut}
    <3> SUFFICES ASSUME NEW g \in Future, Referenced(g)', g # j.fut PROVE Referenced(g)
      BY DEF InUse
    <3>1. CASE \E d \in Caller : fut'[d] = g
      BY <2>1, <3>1 DEF Referenced
    <3>2. CASE \E t \in Thread : job'[t] # None /\ job'[t].fut = g
      BY <2>2, <3>2 DEF Referenced
    <3>3. CASE \E i \in 1..Len(jobs') : jobs'[i] # None /\ jobs'[i].fut = g
      BY <2>1, <3>3, Zenon DEF Referenced
    <3> QED
      BY <3>1, <3>2, <3>3 DEF Referenced
  <2>6. j.fut \notin InUse
    BY <2>1 DEF InUse
  <2>7. IsFiniteSet(InUse \cup {j.fut}) /\ Cardinality(InUse \cup {j.fut}) = Cardinality(InUse) + 1
    BY <2>6, FiniteSets, FS_AddElement
  <2>8. Cardinality(InUse') <= Cardinality(InUse) + 1 /\ Cardinality(InUse') \in Nat
    BY <2>5, <2>7, FS_Subset, FS_CardinalityType, ZenonT(40)
  <2>9. Cardinality(InUse) + Cardinality(Busy) <= Cardinality(Future)
    BY Zenon DEF Room
  <2>10. Cardinality(InUse') + Cardinality(Busy') <= Cardinality(Future)
    BY ONLY <2>4, <2>8, <2>9, FiniteSets
  <2> QED
    BY <2>10, Zenon DEF Room
<1>5. ASSUME NEW c \in Caller, Answered(c) \/ TimesOut(c) PROVE Room'
  <2>1. /\ at' = [at EXCEPT ![c] = "idle"]
        /\ fut' = [fut EXCEPT ![c] = None]
        /\ UNCHANGED <<job, jobs>>
    BY <1>5 DEF Answered, TimesOut, Return
  <2>2. InUse' \subseteq InUse
    BY <2>1 DEF InUse, Referenced
  <2>3. Busy' \subseteq Busy
    BY <2>1 DEF Busy
  <2> QED
    BY <2>2, <2>3, RoomKept
<1>6. CASE PutSentinels
  <2>1. UNCHANGED <<at, fut, job>> /\ (jobs' = jobs \/ jobs' = Append(jobs, None))
    BY <1>6, Zenon DEF PutSentinels
  <2>2. \A i \in 1..Len(jobs') : jobs'[i] # None => i \in 1..Len(jobs) /\ jobs'[i] = jobs[i]
    BY <1>6, SentinelIsNoJob
  <2>3. InUse' \subseteq InUse
    BY <2>1, <2>2 DEF InUse, Referenced
  <2>4. Busy' \subseteq Busy
    BY <2>1 DEF Busy
  <2> QED
    BY <2>3, <2>4, RoomKept
<1>7. ASSUME NEW t \in Thread, Take(t) PROVE Room'
  <2>1. /\ 1 \in 1..Len(jobs)
        /\ \A i \in 1..Len(jobs') : i + 1 \in 1..Len(jobs) /\ jobs'[i] = jobs[i + 1]
        /\ job' = job \/ (jobs[1] \in Job \ {None} /\ job' = [job EXCEPT ![t] = jobs[1]])
    BY <1>7, TakeIsFirst
  <2>2. UNCHANGED <<at, fut>>
    BY <1>7 DEF Take
  <2>3. \A u \in Thread : job'[u] = job[u] \/ (job'[u] = jobs[1] /\ jobs[1] # None)
    BY <2>1
  <2>5. InUse' \subseteq InUse
    <3> SUFFICES ASSUME NEW g \in Future, Referenced(g)' PROVE Referenced(g)
      BY DEF InUse
    <3>1. CASE \E d \in Caller : fut'[d] = g
      BY <2>2, <3>1 DEF Referenced
    <3>2. CASE \E u \in Thread : job'[u] # None /\ job'[u].fut = g
      BY <2>1, <2>3, <3>2, Zenon DEF Referenced
    <3>3. CASE \E i \in 1..Len(jobs') : jobs'[i] # None /\ jobs'[i].fut = g
      BY <2>1, <3>3, ZenonT(40) DEF Referenced
    <3> QED
      BY <3>1, <3>2, <3>3 DEF Referenced
  <2>6. Busy' \subseteq Busy
    BY <2>2 DEF Busy
  <2> QED
    BY <2>5, <2>6, RoomKept
<1>8. ASSUME NEW t \in Thread, Render(t) \/ RenderFails(t) \/ RenderOnDead(t) PROVE Room'
  <2>1. job' = [job EXCEPT ![t] = None] /\ UNCHANGED <<at, fut, jobs>>
    BY <1>8 DEF Render, RenderFails, RenderOnDead, Finish
  <2>2. InUse' \subseteq InUse
    BY <2>1 DEF InUse, Referenced
  <2>3. Busy' \subseteq Busy
    BY <2>1 DEF Busy
  <2> QED
    BY <2>2, <2>3, RoomKept
<1>9. ASSUME NEW c \in Caller, StartThread(c) PROVE UNCHANGED <<at, fut, job, jobs>>
  BY <1>9 DEF StartThread
<1>10. ASSUME BeginClose \/ Join PROVE UNCHANGED <<at, fut, job, jobs>>
  BY <1>10 DEF BeginClose, Join
<1>11. ASSUME NEW t \in Thread, Launch(t) \/ ChromiumDies(t)
       PROVE  UNCHANGED <<at, fut, job, jobs>>
  BY <1>11 DEF Launch, ChromiumDies
<1>12. CASE UNCHANGED vars
  BY <1>1, <1>12 DEF vars
<1> QED
  BY <1>1, <1>2, <1>3, <1>4, <1>5, <1>6, <1>7, <1>8, <1>9, <1>10, <1>11, <1>12
     DEF Next, CallerStep, CloseStep, WorkerStep
-----------------------------------------------------------------------------
(* What the properties rest on *)

LEMMA JobsFaithfulStep ==
    TypeOK /\ CallerOK /\ Room /\ JobsFaithful /\ [Next]_vars => JobsFaithful'
<1> SUFFICES ASSUME TypeOK, CallerOK, Room, JobsFaithful, [Next]_vars PROVE JobsFaithful'
  OBVIOUS
<1>0. /\ None \notin Future /\ fut \in [Caller -> Future \cup {None}]
      /\ wanted \in [Caller -> Pages \cup {None}] /\ job \in [Thread -> Job \cup {None}]
      /\ \A i \in 1..Len(jobs) : jobs[i] \in Job \cup {None}
      /\ \A j \in Job : j.fut \in Future
  <2>1. None \notin Future
    BY PoolAssumption, Zenon
  <2>2. /\ fut \in [Caller -> Future \cup {None}]
        /\ wanted \in [Caller -> Pages \cup {None}] /\ job \in [Thread -> Job \cup {None}]
        /\ jobs \in Seq(Job \cup {None})
    BY Zenon DEF TypeOK
  <2>3. \A i \in 1..Len(jobs) : jobs[i] \in Job \cup {None}
    BY <2>2, ElementOfSeq
  <2>4. \A j \in Job : j.fut \in Future
    BY DEF Job
  <2> QED
    BY <2>1, <2>2, <2>3, <2>4, Zenon
<1>1. ASSUME NEW c \in Caller, Call(c) PROVE JobsFaithful'
  <2>1. fut[c] = None
    BY <1>0, <1>1 DEF Call, CallerOK
  <2>2. /\ UNCHANGED <<fut, job, jobs>>
        /\ \A d \in Caller \ {c} : wanted'[d] = wanted[d]
    BY <1>0, <1>1 DEF Call, workers, callers
  <2> QED
    BY <1>0, <2>1, <2>2 DEF JobsFaithful, Faithful
<1>2. ASSUME NEW c \in Caller, PutJob(c) PROVE JobsFaithful'
  <2>1. PICK j \in Job :
            /\ j.page = wanted[c] /\ j.fut \in Future
            /\ fut' = [fut EXCEPT ![c] = j.fut]
            /\ ~Referenced(j.fut)
            /\ \A i \in 1..Len(jobs') :
                   (i \in 1..Len(jobs) /\ jobs'[i] = jobs[i]) \/ jobs'[i] = j
    BY <1>2, PutJobIsNew
  <2>2. /\ UNCHANGED <<wanted, job>>
        /\ \A d \in Caller : fut'[d] = IF d = c THEN j.fut ELSE fut[d]
    BY <1>0, <1>2, <2>1 DEF PutJob, workers
  <2>3. \A t \in Thread : job'[t] # None => Faithful(job[t])'
    BY <2>1, <2>2 DEF JobsFaithful, Faithful, Referenced
  <2>4. \A d \in Caller : fut'[d] = j.fut => j.page = wanted'[d]
    BY <2>1, <2>2 DEF Referenced
  <2>5. \A i \in 1..Len(jobs) : jobs[i] # None =>
            \A d \in Caller : fut'[d] = jobs[i].fut => jobs[i].page = wanted'[d]
    BY <2>1, <2>2 DEF JobsFaithful, Faithful, Referenced
  <2>6. \A i \in 1..Len(jobs') : jobs'[i] # None =>
            \A d \in Caller : fut'[d] = jobs'[i].fut => jobs'[i].page = wanted'[d]
    BY <2>1, <2>4, <2>5, ZenonT(40)
  <2> QED
    BY <2>3, <2>6 DEF JobsFaithful, Faithful
<1>3. ASSUME NEW c \in Caller, Answered(c) \/ TimesOut(c) PROVE JobsFaithful'
  <2>1. /\ UNCHANGED <<job, jobs>> /\ fut'[c] = None
        /\ \A d \in Caller \ {c} : fut'[d] = fut[d] /\ wanted'[d] = wanted[d]
    BY <1>0, <1>3 DEF Answered, TimesOut, Return
  <2> QED
    BY <1>0, <2>1 DEF JobsFaithful, Faithful
<1>4. CASE PutSentinels
  <2>1. UNCHANGED <<fut, wanted, job>>
    BY <1>4 DEF PutSentinels, workers, callers
  <2>2. \A i \in 1..Len(jobs') : jobs'[i] # None => i \in 1..Len(jobs) /\ jobs'[i] = jobs[i]
    BY <1>4, SentinelIsNoJob
  <2>3. \A i \in 1..Len(jobs') : jobs'[i] # None =>
            \A d \in Caller : fut[d] = jobs'[i].fut => jobs'[i].page = wanted[d]
    <3> SUFFICES ASSUME NEW i \in 1..Len(jobs'), jobs'[i] # None, NEW d \in Caller,
                        fut[d] = jobs'[i].fut
                 PROVE  jobs'[i].page = wanted[d]
      BY Zenon
    <3>1. PICK j : j = jobs'[i]
      BY Zenon
    <3>2. i \in 1..Len(jobs) /\ j = jobs[i] /\ j # None /\ fut[d] = j.fut
      BY <2>2, <3>1, Zenon
    <3>3. j.page = wanted[d]
      BY <3>2 DEF JobsFaithful, Faithful
    <3> QED
      BY <3>1, <3>3, Zenon
  <2> QED
    BY <2>1, <2>3 DEF JobsFaithful, Faithful
<1>5. ASSUME NEW t \in Thread, Take(t) PROVE JobsFaithful'
  <2>1. /\ 1 \in 1..Len(jobs)
        /\ \A i \in 1..Len(jobs') : i + 1 \in 1..Len(jobs) /\ jobs'[i] = jobs[i + 1]
        /\ job' = job \/ (jobs[1] \in Job \ {None} /\ job' = [job EXCEPT ![t] = jobs[1]])
    BY <1>5, TakeIsFirst
  <2>2. UNCHANGED <<fut, wanted>>
    BY <1>5 DEF Take, callers
  <2>3. \A u \in Thread : job'[u] = job[u] \/ (job'[u] = jobs[1] /\ jobs[1] # None)
    BY <1>0, <2>1
  <2>4. \A u \in Thread : job'[u] # None =>
            \A d \in Caller : fut[d] = job'[u].fut => job'[u].page = wanted[d]
    <3> SUFFICES ASSUME NEW u \in Thread, job'[u] # None, NEW d \in Caller,
                        fut[d] = job'[u].fut
                 PROVE  job'[u].page = wanted[d]
      BY Zenon
    <3>1. PICK j : j = job'[u]
      BY Zenon
    <3>2. j # None /\ fut[d] = j.fut /\ (j = job[u] \/ j = jobs[1])
      BY <2>3, <3>1, Zenon
    <3>3. j.page = wanted[d]
      BY <2>1, <3>2 DEF JobsFaithful, Faithful
    <3> QED
      BY <3>1, <3>3, Zenon
  <2>5. \A i \in 1..Len(jobs') : jobs'[i] # None =>
            \A d \in Caller : fut[d] = jobs'[i].fut => jobs'[i].page = wanted[d]
    <3> SUFFICES ASSUME NEW i \in 1..Len(jobs'), jobs'[i] # None, NEW d \in Caller,
                        fut[d] = jobs'[i].fut
                 PROVE  jobs'[i].page = wanted[d]
      BY Zenon
    <3>1. PICK j : j = jobs'[i]
      BY Zenon
    <3>2. i + 1 \in 1..Len(jobs) /\ j = jobs[i + 1] /\ j # None /\ fut[d] = j.fut
      BY <2>1, <3>1, Zenon
    <3>3. j.page = wanted[d]
      BY <3>2 DEF JobsFaithful, Faithful
    <3> QED
      BY <3>1, <3>3, Zenon
  <2> QED
    BY <2>2, <2>4, <2>5 DEF JobsFaithful, Faithful
<1>6. ASSUME NEW t \in Thread, Render(t) \/ RenderFails(t) \/ RenderOnDead(t)
      PROVE  JobsFaithful'
  <2>1. job' = [job EXCEPT ![t] = None] /\ UNCHANGED <<fut, wanted, jobs>>
    BY <1>6 DEF Render, RenderFails, RenderOnDead, Finish, callers
  <2> QED
    BY <1>0, <2>1 DEF JobsFaithful, Faithful
<1>7. CASE UNCHANGED <<fut, wanted, job, jobs>>
  BY <1>7 DEF JobsFaithful, Faithful
<1>8. ASSUME NEW c \in Caller, EnsureStarted(c) \/ StartThread(c) \/ Started(c)
      PROVE  UNCHANGED <<fut, wanted, job, jobs>>
  BY <1>8 DEF EnsureStarted, StartThread, Started, callers, workers
<1>9. ASSUME BeginClose \/ Join PROVE UNCHANGED <<fut, wanted, job, jobs>>
  BY <1>9 DEF BeginClose, Join, callers, workers
<1>10. ASSUME NEW t \in Thread, Launch(t) \/ ChromiumDies(t)
       PROVE  UNCHANGED <<fut, wanted, job, jobs>>
  BY <1>10 DEF Launch, ChromiumDies, callers, workers
<1>11. CASE UNCHANGED vars
  BY <1>7, <1>11 DEF vars, callers, workers
<1> QED
  BY <1>1, <1>2, <1>3, <1>4, <1>5, <1>6, <1>7, <1>8, <1>9, <1>10, <1>11
     DEF Next, CallerStep, CloseStep, WorkerStep

LEMMA AnswersWantedStep ==
    TypeOK /\ CallerOK /\ Room /\ ThreadOK /\ AnswersWanted /\ [Next]_vars
        => AnswersWanted'
<1> SUFFICES ASSUME TypeOK, CallerOK, Room, ThreadOK, AnswersWanted, [Next]_vars
             PROVE  AnswersWanted'
  OBVIOUS
<1>0. /\ None \notin Future /\ fut \in [Caller -> Future \cup {None}]
      /\ answer \in [Future -> Pages \cup {"", None}]
      /\ \A j \in Job : j.fut \in Future
  BY PoolAssumption DEF TypeOK, Job
<1>1. ASSUME NEW c \in Caller, PutJob(c) PROVE AnswersWanted'
  <2>1. PICK j \in Job : j.fut \in Future /\ fut' = [fut EXCEPT ![c] = j.fut]
    BY <1>1, PutJobIsNew
  <2>2. fut[c] = None /\ answer' = answer
    BY <1>0, <1>1 DEF PutJob, CallerOK
  <2> QED
    BY <1>0, <2>1, <2>2 DEF AnswersWanted
<1>2. ASSUME NEW c \in Caller, Answered(c) \/ TimesOut(c) PROVE AnswersWanted'
  <2>1. /\ fut[c] \in Future
        /\ fut' = [fut EXCEPT ![c] = None]
        /\ answer' = [answer EXCEPT ![fut[c]] = None]
    BY <1>2 DEF Answered, TimesOut, Return, CallerOK
  <2> QED
    BY <1>0, <2>1 DEF AnswersWanted
<1>3. ASSUME NEW t \in Thread, Render(t) \/ RenderFails(t) \/ RenderOnDead(t)
      PROVE  AnswersWanted'
  <2>1. PICK html : Finish(t, html)
    BY <1>3 DEF Render, RenderFails, RenderOnDead
  <2>2. job[t].fut \in Future
    BY <1>0, <1>3 DEF ThreadOK, Render, RenderFails, RenderOnDead
  <2> QED
    BY <1>0, <2>1, <2>2 DEF AnswersWanted, Finish, callers
<1>4. CASE UNCHANGED <<fut, answer>>
  BY <1>4 DEF AnswersWanted
<1>5. ASSUME NEW c \in Caller, Call(c) \/ EnsureStarted(c) \/ StartThread(c) \/ Started(c)
      PROVE  UNCHANGED <<fut, answer>>
  BY <1>5 DEF Call, EnsureStarted, StartThread, Started, callers
<1>6. ASSUME BeginClose \/ CloseStep PROVE UNCHANGED <<fut, answer>>
  BY <1>6 DEF BeginClose, CloseStep, PutSentinels, Join, callers
<1>7. ASSUME NEW t \in Thread, Take(t) \/ Launch(t) \/ ChromiumDies(t)
      PROVE  UNCHANGED <<fut, answer>>
  BY <1>7 DEF Take, Launch, ChromiumDies, callers
<1>8. CASE UNCHANGED vars
  BY <1>4, <1>8 DEF vars, callers
<1> QED
  BY <1>1, <1>2, <1>3, <1>4, <1>5, <1>6, <1>7, <1>8 DEF Next, CallerStep, WorkerStep
LEMMA DeadHurtStep ==
    /\ TypeOK /\ CallerOK /\ OneEach /\ Room /\ ThreadOK /\ DeadHurt
    /\ [Next]_vars
    => DeadHurt'
<1> SUFFICES ASSUME TypeOK, CallerOK, OneEach, Room, ThreadOK, DeadHurt, [Next]_vars
             PROVE  DeadHurt'
  OBVIOUS
<1>0. /\ None \notin Future /\ fut \in [Caller -> Future \cup {None}]
      /\ stage \in [Thread -> {"unborn", "get", "launch", "render", "exited"}]
      /\ job \in [Thread -> Job \cup {None}]
      /\ chromium \in [Thread -> {"none", "up", "dead"}]
      /\ \A j \in Job : j.fut \in Future
  BY PoolAssumption DEF TypeOK, Job
<1>1. ASSUME NEW c \in Caller, StartThread(c) PROVE DeadHurt'
  <2>1. /\ UNCHANGED <<fut, job, chromium, hurt>>
        /\ stage' = stage \/ stage' = [stage EXCEPT ![threads + 1] = "get"]
    BY <1>1, Zenon DEF StartThread, callers
  <2>2. \A t \in Thread : stage'[t] = stage[t] \/ stage'[t] = "get"
    BY <1>0, <2>1
  <2> QED
    BY <2>1, <2>2 DEF DeadHurt
<1>2. ASSUME NEW c \in Caller, PutJob(c) PROVE DeadHurt'
  <2>1. PICK j \in Job :
            j.fut \in Future /\ fut' = [fut EXCEPT ![c] = j.fut] /\ ~Referenced(j.fut)
    BY <1>2, PutJobIsNew
  <2>2. UNCHANGED <<stage, job, chromium, hurt>>
    BY <1>2 DEF PutJob, workers
  <2>3. \A t \in Thread : stage[t] = "render" => job[t].fut # j.fut
    BY <2>1 DEF ThreadOK, Referenced
  <2> QED
    BY <1>0, <2>1, <2>2, <2>3 DEF DeadHurt
<1>3. ASSUME NEW c \in Caller, Answered(c) \/ TimesOut(c) PROVE DeadHurt'
  <2>1. /\ UNCHANGED <<stage, job, chromium>> /\ hurt' = hurt \ {fut[c]}
        /\ fut' = [fut EXCEPT ![c] = None] /\ fut[c] \in Future
    BY <1>3 DEF Answered, TimesOut, Return, CallerOK
  <2>2. ASSUME NEW t \in Thread, stage[t] = "render", chromium[t] = "dead"
        PROVE  job[t].fut \in hurt' \/ \A d \in Caller : fut'[d] # job[t].fut
    <3>1. job[t].fut \in Future
      BY <1>0, <2>2 DEF ThreadOK
    <3>2. CASE job[t].fut = fut[c]
      BY <1>0, <2>1, <3>1, <3>2 DEF OneEach
    <3>3. CASE job[t].fut # fut[c]
      BY <1>0, <2>1, <2>2, <3>1, <3>3 DEF DeadHurt
    <3> QED
      BY <3>2, <3>3
  <2> QED
    BY <2>1, <2>2 DEF DeadHurt
<1>4. ASSUME NEW t \in Thread, Take(t) PROVE DeadHurt'
  <2>1. /\ UNCHANGED <<fut, hurt>>
        /\ job' = job \/ job' = [job EXCEPT ![t] = Head(jobs)]
        /\ chromium' = chromium \/ chromium' = [chromium EXCEPT ![t] = "none"]
        /\ stage' = [stage EXCEPT ![t] = "exited"] \/ stage' = [stage EXCEPT ![t] = "launch"]
    BY <1>4, Zenon DEF Take, callers
  <2>2. stage'[t] # "render"
    BY <1>0, <2>1
  <2>3. \A u \in Thread \ {t} :
            stage'[u] = stage[u] /\ job'[u] = job[u] /\ chromium'[u] = chromium[u]
    BY <1>0, <2>1
  <2> QED
    BY <2>1, <2>2, <2>3 DEF DeadHurt
<1>5. ASSUME NEW t \in Thread, Launch(t) PROVE DeadHurt'
  BY <1>0, <1>5 DEF Launch, DeadHurt, callers
<1>6. ASSUME NEW t \in Thread, Render(t) \/ RenderFails(t) \/ RenderOnDead(t)
      PROVE  DeadHurt'
  <2>1. /\ UNCHANGED fut /\ hurt \subseteq hurt' /\ stage'[t] = "get"
    BY <1>0, <1>6 DEF Render, RenderFails, RenderOnDead, Finish, callers
  <2>2. \A u \in Thread \ {t} :
            stage'[u] = stage[u] /\ job'[u] = job[u] /\ chromium'[u] = chromium[u]
    BY <1>0, <1>6 DEF Render, RenderFails, RenderOnDead, Finish
  <2> QED
    BY <2>1, <2>2 DEF DeadHurt
<1>7. ASSUME NEW t \in Thread, ChromiumDies(t) PROVE DeadHurt'
  <2>1. /\ UNCHANGED <<fut, stage, job>> /\ hurt \subseteq hurt'
        /\ stage[t] = "render" => job[t].fut \in hurt'
        /\ \A u \in Thread \ {t} : chromium'[u] = chromium[u]
    BY <1>0, <1>7 DEF ChromiumDies, callers
  <2> QED
    BY <2>1 DEF DeadHurt
<1>8. CASE UNCHANGED <<fut, stage, job, chromium, hurt>>
  BY <1>8 DEF DeadHurt
<1>9. ASSUME NEW c \in Caller, Call(c) \/ EnsureStarted(c) \/ Started(c)
      PROVE  UNCHANGED <<fut, stage, job, chromium, hurt>>
  BY <1>9 DEF Call, EnsureStarted, Started, workers
<1>10. ASSUME BeginClose \/ CloseStep PROVE UNCHANGED <<fut, stage, job, chromium, hurt>>
  BY <1>10 DEF BeginClose, CloseStep, PutSentinels, Join, callers, workers
<1>11. CASE UNCHANGED vars
  BY <1>8, <1>11 DEF vars, callers, workers
<1> QED
  BY <1>1, <1>2, <1>3, <1>4, <1>5, <1>6, <1>7, <1>8, <1>9, <1>10, <1>11
     DEF Next, CallerStep, WorkerStep

LEMMA OwnPageStep ==
    /\ TypeOK /\ CallerOK /\ Room /\ ThreadOK /\ JobsFaithful /\ AnswersWanted
    /\ OwnPageOrNothing /\ [Next]_vars
    => OwnPageOrNothing'
<1> SUFFICES ASSUME TypeOK, CallerOK, Room, ThreadOK, JobsFaithful, AnswersWanted,
                    OwnPageOrNothing, [Next]_vars
             PROVE  OwnPageOrNothing'
  OBVIOUS
<1>0. /\ None \notin Future /\ fut \in [Caller -> Future \cup {None}]
      /\ at \in [Caller -> {"idle", "checked", "starting", "put", "wait"}]
      /\ wanted \in [Caller -> Pages \cup {None}]
      /\ answer \in [Future -> Pages \cup {"", None}]
      /\ \A j \in Job : j.fut \in Future
      /\ \A c \in Caller : at[c] = "wait" => fut[c] \in Future
  BY PoolAssumption DEF TypeOK, Job, CallerOK
<1>1. ASSUME NEW c \in Caller, Call(c) PROVE OwnPageOrNothing'
  <2>1. /\ UNCHANGED <<fut, answer>> /\ at'[c] = "checked"
        /\ \A d \in Caller \ {c} : at'[d] = at[d] /\ wanted'[d] = wanted[d]
    BY <1>0, <1>1 DEF Call
  <2> QED
    BY <2>1 DEF OwnPageOrNothing
<1>2. ASSUME NEW c \in Caller, EnsureStarted(c) \/ Started(c) PROVE OwnPageOrNothing'
  <2>1. /\ UNCHANGED <<fut, answer, wanted>>
        /\ at' = [at EXCEPT ![c] = "put"] \/ at' = [at EXCEPT ![c] = "starting"]
    BY <1>2, Zenon DEF EnsureStarted, Started
  <2> QED
    BY <1>0, <2>1 DEF OwnPageOrNothing
<1>3. ASSUME NEW c \in Caller, PutJob(c) PROVE OwnPageOrNothing'
  <2>1. PICK j \in Job :
            j.fut \in Future /\ fut' = [fut EXCEPT ![c] = j.fut] /\ ~Referenced(j.fut)
    BY <1>3, PutJobIsNew
  <2>2. UNCHANGED <<wanted, answer>> /\ at' = [at EXCEPT ![c] = "wait"]
    BY <1>3 DEF PutJob
  <2>3. answer[j.fut] = None
    BY <2>1 DEF AnswersWanted, Referenced
  <2> QED
    BY <1>0, <2>1, <2>2, <2>3 DEF OwnPageOrNothing
<1>4. ASSUME NEW c \in Caller, Answered(c) \/ TimesOut(c) PROVE OwnPageOrNothing'
  <2>1. /\ fut[c] \in Future /\ at'[c] = "idle"
        /\ answer' = [answer EXCEPT ![fut[c]] = None]
        /\ \A d \in Caller \ {c} : at'[d] = at[d] /\ fut'[d] = fut[d] /\ wanted'[d] = wanted[d]
    BY <1>0, <1>4 DEF Answered, TimesOut, Return
  <2>2. \A d \in Caller \ {c} : at[d] = "wait" => answer'[fut[d]] \in {answer[fut[d]], None}
    BY <1>0, <2>1
  <2> QED
    BY <2>1, <2>2, ZenonT(40) DEF OwnPageOrNothing
<1>5. ASSUME NEW t \in Thread, Render(t) \/ RenderFails(t) \/ RenderOnDead(t)
      PROVE  OwnPageOrNothing'
  <2>1. PICK html \in {"", job[t].page} : Finish(t, html)
    BY <1>5 DEF Render, RenderFails, RenderOnDead
  <2>2. job[t] # None /\ job[t].fut \in Future
    BY <1>0, <1>5 DEF ThreadOK, Render, RenderFails, RenderOnDead
  <2>3. /\ UNCHANGED <<at, fut, wanted>>
        /\ answer' = answer \/ answer' = [answer EXCEPT ![job[t].fut] = html]
    BY <2>1, Zenon DEF Finish, callers
  <2>4. \A d \in Caller : fut[d] = job[t].fut => html \in {"", wanted[d]}
    BY <2>1, <2>2 DEF JobsFaithful, Faithful
  <2>5. ASSUME NEW d \in Caller, at[d] = "wait"
        PROVE  answer'[fut[d]] \in {None, "", wanted[d]}
    <3>1. answer[fut[d]] \in {None, "", wanted[d]} /\ fut[d] \in Future
      BY <1>0, <2>5 DEF OwnPageOrNothing
    <3> QED
      BY <1>0, <2>2, <2>3, <2>4, <3>1
  <2> QED
    BY <2>3, <2>5 DEF OwnPageOrNothing
<1>6. CASE UNCHANGED <<at, fut, wanted, answer>>
  BY <1>6 DEF OwnPageOrNothing
<1>7. ASSUME NEW c \in Caller, StartThread(c) PROVE UNCHANGED <<at, fut, wanted, answer>>
  BY <1>7 DEF StartThread, callers
<1>8. ASSUME BeginClose \/ CloseStep PROVE UNCHANGED <<at, fut, wanted, answer>>
  BY <1>8 DEF BeginClose, CloseStep, PutSentinels, Join, callers
<1>9. ASSUME NEW t \in Thread, Take(t) \/ Launch(t) \/ ChromiumDies(t)
      PROVE  UNCHANGED <<at, fut, wanted, answer>>
  BY <1>9 DEF Take, Launch, ChromiumDies, callers
<1>10. CASE UNCHANGED vars
  BY <1>6, <1>10 DEF vars, callers
<1> QED
  BY <1>1, <1>2, <1>3, <1>4, <1>5, <1>6, <1>7, <1>8, <1>9, <1>10
     DEF Next, CallerStep, WorkerStep

LEMMA CrashIsolatedStep ==
    TypeOK /\ CallerOK /\ ThreadOK /\ DeadHurt /\ CrashIsolated /\ [Next]_vars
        => CrashIsolated'
<1> SUFFICES ASSUME TypeOK, CallerOK, ThreadOK, DeadHurt, CrashIsolated, [Next]_vars
             PROVE  CrashIsolated'
  OBVIOUS
<1>0. /\ None # "" /\ "" \notin Pages
      /\ answer \in [Future -> Pages \cup {"", None}]
      /\ \A j \in Job : j.fut \in Future /\ j.page \in Pages
  BY PoolAssumption DEF TypeOK, Job
<1>1. ASSUME NEW c \in Caller, Answered(c) \/ TimesOut(c) PROVE CrashIsolated'
  <2>1. /\ fut[c] \in Future /\ hurt' = hurt \ {fut[c]}
        /\ answer' = [answer EXCEPT ![fut[c]] = None]
    BY <1>1 DEF Answered, TimesOut, Return, CallerOK
  <2> QED
    BY <1>0, <2>1 DEF CrashIsolated
<1>2. ASSUME NEW t \in Thread, Render(t) PROVE CrashIsolated'
  <2>1. job[t].fut \in Future /\ job[t].page # ""
    BY <1>0, <1>2 DEF ThreadOK, Render
  <2>2. /\ hurt' = hurt
        /\ answer' = answer \/ answer' = [answer EXCEPT ![job[t].fut] = job[t].page]
    BY <1>2, Zenon DEF Render, Finish
  <2> QED
    BY <1>0, <2>1, <2>2 DEF CrashIsolated
<1>3. ASSUME NEW t \in Thread, RenderFails(t) PROVE CrashIsolated'
  <2>1. /\ hurt' = hurt \cup {job[t].fut}
        /\ answer' = answer \/ answer' = [answer EXCEPT ![job[t].fut] = ""]
    BY <1>3, Zenon DEF RenderFails, Finish
  <2> QED
    BY <1>0, <2>1 DEF CrashIsolated
<1>4. ASSUME NEW t \in Thread, RenderOnDead(t) PROVE CrashIsolated'
  <2>1. hurt' = hurt /\ (job[t].fut \in hurt \/ \A c \in Caller : fut[c] # job[t].fut)
    BY <1>4 DEF RenderOnDead, DeadHurt
  <2>2. CASE job[t].fut \in hurt
    <3>1. answer' = answer \/ answer' = [answer EXCEPT ![job[t].fut] = ""]
      BY <1>4, Zenon DEF RenderOnDead, Finish
    <3> QED
      BY <1>0, <2>1, <2>2, <3>1 DEF CrashIsolated
  <2>3. CASE \A c \in Caller : fut[c] # job[t].fut
    <3>1. answer' = answer
      BY <1>4, <2>3, Zenon DEF RenderOnDead, Finish
    <3> QED
      BY <2>1, <3>1 DEF CrashIsolated
  <2> QED
    BY <2>1, <2>2, <2>3
<1>5. ASSUME NEW t \in Thread, ChromiumDies(t) PROVE CrashIsolated'
  <2>1. answer' = answer /\ hurt \subseteq hurt'
    BY <1>5 DEF ChromiumDies
  <2> QED
    BY <2>1 DEF CrashIsolated
<1>6. CASE UNCHANGED <<answer, hurt>>
  BY <1>6 DEF CrashIsolated
<1>7. ASSUME NEW c \in Caller,
             Call(c) \/ EnsureStarted(c) \/ StartThread(c) \/ Started(c) \/ PutJob(c)
      PROVE  UNCHANGED <<answer, hurt>>
  BY <1>7 DEF Call, EnsureStarted, StartThread, Started, PutJob, workers
<1>8. ASSUME BeginClose \/ CloseStep PROVE UNCHANGED <<answer, hurt>>
  BY <1>8 DEF BeginClose, CloseStep, PutSentinels, Join, workers
<1>9. ASSUME NEW t \in Thread, Take(t) \/ Launch(t) PROVE UNCHANGED <<answer, hurt>>
  BY <1>9 DEF Take, Launch
<1>10. CASE UNCHANGED vars
  BY <1>6, <1>10 DEF vars, workers
<1> QED
  BY <1>1, <1>2, <1>3, <1>4, <1>5, <1>6, <1>7, <1>8, <1>9, <1>10
     DEF Next, CallerStep, WorkerStep

-----------------------------------------------------------------------------
(* The theorems *)

LEMMA InitIInv == Init => IInv
<1> SUFFICES ASSUME Init PROVE IInv
  OBVIOUS
<1>1. Size \in 1..8 /\ None \notin Future /\ None # ""
  BY PoolAssumption, Zenon
<1>2. 0 \in 0..Size
  <2>1. Size \in 1..8
    BY <1>1
  <2> QED
    BY ONLY <2>1
<1>3. jobs = <<>> /\ Len(jobs) = 0 /\ jobs \in Seq(Job \cup {None})
  BY EmptySeq DEF Init
<1>4. /\ at = [c \in Caller |-> "idle"] /\ wanted = [c \in Caller |-> None]
      /\ fut = [c \in Caller |-> None] /\ answer = [f \in Future |-> None]
      /\ stage = [t \in Thread |-> "unborn"] /\ job = [t \in Thread |-> None]
      /\ chromium = [t \in Thread |-> "none"] /\ hurt = {}
  BY Zenon DEF Init
<1>5. /\ lock = None /\ threads = 0 /\ next = 0 /\ closer = "open"
      /\ started \in BOOLEAN /\ closed \in BOOLEAN /\ whole \in BOOLEAN
  BY Zenon DEF Init
<1>6. TypeOK
  BY <1>2, <1>3, <1>4, <1>5 DEF TypeOK
<1>7. CallerOK /\ OneEach
  BY <1>1, <1>4 DEF CallerOK, OneEach
<1>8. Room
  <2>1. \A f \in Future : ~Referenced(f)
    <3>1. \A i \in 1..Len(jobs) : FALSE
      <4>1. Len(jobs) = 0
        BY <1>3
      <4> QED
        BY ONLY <4>1
    <3> QED
      BY <1>1, <1>4, <3>1 DEF Referenced
  <2>2. InUse = {} /\ Busy = {}
    BY <1>4, <2>1 DEF InUse, Busy
  <2>3. Cardinality({}) = 0
    BY FS_EmptySet
  <2>4. Cardinality(InUse) = 0 /\ Cardinality(Busy) = 0
    BY <2>2, <2>3, Zenon
  <2> QED
    BY ONLY <2>4, FiniteSets DEF Room
<1>9. ThreadOK /\ AnswersWanted /\ DeadHurt
  BY <1>4 DEF ThreadOK, AnswersWanted, DeadHurt
<1>10. JobsFaithful
  BY <1>3, <1>4 DEF JobsFaithful
<1>11. OwnPageOrNothing /\ CrashIsolated
  BY <1>1, <1>4 DEF OwnPageOrNothing, CrashIsolated
<1> QED
  BY <1>6, <1>7, <1>8, <1>9, <1>10, <1>11 DEF IInv

LEMMA NextIInv == IInv /\ [Next]_vars => IInv'
<1> SUFFICES ASSUME IInv, [Next]_vars PROVE IInv'
  OBVIOUS
<1> QED
  BY TypeStep, CallersStep, ThreadsStep, RoomStep, JobsFaithfulStep, AnswersWantedStep,
     DeadHurtStep, OwnPageStep, CrashIsolatedStep DEF IInv

\* The inductive invariant: callers, futures, jobs and browsers of BrowserPool
\* agree with each other whatever the order of their steps.
THEOREM Invariance == Spec => []IInv
<1>1. Init => IInv
  BY InitIInv
<1>2. IInv /\ [Next]_vars => IInv'
  BY NextIInv
<1> QED
  BY <1>1, <1>2, PTL DEF Spec

\* The variables of BrowserPool keep their types, and no more threads are started
\* than the pool has.
THEOREM TypeCorrect == Spec => []TypeOK
<1>1. IInv => TypeOK
  BY DEF IInv
<1> QED
  BY <1>1, Invariance, PTL

\* render() answers a caller with the page it asked for or with nothing, also
\* when answers come after the time-out of the call they belong to.
THEOREM OwnPage == Spec => []OwnPageOrNothing
<1>1. IInv => OwnPageOrNothing
  BY DEF IInv
<1> QED
  BY <1>1, Invariance, PTL

\* A browser that died costs only the page it was on: _worker_loop replaces it
\* before it takes up the next one.
THEOREM CrashesIsolated == Spec => []CrashIsolated
<1>1. IInv => CrashIsolated
  BY DEF IInv
<1> QED
  BY <1>1, Invariance, PTL

-----------------------------------------------------------------------------
(* Counting the sentinels of a queue *)

Count(q, l) == Cardinality({i \in DOMAIN q : q[i] = l})

\* What one element adds to the count of l.
One(x, l) == IF x = l THEN 1 ELSE 0

\* The places of a value in a finite function are finitely many.
LEMMA PlacesFinite ==
    ASSUME NEW q, IsFiniteSet(DOMAIN q), NEW l
    PROVE  IsFiniteSet({i \in DOMAIN q : q[i] = l})
BY FS_Subset

\* A count is a number, and zero when the value is nowhere.
LEMMA CountNat ==
    ASSUME NEW q, IsFiniteSet(DOMAIN q), NEW l
    PROVE  /\ Count(q, l) \in Nat
           /\ Count(q, l) = 0 <=> \A i \in DOMAIN q : q[i] # l
<1> DEFINE P == {i \in DOMAIN q : q[i] = l}
<1>1. IsFiniteSet(P)
  BY PlacesFinite
<1>2. Cardinality(P) \in Nat /\ (Cardinality(P) = 0 <=> P = {})
  BY <1>1, FS_CardinalityType, FS_EmptySet
<1> QED
  BY <1>2 DEF Count

\* The places of a queue are finitely many.
LEMMA SeqDomainFinite ==
    ASSUME NEW S, NEW q \in Seq(S)
    PROVE  DOMAIN q = 1..Len(q) /\ Len(q) \in Nat /\ IsFiniteSet(DOMAIN q)
BY LenProperties, FS_Interval

\* An element appended is counted once.
LEMMA CountAppend ==
    ASSUME NEW S, NEW q \in Seq(S), NEW x \in S, NEW l
    PROVE  Count(Append(q, x), l) = Count(q, l) + One(x, l)
<1> DEFINE r == Append(q, x)
           P == {i \in DOMAIN q : q[i] = l}
           R == {i \in DOMAIN r : r[i] = l}
           n == Len(q) + 1
<1>0. Count(q, l) = Cardinality(P) /\ Count(r, l) = Cardinality(R)
  BY DEF Count
<1>1. DOMAIN q = 1..Len(q) /\ Len(q) \in Nat /\ IsFiniteSet(P)
  BY SeqDomainFinite, PlacesFinite
<1>2. DOMAIN r = 1..n /\ r[n] = x /\ \A i \in 1..Len(q) : r[i] = q[i]
  BY AppendProperties, LenProperties
<1>3. CASE x = l
  <2>1. R = P \cup {n} /\ n \notin P
    BY <1>1, <1>2, <1>3
  <2>2. Cardinality(R) = Cardinality(P) + 1
    BY <1>1, <2>1, FS_AddElement
  <2> QED
    BY <2>2, <1>0, <1>3 DEF One
<1>4. CASE x # l
  <2>1. R = P
    BY <1>1, <1>2, <1>4
  <2>2. Cardinality(P) \in Nat
    BY <1>1, FS_CardinalityType
  <2> HIDE DEF P, R
  <2> QED
    BY <2>1, <2>2, <1>0, <1>4 DEF One
<1> QED
  BY <1>3, <1>4

\* The head taken from a queue is counted once less.
LEMMA CountTail ==
    ASSUME NEW S, NEW q \in Seq(S), q # <<>>, NEW l
    PROVE  Count(q, l) = Count(Tail(q), l) + One(Head(q), l)
<1> DEFINE r == Tail(q)
           P == {i \in DOMAIN q : q[i] = l}
           R == {i \in DOMAIN r : r[i] = l}
           Q == P \ {1}
           f == [i \in R |-> i + 1]
<1>0. Count(q, l) = Cardinality(P) /\ Count(r, l) = Cardinality(R)
  BY DEF Count
<1>1. /\ DOMAIN q = 1..Len(q) /\ Len(q) \in Nat \ {0} /\ IsFiniteSet(P)
      /\ r \in Seq(S) /\ Head(q) = q[1]
  <2>1. DOMAIN q = 1..Len(q) /\ Len(q) \in Nat \ {0} /\ r \in Seq(S)
    BY LenProperties, HeadTailProperties, EmptySeq
  <2>2. IsFiniteSet(P)
    BY SeqDomainFinite, PlacesFinite
  <2> QED
    BY <2>1, <2>2
<1>2. /\ DOMAIN r = 1..(Len(q) - 1) /\ IsFiniteSet(R)
      /\ \A i \in 1..(Len(q) - 1) : r[i] = q[i + 1]
  <2>1. Len(r) = Len(q) - 1 /\ \A i \in 1..Len(r) : r[i] = q[i + 1]
    BY HeadTailProperties
  <2>2. DOMAIN r = 1..Len(r) /\ IsFiniteSet(DOMAIN r)
    BY <1>1, SeqDomainFinite
  <2>3. IsFiniteSet(R)
    BY <2>2, PlacesFinite
  <2> QED
    BY <2>1, <2>2, <2>3
<1>3. f \in Bijection(R, Q)
  <2>1. f \in [R -> Q]
    BY <1>1, <1>2
  <2>2. \A i, j \in R : f[i] = f[j] => i = j
    BY <1>1, <1>2
  <2>3. \A k \in Q : \E i \in R : f[i] = k
    <3> SUFFICES ASSUME NEW k \in Q PROVE \E i \in R : f[i] = k
      OBVIOUS
    <3>1. k - 1 \in R /\ f[k - 1] = k
      BY <1>1, <1>2
    <3> QED
      BY <3>1
  <2> QED
    BY <2>1, <2>2, <2>3, Fun_IsBij
<1>4. IsFiniteSet(Q) /\ Cardinality(Q) = Cardinality(R) /\ Cardinality(R) \in Nat
  BY <1>2, <1>3, FS_Bijection, FS_CardinalityType, ZenonT(40) DEF ExistsBijection
<1>5. CASE q[1] = l
  <2>1. P = Q \cup {1} /\ 1 \notin Q
    BY <1>1, <1>5
  <2>2. Cardinality(P) = Cardinality(Q) + 1
    BY <1>4, <2>1, FS_AddElement
  <2> QED
    BY <2>2, <1>0, <1>1, <1>4, <1>5 DEF One
<1>6. CASE q[1] # l
  <2>1. P = Q
    BY <1>1, <1>6
  <2> HIDE DEF P, Q, R
  <2> QED
    BY <2>1, <1>0, <1>1, <1>4, <1>6 DEF One
<1> QED
  BY <1>5, <1>6

-----------------------------------------------------------------------------
(* The start and the end of the browser threads *)

Exited == {t \in Thread : stage[t] = "exited"}

\* The threads of the list run or have run, and one caller at a time starts them.
StartOK ==
    /\ \A t \in Thread : t <= threads => stage[t] # "unborn"
    /\ \A c \in Caller : at[c] = "starting" <=> lock = c
    /\ started => threads = Size

\* The sentinels close() has still to put.
Unsent == IF closer = "sentinels" THEN Size - next ELSE 0

\* Each sentinel of a complete pool is still to be put, in the queue, or has
\* ended a thread; before close() there is none.
SentinelsCounted ==
    /\ closer = "open" => ~whole /\ Count(jobs, None) = 0 /\ Exited = {}
    /\ whole => /\ threads = Size
                /\ Unsent + Count(jobs, None) + Cardinality(Exited) = Size

\* A thread close() has left behind finds its sentinel in the queue.
SentinelForEach ==
    whole /\ closer \in {"joining", "done"} =>
        \A t \in Thread :
            stage[t] # "exited" => \E i \in 1..Len(jobs) : jobs[i] = None

\* Who waits for the lock waits for a caller that is starting the threads.
LockHeldInStart == lock # None => lock \in Caller /\ at[lock] = "starting"

\* The pool has between one and eight threads.
LEMMA SizeNat == Size \in 1..8 /\ Size \in Nat /\ IsFiniteSet(Thread) /\ Cardinality(Thread) = Size
<1>1. Size \in 1..8
  BY PoolAssumption, Zenon
<1>2. Size \in Nat
  BY ONLY <1>1
<1> QED
  BY <1>1, <1>2, FS_Interval DEF Thread

\* Every step keeps the start in order.
LEMMA StartStep == TypeOK /\ CallerOK /\ StartOK /\ [Next]_vars => StartOK'
<1> SUFFICES ASSUME TypeOK, CallerOK, StartOK, [Next]_vars PROVE StartOK'
  OBVIOUS
<1>0. None \notin Caller /\ Size \in Nat /\ threads \in Nat /\ threads <= Size
  <2>1. None \notin Caller
    BY PoolAssumption, Zenon
  <2>2. threads \in 0..Size
    BY Zenon DEF TypeOK
  <2> QED
    BY <2>1, <2>2, SizeNat
<1> USE DEF callers, closing, workers
<1>1. ASSUME UNCHANGED <<threads, lock, started>>,
             \A t \in Thread : stage'[t] = "unborn" => stage[t] = "unborn",
             \A c \in Caller : at'[c] = "starting" <=> at[c] = "starting"
      PROVE  StartOK'
  BY <1>1, Zenon DEF StartOK
<1>2. ASSUME NEW c \in Caller, Call(c) \/ PutJob(c) \/ Answered(c) \/ TimesOut(c)
      PROVE  StartOK'
  <2>1. PICK a \in {"idle", "checked", "wait"} :
            at' = [at EXCEPT ![c] = a] /\ at[c] # "starting"
    BY <1>2, Zenon DEF Call, PutJob, Answered, TimesOut, Return
  <2>2. UNCHANGED <<threads, lock, started, stage>>
    BY <1>2, Zenon DEF Call, PutJob, Answered, TimesOut, Return
  <2>3. at \in [Caller -> {"idle", "checked", "starting", "put", "wait"}]
    BY DEF TypeOK
  <2>4. \A d \in Caller : at'[d] = "starting" <=> at[d] = "starting"
    BY <2>1, <2>3
  <2> QED
    BY <1>1, <2>2, <2>4, Zenon
<1>3. ASSUME NEW c \in Caller, EnsureStarted(c)
      PROVE  StartOK'
  <2>1. at[c] = "checked" /\ UNCHANGED <<threads, started, stage>>
    BY <1>3, Zenon DEF EnsureStarted
  <2>2. \/ at' = [at EXCEPT ![c] = "put"] /\ lock' = lock
        \/ at' = [at EXCEPT ![c] = "starting"] /\ lock = None /\ lock' = c
    BY <1>3, Zenon DEF EnsureStarted
  <2>3. at \in [Caller -> {"idle", "checked", "starting", "put", "wait"}]
    BY DEF TypeOK
  <2>4. \A d \in Caller : at'[d] = "starting" <=> lock' = d
    <3>1. \A d \in Caller : at[d] = "starting" <=> lock = d
      BY DEF StartOK
    <3> QED
      BY <1>0, <2>1, <2>2, <2>3, <3>1
  <2> QED
    BY <2>1, <2>4, Zenon DEF StartOK
<1>4. ASSUME NEW c \in Caller, StartThread(c)
      PROVE  StartOK'
  <2>1. /\ at[c] = "starting" /\ threads < Size
        /\ UNCHANGED <<at, lock, started>>
        /\ \/ stage' = [stage EXCEPT ![threads + 1] = "get"] /\ threads' = threads
           \/ stage[threads + 1] # "unborn" /\ threads' = threads + 1 /\ stage' = stage
    BY <1>4, Zenon DEF StartThread
  <2>2. threads + 1 \in Thread
    BY <1>0, <2>1 DEF Thread
  <2>3. \A u \in Thread : stage[u] # "unborn" => stage'[u] # "unborn"
    BY <2>1 DEF TypeOK
  <2>4. \A u \in Thread : u <= threads' => stage'[u] # "unborn"
    <3>1. CASE threads' = threads
      BY <2>3, <3>1 DEF StartOK
    <3>2. CASE stage[threads + 1] # "unborn" /\ threads' = threads + 1
      <4> SUFFICES ASSUME NEW u \in Thread, u <= threads + 1 PROVE stage'[u] # "unborn"
        BY <3>2
      <4>1. u <= threads \/ u = threads + 1
        BY <1>0 DEF Thread
      <4>2. stage[u] # "unborn"
        BY <3>2, <4>1 DEF StartOK
      <4> QED
        BY <2>3, <4>2
    <3> QED
      BY <2>1, <3>1, <3>2
  <2>5. started' => threads' = Size
    BY <1>0, <2>1 DEF StartOK
  <2> QED
    BY <2>1, <2>4, <2>5, Zenon DEF StartOK
<1>5. ASSUME NEW c \in Caller, Started(c)
      PROVE  StartOK'
  <2>1. /\ at[c] = "starting" /\ threads = Size /\ lock' = None
        /\ at' = [at EXCEPT ![c] = "put"] /\ threads' = threads /\ stage' = stage
    BY <1>5, Zenon DEF Started
  <2> QED
    BY <1>0, <2>1 DEF StartOK, TypeOK
<1>6. CASE BeginClose \/ CloseStep
  BY <1>1, <1>6, Zenon DEF BeginClose, CloseStep, PutSentinels, Join
<1>7. ASSUME NEW t \in Thread, WorkerStep(t) \/ ChromiumDies(t)
      PROVE  StartOK'
  <2>1. /\ UNCHANGED <<at, threads, lock, started>>
        /\ \/ stage' = stage
           \/ \E s \in {"get", "launch", "render", "exited"} : stage' = [stage EXCEPT ![t] = s]
    BY <1>7, Zenon DEF WorkerStep, Take, Launch, Render, RenderFails, RenderOnDead, Finish,
                       ChromiumDies
  <2>2. \A u \in Thread : stage'[u] = "unborn" => stage[u] = "unborn"
    BY <2>1 DEF TypeOK
  <2> QED
    BY <1>1, <2>1, <2>2, Zenon
<1>8. CASE UNCHANGED vars
  BY <1>1, <1>8, Zenon DEF vars
<1> QED
  BY <1>2, <1>3, <1>4, <1>5, <1>6, <1>7, <1>8, Zenon DEF Next, CallerStep

\* The threads that have ended are finitely many.
LEMMA ExitedNat == IsFiniteSet(Exited) /\ Cardinality(Exited) \in Nat
<1>1. Exited \subseteq Thread
  BY DEF Exited
<1> QED
  BY <1>1, SizeNat, FS_Subset, FS_CardinalityType

\* Putting or ending a sentinel moves it; nothing else makes or loses one.
LEMMA SentinelsStep ==
    TypeOK /\ TypeOK' /\ CallerOK /\ Room /\ StartOK /\ StartOK' /\ SentinelsCounted /\ [Next]_vars
        => SentinelsCounted'
<1> SUFFICES ASSUME TypeOK, TypeOK', CallerOK, Room, StartOK, StartOK', SentinelsCounted, [Next]_vars
             PROVE  SentinelsCounted'
  OBVIOUS
<1>0. /\ jobs \in Seq(Job \cup {None}) /\ Count(jobs, None) \in Nat
      /\ Size \in Nat /\ next \in Nat /\ next <= Size /\ threads \in Nat /\ threads <= Size
      /\ closer \in {"open", "sentinels", "joining", "done"}
      /\ Cardinality(Exited) \in Nat
  <2>1. jobs \in Seq(Job \cup {None}) /\ next \in 0..Size /\ threads \in 0..Size
        /\ closer \in {"open", "sentinels", "joining", "done"}
    BY Zenon DEF TypeOK
  <2>2. Count(jobs, None) \in Nat
    BY <2>1, SeqDomainFinite, CountNat
  <2> QED
    BY <2>1, <2>2, SizeNat, ExitedNat
<1>J. jobs' \in Seq(Job \cup {None}) /\ Count(jobs', None) \in Nat
  <2>1. jobs' \in Seq(Job \cup {None})
    BY Zenon DEF TypeOK
  <2> QED
    BY <2>1, SeqDomainFinite, CountNat
<1> USE DEF callers, closing, workers
<1>1. ASSUME UNCHANGED <<closer, next, whole>>, Exited' = Exited,
             Count(jobs', None) = Count(jobs, None), whole => threads' = threads
      PROVE  SentinelsCounted'
  BY <1>1, Zenon DEF SentinelsCounted, Unsent
<1>2. ASSUME NEW c \in Caller, Call(c) \/ EnsureStarted(c) \/ Started(c) \/ Answered(c) \/ TimesOut(c)
      PROVE  SentinelsCounted'
  <2>1. UNCHANGED <<closer, next, whole, jobs, threads, stage>>
    BY <1>2, Zenon DEF Call, EnsureStarted, Started, Answered, TimesOut, Return
  <2>2. Exited' = Exited
    BY <2>1 DEF Exited
  <2> QED
    BY <1>1, <2>1, <2>2, Zenon
<1>3. ASSUME NEW c \in Caller, PutJob(c)
      PROVE  SentinelsCounted'
  <2>1. PICK j \in Job : jobs' = Append(jobs, j)
    <3>1. NewFuture(c) \in Future /\ at[c] = "put"
      BY <1>3, NewFutureIsNew DEF PutJob
    <3>2. jobs' = Append(jobs, [page |-> wanted[c], fut |-> NewFuture(c)])
      BY <1>3 DEF PutJob
    <3>3. wanted[c] \in Pages
      BY <3>1 DEF CallerOK
    <3> QED
      BY <3>1, <3>2, <3>3 DEF Job
  <2>2. j # None
    BY PoolAssumption, Zenon DEF Job
  <2>3. Count(jobs', None) = Count(jobs, None) + One(j, None)
    BY <1>0, <2>1, CountAppend
  <2>4. Count(jobs', None) = Count(jobs, None)
    BY <1>0, <2>2, <2>3 DEF One
  <2>5. UNCHANGED <<closer, next, whole, threads, stage>>
    BY <1>3, Zenon DEF PutJob
  <2>6. Exited' = Exited
    BY <2>5 DEF Exited
  <2> QED
    BY <1>1, <2>4, <2>5, <2>6, Zenon
<1>4. ASSUME NEW c \in Caller, StartThread(c)
      PROVE  SentinelsCounted'
  <2>1. /\ threads < Size
        /\ stage' = stage \/ /\ stage[threads + 1] = "unborn"
                             /\ stage' = [stage EXCEPT ![threads + 1] = "get"]
    BY <1>4, Zenon DEF StartThread
  <2>2. Exited' = Exited
    BY <2>1 DEF Exited, TypeOK
  <2>3. UNCHANGED <<closer, next, whole, jobs>>
    BY <1>4, Zenon DEF StartThread
  <2>4. ~whole
    BY <1>0, <2>1 DEF SentinelsCounted
  <2> QED
    BY <1>1, <2>2, <2>3, <2>4, Zenon
<1>5. CASE BeginClose
  <2>1. /\ closer = "open" /\ closer' = "sentinels" /\ next' = 0
        /\ whole' = (threads = Size) /\ UNCHANGED <<jobs, threads, stage>>
    BY <1>5, Zenon DEF BeginClose
  <2>2. Exited' = Exited /\ Count(jobs', None) = Count(jobs, None)
    BY <2>1 DEF Exited
  <2>3. Exited = {} /\ Count(jobs, None) = 0
    BY <2>1 DEF SentinelsCounted
  <2>4. Cardinality(Exited') = 0
    BY <2>2, <2>3, FS_EmptySet
  <2>5. Unsent' = Size
    BY <1>0, <2>1 DEF Unsent
  <2>6. whole' => threads' = Size
    BY <2>1
  <2>7. Unsent' + Count(jobs', None) + Cardinality(Exited') = Size
    BY <1>0, <2>2, <2>3, <2>4, <2>5
  <2>8. closer' # "open"
    BY <2>1
  <2> QED
    BY <2>6, <2>7, <2>8, Zenon DEF SentinelsCounted
<1>6. CASE PutSentinels
  <2>1. /\ closer = "sentinels" /\ UNCHANGED <<threads, whole, stage>>
        /\ \/ /\ next < threads /\ jobs' = Append(jobs, None)
              /\ next' = next + 1 /\ closer' = closer
           \/ /\ ~(next < threads) /\ closer' = "joining" /\ next' = 0 /\ jobs' = jobs
    BY <1>6, Zenon DEF PutSentinels
  <2>2. Exited' = Exited
    BY <2>1 DEF Exited
  <2>3. whole => threads = Size
    BY DEF SentinelsCounted
  <2>4. None \in Job \cup {None}
    OBVIOUS
  <2>5. Count(Append(jobs, None), None) = Count(jobs, None) + 1
    <3>1. Count(Append(jobs, None), None) = Count(jobs, None) + One(None, None)
      BY <1>0, <2>4, CountAppend
    <3> QED
      BY <3>1 DEF One
  <2>6. whole => Unsent' + Count(jobs', None) = Unsent + Count(jobs, None)
    <3> SUFFICES ASSUME whole
                 PROVE  Unsent' + Count(jobs', None) = Unsent + Count(jobs, None)
      OBVIOUS
    <3>1. Unsent = Size - next /\ threads = Size
      BY <2>1, <2>3 DEF Unsent
    <3>2. CASE jobs' = Append(jobs, None) /\ next' = next + 1 /\ closer' = closer
      <4>1. Unsent' = Size - (next + 1)
        BY <2>1, <3>2 DEF Unsent
      <4>2. Count(jobs', None) = Count(jobs, None) + 1
        BY <2>5, <3>2
      <4> QED
        BY <1>0, <3>1, <4>1, <4>2
    <3>3. CASE ~(next < threads) /\ closer' = "joining" /\ jobs' = jobs
      <4>1. Unsent' = 0 /\ next = Size
        BY <1>0, <3>1, <3>3 DEF Unsent
      <4>2. Count(jobs', None) = Count(jobs, None)
        BY <3>3
      <4> QED
        BY <1>0, <3>1, <4>1, <4>2
    <3> QED
      BY <2>1, <3>2, <3>3, Zenon
  <2>7. closer' # "open"
    BY <2>1
  <2> HIDE DEF Unsent, Exited
  <2> QED
    BY <1>0, <2>1, <2>2, <2>3, <2>6, <2>7 DEF SentinelsCounted
<1>7. CASE Join
  <2>1. closer = "joining" /\ closer' = "done" /\ UNCHANGED <<jobs, threads, whole, stage>>
    BY <1>7, Zenon DEF Join
  <2>2. Exited' = Exited /\ Unsent' = 0 /\ Unsent = 0
    BY <2>1 DEF Exited, Unsent
  <2> QED
    BY <2>1, <2>2, Zenon DEF SentinelsCounted
<1>8. ASSUME NEW t \in Thread, Take(t)
      PROVE  SentinelsCounted'
  <2>1. /\ stage[t] = "get" /\ jobs # <<>> /\ jobs' = Tail(jobs)
        /\ IF Head(jobs) = None THEN stage' = [stage EXCEPT ![t] = "exited"]
                                ELSE stage' = [stage EXCEPT ![t] = "launch"]
        /\ UNCHANGED <<threads, closer, next, whole>>
    BY <1>8, Zenon DEF Take
  <2>2. Count(jobs, None) = Count(jobs', None) + One(Head(jobs), None)
    BY <1>0, <2>1, CountTail
  <2>3. CASE Head(jobs) = None
    <3>0. stage' = [stage EXCEPT ![t] = "exited"] /\ stage[t] = "get"
      BY <2>1, <2>3
    <3>1. Exited' = Exited \cup {t} /\ t \notin Exited
      <4>1. stage \in [Thread -> {"unborn", "get", "launch", "render", "exited"}]
        BY Zenon DEF TypeOK
      <4> QED
        BY <3>0, <4>1 DEF Exited
    <3>2. Cardinality(Exited') = Cardinality(Exited) + 1
      BY <3>1, ExitedNat, FS_AddElement
    <3>3. Count(jobs, None) = Count(jobs', None) + 1
      BY <2>2, <2>3 DEF One
    <3>4. closer # "open"
      BY <1>J, <3>3 DEF SentinelsCounted
    <3>5. Unsent' = Unsent /\ Unsent \in Int
      BY <1>0, <2>1 DEF Unsent
    <3> HIDE DEF Unsent, Exited
    <3> QED
      BY <1>0, <1>J, <2>1, <3>2, <3>3, <3>4, <3>5 DEF SentinelsCounted
  <2>4. CASE Head(jobs) # None
    <3>1. Exited' = Exited
      BY <2>1, <2>4, ZenonT(40) DEF Exited, TypeOK
    <3>2. Count(jobs', None) = Count(jobs, None)
      BY <1>J, <2>2, <2>4 DEF One
    <3> QED
      BY <1>1, <2>1, <3>1, <3>2, Zenon
  <2> QED
    BY <2>3, <2>4
<1>9. ASSUME NEW t \in Thread, \/ Launch(t) \/ Render(t) \/ RenderFails(t) \/ RenderOnDead(t)
                               \/ ChromiumDies(t)
      PROVE  SentinelsCounted'
  <2>1. /\ UNCHANGED <<jobs, threads, closer, next, whole>>
        /\ \/ stage' = stage
           \/ /\ stage[t] # "exited"
              /\ \E s \in {"get", "render"} : stage' = [stage EXCEPT ![t] = s]
    BY <1>9, Zenon DEF Launch, Render, RenderFails, RenderOnDead, Finish, ChromiumDies
  <2>2. Exited' = Exited
    BY <2>1 DEF Exited, TypeOK
  <2> QED
    BY <1>1, <2>1, <2>2, Zenon
<1>10. CASE UNCHANGED vars
  <2>1. UNCHANGED <<jobs, threads, closer, next, whole, stage>>
    BY <1>10, Zenon DEF vars
  <2>2. Exited' = Exited
    BY <2>1 DEF Exited
  <2> QED
    BY <1>1, <2>1, <2>2, Zenon
<1> QED
  BY <1>2, <1>3, <1>4, <1>5, <1>6, <1>7, <1>8, <1>9, <1>10, Zenon
     DEF Next, CallerStep, CloseStep, WorkerStep

\* What is counted is there.
LEMMA SentinelWaits == TypeOK /\ SentinelsCounted => SentinelForEach
<1> SUFFICES ASSUME TypeOK, SentinelsCounted, whole, closer \in {"joining", "done"},
                    NEW t \in Thread, stage[t] # "exited"
             PROVE  \E i \in 1..Len(jobs) : jobs[i] = None
  BY DEF SentinelForEach
<1>1. Exited \subseteq Thread /\ t \notin Exited
  BY DEF Exited
<1>2. Cardinality(Exited) < Size
  <2>1. Cardinality(Exited) <= Size
    BY <1>1, SizeNat, FS_Subset
  <2>2. Cardinality(Exited) # Size
    BY <1>1, SizeNat, FS_Subset
  <2> QED
    BY <2>1, <2>2, SizeNat, ExitedNat
<1>3. jobs \in Seq(Job \cup {None})
  BY Zenon DEF TypeOK
<1>4. DOMAIN jobs = 1..Len(jobs) /\ IsFiniteSet(DOMAIN jobs)
  BY <1>3, SeqDomainFinite
<1>5. Unsent = 0
  BY DEF Unsent
<1>6. Count(jobs, None) # 0
  <2>1. Unsent + Count(jobs, None) + Cardinality(Exited) = Size
    BY DEF SentinelsCounted
  <2> QED
    BY <1>2, <1>5, <2>1, SizeNat, ExitedNat
<1> QED
  BY <1>4, <1>6, CountNat

\* Before the pool there is nothing to count.
LEMMA InitSentinels == Init => StartOK /\ SentinelsCounted
<1> SUFFICES ASSUME Init PROVE StartOK /\ SentinelsCounted
  OBVIOUS
<1>1. /\ jobs = <<>> /\ threads = 0 /\ lock = None /\ started = FALSE /\ closer = "open"
      /\ whole = FALSE
      /\ at = [c \in Caller |-> "idle"] /\ stage = [t \in Thread |-> "unborn"]
  BY Zenon DEF Init
<1>2. None \notin Caller
  BY PoolAssumption, Zenon
<1>3. DOMAIN <<>> = {} /\ IsFiniteSet({})
  BY FS_EmptySet
<1>4. Count(<<>>, None) = 0
  BY <1>3, CountNat
<1>5. StartOK
  BY <1>1, <1>2, SizeNat DEF StartOK, Thread
<1>6. Exited = {}
  BY <1>1 DEF Exited
<1> QED
  BY <1>1, <1>4, <1>5, <1>6 DEF SentinelsCounted

\* The lock of the start is with a caller that starts.
LEMMA LockStarts == TypeOK /\ StartOK => LockHeldInStart
BY DEF TypeOK, StartOK, LockHeldInStart

(***************************************************************************)
(* Nobody waits in vain.  A browser thread that a complete pool's close()   *)
(* leaves behind, whatever its joins gave up on, has a sentinel in the      *)
(* queue; and a caller before _start_lock waits for one that is starting    *)
(* the threads.                                                             *)
(***************************************************************************)
THEOREM NobodyLeftBehind == Spec => [](SentinelForEach /\ LockHeldInStart)
<1>1. Init => StartOK /\ SentinelsCounted
  BY InitSentinels
<1>2. IInv /\ IInv' /\ (StartOK /\ SentinelsCounted) /\ [Next]_vars
      => (StartOK /\ SentinelsCounted)'
  <2> SUFFICES ASSUME IInv, IInv', StartOK, SentinelsCounted, [Next]_vars
               PROVE  StartOK' /\ SentinelsCounted'
    OBVIOUS
  <2>1. TypeOK /\ CallerOK /\ Room /\ TypeOK'
    BY DEF IInv
  <2>2. StartOK'
    BY <2>1, StartStep
  <2> QED
    BY <2>1, <2>2, SentinelsStep
<1>3. IInv /\ StartOK /\ SentinelsCounted => SentinelForEach /\ LockHeldInStart
  BY SentinelWaits, LockStarts DEF IInv
<1> QED
  BY <1>1, <1>2, <1>3, Invariance, PTL DEF Spec

-----------------------------------------------------------------------------
(* Every call, every job and the shutdown come to their end *)

\* The steps the start of the threads still has.
StartsLeft ==
    2 * (Size - threads)
        - (IF threads < Size /\ stage[threads + 1] # "unborn" THEN 1 ELSE 0)

\* The steps a call of render() still has at most, waits aside.
CallRank(c) ==
    CASE at[c] = "idle"     -> 0
      [] at[c] = "wait"     -> 1
      [] at[c] = "put"      -> 2
      [] at[c] = "starting" -> 3 + StartsLeft
      [] at[c] = "checked"  -> 4 + 2 * Size

\* The steps a thread still has with its job.
JobRank(t) == CASE stage[t] = "launch" -> 2
                [] stage[t] = "render" -> 1
                [] stage[t] \notin {"launch", "render"} -> 0

\* The steps close() still has.
CloseRank == CASE closer = "sentinels" -> 2 + Size - next
               [] closer = "joining"   -> 1
               [] closer \notin {"sentinels", "joining"} -> 0

OtherCallsStay(c) == \A d \in Caller \ {c} : CallRank(d)' = CallRank(d)
CallsStay == \A d \in Caller : CallRank(d)' = CallRank(d)

CallGoesOn(c) == CallRank(c)' < CallRank(c) /\ OtherCallsStay(c)
JobGoesOn(t) ==
    /\ \/ jobs # <<>> /\ jobs' = Tail(jobs) /\ JobRank(t)' <= 2
       \/ jobs' = jobs /\ JobRank(t)' < JobRank(t)
    /\ \A u \in Thread \ {t} : JobRank(u)' = JobRank(u)
    /\ CallsStay
CloseGoesOn == CloseRank' < CloseRank /\ CallsStay

\* What comes from outside: a call, close(), the death of a browser.
FromOutside ==
    \/ \E c \in Caller : at[c] = "idle" /\ at'[c] = "checked" /\ OtherCallsStay(c)
    \/ closer = "open" /\ closer' = "sentinels" /\ CallsStay
    \/ \E t \in Thread : chromium[t] = "up" /\ chromium'[t] = "dead" /\ CallsStay

RanksOK ==
    /\ \A c \in Caller : CallRank(c) \in 0..(4 + 2 * Size)
    /\ \A t \in Thread : JobRank(t) \in 0..2
    /\ CloseRank \in 0..(2 + Size)

PoolAdvances ==
    [][\/ \E c \in Caller : CallGoesOn(c)
       \/ \E t \in Thread : JobGoesOn(t)
       \/ CloseGoesOn
       \/ FromOutside]_vars

At == {"idle", "checked", "starting", "put", "wait"}

\* What the ranks are made of.
LEMMA PoolTypes ==
    ASSUME TypeOK
    PROVE  /\ Size \in Nat \ {0} /\ threads \in Nat /\ threads <= Size
           /\ next \in Nat /\ next <= Size
           /\ closer \in {"open", "sentinels", "joining", "done"}
           /\ at \in [Caller -> At]
           /\ stage \in [Thread -> {"unborn", "get", "launch", "render", "exited"}]
           /\ threads < Size => threads + 1 \in Thread
<1>1. /\ threads \in 0..Size /\ next \in 0..Size
      /\ closer \in {"open", "sentinels", "joining", "done"} /\ at \in [Caller -> At]
      /\ stage \in [Thread -> {"unborn", "get", "launch", "render", "exited"}]
  BY Zenon DEF TypeOK, At
<1>2. Size \in Nat /\ Size \in 1..8
  BY SizeNat
<1> QED
  BY <1>1, <1>2 DEF Thread

\* A start that is not complete has a step left.
LEMMA StartsLeftNat ==
    ASSUME TypeOK
    PROVE  /\ StartsLeft \in Nat /\ StartsLeft <= 2 * Size
           /\ threads < Size => StartsLeft >= 1
<1>1. Size \in Nat /\ threads \in Nat /\ threads <= Size
  BY PoolTypes
<1> QED
  BY <1>1 DEF StartsLeft

\* The rank of a call by where it is.
LEMMA CallRankAt ==
    ASSUME NEW c \in Caller
    PROVE  /\ at[c] = "idle" => CallRank(c) = 0
           /\ at[c] = "wait" => CallRank(c) = 1
           /\ at[c] = "put" => CallRank(c) = 2
           /\ at[c] = "starting" => CallRank(c) = 3 + StartsLeft
           /\ at[c] = "checked" => CallRank(c) = 4 + 2 * Size
           /\ at'[c] = "idle" => CallRank(c)' = 0
           /\ at'[c] = "wait" => CallRank(c)' = 1
           /\ at'[c] = "put" => CallRank(c)' = 2
           /\ at'[c] = "starting" => CallRank(c)' = 3 + StartsLeft'
           /\ at'[c] = "checked" => CallRank(c)' = 4 + 2 * Size
BY DEF CallRank

\* The ranks are bounded by the size of the pool.
LEMMA RanksBounded == TypeOK => RanksOK
<1> SUFFICES ASSUME TypeOK PROVE RanksOK
  OBVIOUS
<1>1. ASSUME NEW c \in Caller PROVE CallRank(c) \in 0..(4 + 2 * Size)
  <2>1. at[c] \in At /\ Size \in Nat
    BY PoolTypes
  <2> QED
    BY <2>1, CallRankAt, StartsLeftNat DEF At
<1>2. ASSUME NEW t \in Thread PROVE JobRank(t) \in 0..2
  BY DEF JobRank
<1>3. CloseRank \in 0..(2 + Size)
  BY PoolTypes DEF CloseRank
<1> QED
  BY <1>1, <1>2, <1>3 DEF RanksOK

\* The start of the threads is only a matter of who starts them.
LEMMA RankKept ==
    ASSUME TypeOK, NEW d \in Caller, at'[d] = at[d],
           at[d] # "starting" \/ StartsLeft' = StartsLeft
    PROVE  CallRank(d)' = CallRank(d)
<1>1. at[d] \in At
  BY PoolTypes
<1> QED
  BY <1>1, CallRankAt DEF At

\* A step that starts nothing leaves the start as it was.
LEMMA StartsKept ==
    ASSUME TypeOK, threads' = threads,
           \A u \in Thread : stage'[u] = "unborn" <=> stage[u] = "unborn"
    PROVE  StartsLeft' = StartsLeft
<1>1. threads < Size => threads + 1 \in Thread
  BY PoolTypes
<1> QED
  BY <1>1 DEF StartsLeft

\* Each step of a caller brings it nearer to its return, and no other further
\* from it: only the holder of the lock starts threads.
LEMMA CallerGoesOn ==
    ASSUME TypeOK, StartOK, NEW c \in Caller, CallerStep(c)
    PROVE  CallGoesOn(c)
<1>0. /\ Size \in Nat \ {0} /\ threads \in Nat /\ threads <= Size /\ at \in [Caller -> At]
      /\ stage \in [Thread -> {"unborn", "get", "launch", "render", "exited"}]
      /\ threads < Size => threads + 1 \in Thread
  BY PoolTypes
<1>S. StartsLeft \in Nat /\ StartsLeft <= 2 * Size
  BY StartsLeftNat
<1> USE DEF callers, closing, workers
<1>1. ASSUME NEW a \in At, at' = [at EXCEPT ![c] = a], UNCHANGED <<threads, stage>>
      PROVE  at'[c] = a /\ OtherCallsStay(c) /\ StartsLeft' = StartsLeft
  <2>1. at'[c] = a /\ \A d \in Caller \ {c} : at'[d] = at[d]
    BY <1>0, <1>1
  <2>2. StartsLeft' = StartsLeft
    BY <1>1, StartsKept
  <2> QED
    BY <2>1, <2>2, RankKept DEF OtherCallsStay
<1>2. CASE EnsureStarted(c)
  <2>1. at[c] = "checked" /\ UNCHANGED <<threads, stage>>
    BY <1>2, Zenon DEF EnsureStarted
  <2>2. CASE at' = [at EXCEPT ![c] = "put"]
    <3>1. at'[c] = "put" /\ OtherCallsStay(c)
      BY <1>1, <2>1, <2>2 DEF At
    <3> QED
      BY <1>0, <2>1, <3>1, CallRankAt DEF CallGoesOn
  <2>3. CASE at' = [at EXCEPT ![c] = "starting"]
    <3>1. at'[c] = "starting" /\ OtherCallsStay(c) /\ StartsLeft' = StartsLeft
      BY <1>1, <2>1, <2>3 DEF At
    <3>2. CallRank(c) = 4 + 2 * Size /\ CallRank(c)' = 3 + StartsLeft
      BY <2>1, <3>1, CallRankAt
    <3> QED
      BY <1>0, <1>S, <3>1, <3>2 DEF CallGoesOn
  <2> QED
    BY <1>2, <2>2, <2>3, Zenon DEF EnsureStarted
<1>3. CASE StartThread(c)
  <2>1. /\ at[c] = "starting" /\ threads < Size /\ at' = at
        /\ \/ /\ stage[threads + 1] = "unborn"
              /\ stage' = [stage EXCEPT ![threads + 1] = "get"] /\ threads' = threads
           \/ stage[threads + 1] # "unborn" /\ threads' = threads + 1 /\ stage' = stage
    BY <1>3, Zenon DEF StartThread
  <2>2. StartsLeft' < StartsLeft
    <3>1. CASE /\ stage[threads + 1] = "unborn"
               /\ stage' = [stage EXCEPT ![threads + 1] = "get"] /\ threads' = threads
      <4>1. stage'[threads + 1] = "get"
        BY <1>0, <2>1, <3>1
      <4> QED
        BY <1>0, <2>1, <3>1, <4>1 DEF StartsLeft
    <3>2. CASE stage[threads + 1] # "unborn" /\ threads' = threads + 1
      <4>1. StartsLeft = 2 * (Size - threads) - 1
        BY <1>0, <2>1, <3>2 DEF StartsLeft
      <4>2. StartsLeft' <= 2 * (Size - (threads + 1))
        BY <1>0, <2>1, <3>2 DEF StartsLeft
      <4>3. StartsLeft' \in Int
        BY <1>0, <2>1, <3>2 DEF StartsLeft
      <4> QED
        BY <1>0, <4>1, <4>2, <4>3
    <3> QED
      BY <2>1, <3>1, <3>2
  <2>3. \A d \in Caller \ {c} : at[d] # "starting"
    BY <2>1 DEF StartOK
  <2>4. OtherCallsStay(c)
    BY <2>1, <2>3, RankKept DEF OtherCallsStay
  <2>5. CallRank(c) = 3 + StartsLeft /\ CallRank(c)' = 3 + StartsLeft'
    BY <2>1, CallRankAt
  <2>6. StartsLeft' \in Int
    BY <1>0, <2>1 DEF StartsLeft
  <2>7. 3 + StartsLeft' < 3 + StartsLeft
    <3>1. \A m, n \in Int : m < n => 3 + m < 3 + n
      OBVIOUS
    <3>2. StartsLeft \in Int
      BY <1>S
    <3> QED
      BY <2>2, <2>6, <3>1, <3>2, Zenon
  <2> QED
    BY <2>4, <2>5, <2>7, Zenon DEF CallGoesOn
<1>4. CASE Started(c)
  <2>1. /\ at[c] = "starting" /\ at' = [at EXCEPT ![c] = "put"]
        /\ UNCHANGED <<threads, stage>>
    BY <1>4, Zenon DEF Started
  <2>2. at'[c] = "put" /\ OtherCallsStay(c)
    BY <1>1, <2>1 DEF At
  <2> QED
    BY <1>S, <2>1, <2>2, CallRankAt DEF CallGoesOn
<1>5. CASE PutJob(c)
  <2>1. /\ at[c] = "put" /\ at' = [at EXCEPT ![c] = "wait"]
        /\ UNCHANGED <<threads, stage>>
    BY <1>5, Zenon DEF PutJob
  <2>2. at'[c] = "wait" /\ OtherCallsStay(c)
    BY <1>1, <2>1 DEF At
  <2> QED
    BY <2>1, <2>2, CallRankAt DEF CallGoesOn
<1>6. CASE Answered(c) \/ TimesOut(c)
  <2>1. /\ at[c] = "wait" /\ at' = [at EXCEPT ![c] = "idle"]
        /\ UNCHANGED <<threads, stage>>
    BY <1>6, Zenon DEF Answered, TimesOut, Return
  <2>2. at'[c] = "idle" /\ OtherCallsStay(c)
    BY <1>1, <2>1 DEF At
  <2> QED
    BY <2>1, <2>2, CallRankAt DEF CallGoesOn
<1> QED
  BY <1>2, <1>3, <1>4, <1>5, <1>6, Zenon DEF CallerStep

\* Steps that start no thread and move no caller leave every call where it is.
LEMMA CallsUntouched ==
    ASSUME TypeOK, at' = at, threads' = threads,
           \A u \in Thread : stage'[u] = "unborn" <=> stage[u] = "unborn"
    PROVE  CallsStay
BY StartsKept, RankKept DEF CallsStay

\* Each step of a browser thread takes from the queue or goes on with its job.
LEMMA ThreadGoesOn ==
    ASSUME TypeOK, NEW t \in Thread, WorkerStep(t)
    PROVE  JobGoesOn(t)
<1>0. stage \in [Thread -> {"unborn", "get", "launch", "render", "exited"}]
  BY PoolTypes
<1>1. /\ UNCHANGED <<at, threads>>
      /\ \/ /\ stage[t] = "get" /\ jobs' = Tail(jobs) /\ jobs # <<>>
            /\ \E s \in {"launch", "exited"} : stage' = [stage EXCEPT ![t] = s]
         \/ /\ jobs' = jobs
            /\ \/ stage[t] = "launch" /\ stage' = [stage EXCEPT ![t] = "render"]
               \/ /\ stage[t] \in {"launch", "render"}
                  /\ stage' = [stage EXCEPT ![t] = "get"]
  BY Zenon DEF WorkerStep, Take, Launch, Render, RenderFails, RenderOnDead, Finish,
               callers, closing, workers
<1>2. \A u \in Thread \ {t} : stage'[u] = stage[u]
  BY <1>0, <1>1
<1>3. \A u \in Thread \ {t} : JobRank(u)' = JobRank(u)
  BY <1>2 DEF JobRank
<1>4. \A u \in Thread : stage'[u] = "unborn" <=> stage[u] = "unborn"
  BY <1>0, <1>1
<1>5. CallsStay
  BY <1>1, <1>4, CallsUntouched
<1>6. \/ jobs' = Tail(jobs) /\ jobs # <<>> /\ JobRank(t)' <= 2
      \/ jobs' = jobs /\ JobRank(t)' < JobRank(t)
  BY <1>0, <1>1 DEF JobRank
<1> QED
  BY <1>3, <1>5, <1>6 DEF JobGoesOn

\* Every step goes on, or comes from outside.
LEMMA PoolStep ==
    ASSUME TypeOK, StartOK, Next
    PROVE  \/ \E c \in Caller : CallGoesOn(c)
           \/ \E t \in Thread : JobGoesOn(t)
           \/ CloseGoesOn
           \/ FromOutside
<1>0. /\ Size \in Nat \ {0} /\ next \in Nat /\ next <= Size /\ threads \in Nat
      /\ threads <= Size /\ at \in [Caller -> At]
  BY PoolTypes
<1> USE DEF callers, closing, workers
<1>1. ASSUME NEW c \in Caller, Call(c) PROVE FromOutside
  <2>1. /\ at[c] = "idle" /\ at' = [at EXCEPT ![c] = "checked"]
        /\ UNCHANGED <<threads, stage>>
    BY <1>1, Zenon DEF Call
  <2>2. at'[c] = "checked" /\ \A d \in Caller \ {c} : at'[d] = at[d]
    BY <1>0, <2>1
  <2>3. StartsLeft' = StartsLeft
    BY <2>1, StartsKept
  <2>4. OtherCallsStay(c)
    BY <2>2, <2>3, RankKept DEF OtherCallsStay
  <2> QED
    BY <2>1, <2>2, <2>4, Zenon DEF FromOutside
<1>2. CASE BeginClose
  <2>1. closer = "open" /\ closer' = "sentinels" /\ UNCHANGED <<at, threads, stage>>
    BY <1>2, Zenon DEF BeginClose
  <2>2. CallsStay
    BY <2>1, CallsUntouched
  <2> QED
    BY <2>1, <2>2, Zenon DEF FromOutside
<1>3. CASE CloseStep
  <2>1. /\ UNCHANGED <<at, threads, stage>>
        /\ \/ /\ closer = "sentinels" /\ next < threads
              /\ next' = next + 1 /\ closer' = closer
           \/ closer = "sentinels" /\ closer' = "joining"
           \/ closer = "joining" /\ closer' = "done"
    BY <1>3, Zenon DEF CloseStep, PutSentinels, Join
  <2>2. CallsStay
    BY <2>1, CallsUntouched
  <2>3. CloseRank' < CloseRank
    BY <1>0, <2>1 DEF CloseRank
  <2> QED
    BY <2>2, <2>3 DEF CloseGoesOn
<1>4. ASSUME NEW t \in Thread, ChromiumDies(t) PROVE FromOutside
  <2>1. /\ chromium[t] = "up" /\ chromium' = [chromium EXCEPT ![t] = "dead"]
        /\ UNCHANGED <<at, threads, stage>>
    BY <1>4, Zenon DEF ChromiumDies
  <2>2. chromium'[t] = "dead"
    <3>1. chromium \in [Thread -> {"none", "up", "dead"}]
      BY Zenon DEF TypeOK
    <3> QED
      BY <2>1, <3>1
  <2>3. CallsStay
    BY <2>1, CallsUntouched
  <2> QED
    BY <2>1, <2>2, <2>3, Zenon DEF FromOutside
<1> QED
  BY <1>1, <1>2, <1>3, <1>4, CallerGoesOn, ThreadGoesOn, Zenon DEF Next

(***************************************************************************)
(* Nothing in the pool goes on for ever: render() returns after at most     *)
(* 4 + 2 * Size steps of its caller, whoever else calls, starts threads or  *)
(* closes; a browser thread needs two steps for the job it took; close()    *)
(* puts a bounded number of sentinels.  Only a new call, close() or the     *)
(* death of a browser come from outside.                                    *)
(***************************************************************************)
THEOREM CallsFinite == Spec => []RanksOK /\ PoolAdvances
<1>1. Init => StartOK
  BY InitSentinels
<1>2. IInv /\ StartOK /\ [Next]_vars => StartOK'
  BY StartStep DEF IInv
<1>3. IInv => RanksOK
  BY RanksBounded DEF IInv
<1>4. IInv /\ StartOK /\ [Next]_vars =>
          [\/ \E c \in Caller : CallGoesOn(c)
           \/ \E t \in Thread : JobGoesOn(t)
           \/ CloseGoesOn
           \/ FromOutside]_vars
  BY PoolStep DEF IInv
<1> QED
  BY <1>1, <1>2, <1>3, <1>4, Invariance, PTL DEF Spec, PoolAdvances
=============================================================================
