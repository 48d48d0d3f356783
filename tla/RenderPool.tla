------------------------------ MODULE RenderPool ------------------------------
(***************************************************************************)
(* BrowserPool: enrichment workers (callers) hand pages to a few lazily     *)
(* started browser threads over one queue, wait for a future with a         *)
(* time-out, and may be at any point of it when close() is called.          *)
(*                                                                          *)
(* Chromium is outside src/: a launch, a page or a running browser may fail *)
(* at any time.  How long anything takes is left out, so a time-out may     *)
(* come at any moment.                                                      *)
(***************************************************************************)
EXTENDS Integers, Sequences, FiniteSets, SequencesExt

CONSTANTS Caller,    \* enrichment workers
          Wants,     \* the pages each may want rendered
          Size,      \* playwright_workers, between 1 and 8
          Future,    \* Future objects; bounds the calls whose jobs are not done
          None

Thread == 1..Size

Pages  == UNION {Wants[c] : c \in Caller}

ASSUME PoolAssumption ==
    /\ Size \in 1..8
    /\ IsFiniteSet(Caller) /\ IsFiniteSet(Future)
    /\ Future # {}
    /\ None \notin Pages \cup Future \cup Caller
    /\ None \notin [page : Pages, fut : Future]
    /\ "" \notin Pages \cup {None} \* the answer of a rendering that failed

VARIABLES
    at,       \* where each caller is in render()
    wanted,   \* the page it wants
    fut,      \* the future it waits for
    answer,   \* the result of each future; None is not done
    jobs,     \* _jobs: pages with their futures, and sentinels (None)
    lock,     \* the holder of _start_lock
    threads,  \* _threads, which is also appended to while close() reads it
    started,  \* _started
    closed,   \* _closed
    closer,   \* where close() is
    next,     \* its position in _threads
    stage,    \* where each browser thread is
    job,      \* the job it has
    chromium, \* its browser: "none", "up" or "dead"
    hurt,     \* futures whose own rendering failed (for the properties)
    whole     \* close() found the pool complete (for the properties)

callers == <<at, wanted, fut>>
closing == <<closed, closer, next, whole>>
workers == <<stage, job, chromium, hurt>>
vars    == <<callers, answer, jobs, lock, threads, started, closing, workers>>

Job == [page : Pages, fut : Future]

TypeOK ==
    /\ at \in [Caller -> {"idle", "checked", "starting", "put", "wait"}]
    /\ wanted \in [Caller -> Pages \cup {None}]
    /\ fut \in [Caller -> Future \cup {None}]
    /\ answer \in [Future -> Pages \cup {"", None}]
    /\ jobs \in Seq(Job \cup {None})
    /\ lock \in Caller \cup {None}
    /\ threads \in 0..Size
    /\ started \in BOOLEAN /\ closed \in BOOLEAN /\ whole \in BOOLEAN
    /\ closer \in {"open", "sentinels", "joining", "done"}
    /\ next \in 0..Size
    /\ stage \in [Thread -> {"unborn", "get", "launch", "render", "exited"}]
    /\ job \in [Thread -> Job \cup {None}]
    /\ chromium \in [Thread -> {"none", "up", "dead"}]
    /\ hurt \subseteq Future

Init ==
    /\ at = [c \in Caller |-> "idle"]
    /\ wanted = [c \in Caller |-> None]
    /\ fut = [c \in Caller |-> None]
    /\ answer = [f \in Future |-> None]
    /\ jobs = <<>> /\ lock = None
    /\ threads = 0 /\ started = FALSE
    /\ closed = FALSE /\ closer = "open" /\ next = 0 /\ whole = FALSE
    /\ stage = [t \in Thread |-> "unborn"]
    /\ job = [t \in Thread |-> None]
    /\ chromium = [t \in Thread |-> "none"]
    /\ hurt = {}

-----------------------------------------------------------------------------
(* render(), on the thread of a caller *)

Referenced(f) ==
    \/ \E c \in Caller : fut[c] = f
    \/ \E t \in Thread : job[t] # None /\ job[t].fut = f
    \/ \E i \in 1..Len(jobs) : jobs[i] # None /\ jobs[i].fut = f

InUse == {f \in Future : Referenced(f)}

\* A closed pool answers at once.  Bounded by the number of futures.
Call(c) ==
    /\ at[c] = "idle" /\ ~closed
    /\ Cardinality(InUse) + Cardinality({d \in Caller : at[d] \notin {"idle", "wait"}})
          < Cardinality(Future)
    /\ \E page \in Wants[c] : wanted' = [wanted EXCEPT ![c] = page]
    /\ at' = [at EXCEPT ![c] = "checked"]
    /\ UNCHANGED <<fut, answer, jobs, lock, threads, started, closing, workers>>

\* _ensure_started, the check without the lock and the one with it.
EnsureStarted(c) ==
    /\ at[c] = "checked"
    /\ \/ /\ started
          /\ at' = [at EXCEPT ![c] = "put"]
          /\ UNCHANGED lock
       \/ /\ ~started /\ lock = None
          /\ IF started \/ closed
             THEN at' = [at EXCEPT ![c] = "put"] /\ UNCHANGED lock
             ELSE at' = [at EXCEPT ![c] = "starting"] /\ lock' = c
    /\ UNCHANGED <<wanted, fut, answer, jobs, threads, started, closing,
                   workers>>

\* Mutant: one thread more than the size of the pool.
StartThreadOneMore(c) ==
    /\ at[c] = "starting" /\ threads <= Size
    /\ threads' = threads + 1
    /\ stage' = [t \in Thread |-> IF t = threads + 1 THEN "get" ELSE stage[t]]
    /\ UNCHANGED <<callers, answer, jobs, lock, started, closing, job, chromium,
                   hurt>>

\* A thread is started before it is in _threads; close() has no lock.
StartThread(c) ==
    /\ at[c] = "starting" /\ threads < Size
    /\ \/ /\ stage[threads + 1] = "unborn"
          /\ stage' = [stage EXCEPT ![threads + 1] = "get"]
          /\ UNCHANGED threads
       \/ /\ stage[threads + 1] # "unborn"
          /\ threads' = threads + 1
          /\ UNCHANGED stage
    /\ UNCHANGED <<callers, answer, jobs, lock, started, closing, job, chromium,
                   hurt>>

Started(c) ==
    /\ at[c] = "starting" /\ threads = Size
    /\ started' = TRUE
    /\ lock' = None
    /\ at' = [at EXCEPT ![c] = "put"]
    /\ UNCHANGED <<wanted, fut, answer, jobs, threads, closing, workers>>

\* Mutant: each caller keeps one future for all its calls.
NewFutureOfCaller(c) == CHOOSE f \in Future : \A d \in Caller \ {c} : fut[d] # f

\* A future nobody refers to is a new one.
NewFuture(c) == CHOOSE f \in Future : ~Referenced(f)

PutJob(c) ==
    /\ at[c] = "put"
    /\ LET f == NewFuture(c)
       IN  /\ fut' = [fut EXCEPT ![c] = f]
           /\ jobs' = Append(jobs, [page |-> wanted[c], fut |-> f])
    /\ at' = [at EXCEPT ![c] = "wait"]
    /\ UNCHANGED <<wanted, answer, lock, threads, started, closing, workers>>

\* The result of a future its caller has left is of no interest to anyone.
Return(c) ==
    /\ at' = [at EXCEPT ![c] = "idle"]
    /\ wanted' = [wanted EXCEPT ![c] = None]
    /\ fut' = [fut EXCEPT ![c] = None]
    /\ answer' = [answer EXCEPT ![fut[c]] = None]
    /\ hurt' = hurt \ {fut[c]}
    /\ UNCHANGED <<jobs, lock, threads, started, closing, stage, job, chromium>>

Answered(c) ==
    /\ at[c] = "wait" /\ answer[fut[c]] # None
    /\ Return(c)

\* Mutant: the future is waited for without a time-out.
TimesOutNever(c) == FALSE /\ UNCHANGED vars

TimesOut(c) ==
    /\ at[c] = "wait"
    /\ Return(c)

-----------------------------------------------------------------------------
(* close() *)

BeginClose ==
    /\ closer = "open"
    /\ closed' = TRUE /\ closer' = "sentinels" /\ next' = 0
    /\ whole' = (threads = Size)
    /\ UNCHANGED <<callers, answer, jobs, lock, threads, started, workers>>

\* Mutant: the first thread gets no sentinel.
PutSentinelsFromSecond ==
    /\ closer = "sentinels"
    /\ IF next < threads
       THEN /\ jobs' = IF next = 0 THEN jobs ELSE Append(jobs, None)
            /\ next' = next + 1 /\ UNCHANGED closer
       ELSE closer' = "joining" /\ next' = 0 /\ UNCHANGED jobs
    /\ UNCHANGED <<callers, answer, lock, threads, started, closed, whole, workers>>

\* One sentinel for each thread the list has by then.
PutSentinels ==
    /\ closer = "sentinels"
    /\ IF next < threads
       THEN jobs' = Append(jobs, None) /\ next' = next + 1 /\ UNCHANGED closer
       ELSE closer' = "joining" /\ next' = 0 /\ UNCHANGED jobs
    /\ UNCHANGED <<callers, answer, lock, threads, started, closed, whole, workers>>

\* Each join ends with its thread or with its time-out.
Join ==
    /\ closer = "joining"
    /\ closer' = "done"
    /\ UNCHANGED <<callers, answer, jobs, lock, threads, started, closed, next, whole,
                   workers>>

-----------------------------------------------------------------------------
(* _worker_loop, on each browser thread *)

Take(t) ==
    /\ stage[t] = "get" /\ jobs # <<>>
    /\ jobs' = Tail(jobs)
    /\ IF Head(jobs) = None
       THEN /\ stage' = [stage EXCEPT ![t] = "exited"]
            /\ chromium' = [chromium EXCEPT ![t] = "none"]
            /\ UNCHANGED job
       ELSE /\ stage' = [stage EXCEPT ![t] = "launch"]
            /\ job' = [job EXCEPT ![t] = Head(jobs)]
            /\ UNCHANGED chromium
    /\ UNCHANGED <<callers, answer, lock, threads, started, closing, hurt>>

\* Mutant: a browser that is there is not asked whether it is connected.
LaunchIfNone(t) ==
    /\ stage[t] = "launch"
    /\ stage' = [stage EXCEPT ![t] = "render"]
    /\ chromium' = [chromium EXCEPT ![t] = IF @ = "none" THEN "up" ELSE @]
    /\ UNCHANGED <<callers, answer, jobs, lock, threads, started, closing, job, hurt>>

Launch(t) ==
    /\ stage[t] = "launch"
    /\ stage' = [stage EXCEPT ![t] = "render"]
    /\ chromium' = [chromium EXCEPT ![t] = "up"]
    /\ UNCHANGED <<callers, answer, jobs, lock, threads, started, closing, job, hurt>>

\* set_result, on a future that is done at most once.
Finish(t, html) ==
    /\ answer' = IF \E c \in Caller : fut[c] = job[t].fut
                 THEN [answer EXCEPT ![job[t].fut] = html]
                 ELSE answer
    /\ stage' = [stage EXCEPT ![t] = "get"]
    /\ job' = [job EXCEPT ![t] = None]
    /\ UNCHANGED <<callers, jobs, lock, threads, started, closing>>

Render(t) ==
    /\ stage[t] = "render" /\ chromium[t] = "up"
    /\ Finish(t, job[t].page)
    /\ UNCHANGED <<chromium, hurt>>

\* A launch or a page that fails: the browser is discarded.
RenderFails(t) ==
    /\ stage[t] \in {"launch", "render"} /\ chromium[t] # "dead"
    /\ Finish(t, "")
    /\ chromium' = [chromium EXCEPT ![t] = "none"]
    /\ hurt' = hurt \cup {job[t].fut}

\* A page on a browser that is not there any more.
RenderOnDead(t) ==
    /\ stage[t] = "render" /\ chromium[t] = "dead"
    /\ Finish(t, "")
    /\ chromium' = [chromium EXCEPT ![t] = "none"]
    /\ UNCHANGED hurt

\* The browser of a thread dies, between two jobs or in one.
ChromiumDies(t) ==
    /\ chromium[t] = "up" /\ stage[t] # "exited"
    /\ chromium' = [chromium EXCEPT ![t] = "dead"]
    /\ hurt' = IF stage[t] = "render" THEN hurt \cup {job[t].fut} ELSE hurt
    /\ UNCHANGED <<callers, answer, jobs, lock, threads, started, closing, stage, job>>

-----------------------------------------------------------------------------

CallerStep(c) ==
    \/ EnsureStarted(c) \/ StartThread(c) \/ Started(c) \/ PutJob(c)
    \/ Answered(c) \/ TimesOut(c)

CloseStep == PutSentinels \/ Join

WorkerStep(t) == Take(t) \/ Launch(t) \/ Render(t) \/ RenderFails(t) \/ RenderOnDead(t)

Next ==
    \/ \E c \in Caller : Call(c) \/ CallerStep(c)
    \/ BeginClose \/ CloseStep
    \/ \E t \in Thread : WorkerStep(t) \/ ChromiumDies(t)

Spec == Init /\ [][Next]_vars

\* Threads are scheduled by the operating system, a wait for a future and a
\* navigation have time-outs.  Nobody has to call, to close or to crash.
Fairness ==
    /\ \A c \in Caller : WF_vars(CallerStep(c))
    /\ WF_vars(CloseStep)
    /\ \A t \in Thread : WF_vars(WorkerStep(t))

FairSpec == Spec /\ Fairness

-----------------------------------------------------------------------------
(* Properties *)

\* The answer a caller finds is the page it asked for, or nothing: one that comes
\* after a time-out is never taken for that of the next call (render() makes a
\* Future for each job).
OwnPageOrNothing ==
    \A c \in Caller : at[c] = "wait" => answer[fut[c]] \in {None, "", wanted[c]}

\* A page comes back empty only if its own launch or rendering failed, or the
\* browser died under it: one that died before is replaced first (_worker_loop).
CrashIsolated ==
    \A f \in Future : answer[f] = "" => f \in hurt

\* Every call of render() returns, also one whose job was put behind the
\* sentinels of close(), or into a pool whose start close() prevented.
RenderReturns == \A c \in Caller : at[c] # "idle" ~> at[c] = "idle"

\* If the pool was complete when close() began, every browser thread ends, with
\* its browser.  (A pool that close() meets while it starts may keep threads.)
CompletePoolEnds == whole ~> \A t \in Thread : stage[t] = "exited"
=============================================================================
