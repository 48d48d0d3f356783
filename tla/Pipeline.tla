------------------------------- MODULE Pipeline -------------------------------
(***************************************************************************)
(* One campaign run by Pipeline.run, over any number of sessions: the main  *)
(* thread collects listings query by query into a bounded work queue, a     *)
(* pool of workers enriches them, one committer filters and commits them,   *)
(* and the shutdown passes sentinels down the same queues.  A new session   *)
(* skips the queries the checkpoint calls done.                             *)
(*                                                                          *)
(* The commit itself is one step here (module DurableExport has its parts)  *)
(* and two listings are duplicates when they are of one business (module    *)
(* IdentityResolver has the signals).                                       *)
(***************************************************************************)
EXTENDS Integers, Sequences, FiniteSets, Functions

CONSTANTS Queries,      \* the configured queries, in order
          Results,      \* the listings the collector yields for each query
          BusinessOf,   \* the business a listing is of
          Worker,       \* website_workers
          MaxInFlight,  \* capacity of the work queue
          IdleExit,     \* runtime.idle_exit_seconds is set
          Faults,       \* the faults that may happen, a subset of FaultKind
          None          \* the sentinel; no record

FaultKind ==
    { "crash",          \* the process dies
      "interrupt",      \* KeyboardInterrupt, or another exception run() lets
                        \* through, reaches the main thread
      "deadline",       \* a join takes longer than _shutdown_pool allows
      "collect_error",  \* the collector raises (bot challenge, browser error)
      "commit_error" }  \* _commit_stage raises

Query    == Range(Queries)
Listing  == UNION {Range(Results[q]) : q \in Query}
Business == {BusinessOf[l] : l \in Listing}

ASSUME ListingAssumption ==
    /\ None \notin Listing
    /\ Queries \in Seq(Query)
    /\ \A q \in Query : Results[q] \in Seq(Listing)
ASSUME PoolAssumption ==
    /\ Worker # {} /\ IsFiniteSet(Worker)
    /\ MaxInFlight \in Nat \ {0}
    /\ IdleExit \in BOOLEAN
    /\ Faults \subseteq FaultKind

VARIABLES
    status,        \* queries table
    committed,     \* businesses of the committed records, oldest first
    refused,       \* businesses a filter or the quality gate refused, ever
    workbook,      \* businesses in leads.xlsx, none when it cannot be read
    pc,            \* where the main thread is
    qi,            \* index of the current query
    taken,         \* listings of it the collector has yielded
    held,          \* the record the main thread is putting
    unsent,        \* sentinels _shutdown_pool has still to put
    timed,         \* _shutdown_pool runs with the 10 second timeout
    abandoned,     \* the main thread went on without the other threads
    written,       \* this session has written the workbook
    seen,          \* businesses the identity resolver knows
    workQ, doneQ,  \* the two queues
    task,          \* the record each worker enriches
    exited,        \* workers that have left their loop
    committing,    \* the record in the commit stage
    committerDone, \* the committer has left its loop
    live           \* records of the session that nothing has decided yet

durable == <<status, committed, refused, workbook>>
main    == <<pc, qi, taken, held, unsent, timed, abandoned, written>>
workers == <<task, exited>>
commit  == <<committing, committerDone>>
vars    == <<durable, main, seen, workQ, doneQ, workers, commit, live>>

Stopping == {"stopping", "joining", "draining"}

TypeOK ==
    /\ status \in [Query -> {"absent", "pending", "done"}]
    /\ committed \in Seq(Business)
    /\ refused \subseteq Business /\ workbook \subseteq Business
    /\ pc \in {"down", "next", "collect", "put", "xlsx", "close"} \cup Stopping
    /\ qi \in 1..Len(Queries) + 1
    /\ taken \in Nat
    /\ held \in Listing \cup {None}
    /\ unsent \in 0..Cardinality(Worker)
    /\ timed \in BOOLEAN /\ abandoned \in BOOLEAN /\ written \in BOOLEAN
    /\ seen \subseteq Business
    /\ workQ \in Seq(Listing \cup {None}) /\ Len(workQ) <= MaxInFlight
    /\ doneQ \in Seq(Listing \cup {None})
    /\ task \in [Worker -> Listing \cup {None}]
    /\ exited \subseteq Worker
    /\ committing \in Listing \cup {None}
    /\ committerDone \in BOOLEAN
    /\ live \subseteq Listing

Init ==
    /\ status = [q \in Query |-> "absent"]
    /\ committed = <<>> /\ refused = {} /\ workbook = {}
    /\ pc = "down" /\ qi = 1 /\ taken = 0 /\ held = None
    /\ unsent = 0 /\ timed = FALSE /\ abandoned = FALSE /\ written = FALSE
    /\ seen = {} /\ workQ = <<>> /\ doneQ = <<>>
    /\ task = [w \in Worker |-> None] /\ exited = {}
    /\ committing = None /\ committerDone = FALSE
    /\ live = {}

-----------------------------------------------------------------------------
(* The main thread: queries and listings *)

\* Mutant: the resolver of a new session starts empty.
StartUnseeded ==
    /\ pc = "down"
    /\ pc' = "next"
    /\ UNCHANGED <<durable, qi, taken, held, unsent, timed, abandoned, written,
                   seen, workQ, doneQ, workers, commit, live>>

\* Pipeline.__init__ seeds the resolver; run() starts the pool.
Start ==
    /\ pc = "down"
    /\ pc' = "next"
    /\ seen' = Range(committed)
    /\ UNCHANGED <<durable, qi, taken, held, unsent, timed, abandoned, written,
                   workQ, doneQ, workers, commit, live>>

\* Mutant: a sentinel too few.
BeginShutdownShort(timeout) ==
    /\ pc' = "stopping"
    /\ unsent' = Cardinality(Worker) - 1
    /\ timed' = timeout

BeginShutdown(timeout) ==
    /\ pc' = "stopping"
    /\ unsent' = Cardinality(Worker)
    /\ timed' = timeout

SkipDoneQuery ==
    /\ pc = "next" /\ qi <= Len(Queries) /\ status[Queries[qi]] = "done"
    /\ qi' = qi + 1
    /\ UNCHANGED <<durable, pc, taken, held, unsent, timed, abandoned, written,
                   seen, workQ, doneQ, workers, commit, live>>

\* The loop over the queries ends, or breaks on _idle_exceeded.
EndQueries ==
    /\ pc = "next"
    /\ \/ qi > Len(Queries)
       \/ qi <= Len(Queries) /\ status[Queries[qi]] # "done" /\ IdleExit
    /\ BeginShutdown(FALSE)
    /\ UNCHANGED <<durable, qi, taken, held, abandoned, written,
                   seen, workQ, doneQ, workers, commit, live>>

\* register_query: INSERT OR IGNORE.
BeginQuery ==
    /\ pc = "next" /\ qi <= Len(Queries) /\ status[Queries[qi]] # "done"
    /\ status' = [status EXCEPT ![Queries[qi]] = IF @ = "absent" THEN "pending" ELSE @]
    /\ taken' = 0
    /\ pc' = "collect"
    /\ UNCHANGED <<committed, refused, workbook, qi, held, unsent, timed, abandoned, written,
                   seen, workQ, doneQ, workers, commit, live>>

NextListing == Results[Queries[qi]][taken + 1]

Yielded ==
    /\ pc = "collect" /\ taken < Len(Results[Queries[qi]])
    /\ taken' = taken + 1

CollectDuplicate ==
    /\ Yielded
    /\ BusinessOf[NextListing] \in seen
    /\ UNCHANGED <<durable, pc, qi, held, unsent, timed, abandoned, written,
                   seen, workQ, doneQ, workers, commit, live>>

\* Outside every polygon, or refused by require_website or a pre-filter: what
\* the resolver added for it is rolled back.
CollectRefused ==
    /\ Yielded
    /\ BusinessOf[NextListing] \notin seen
    /\ refused' = refused \cup {BusinessOf[NextListing]}
    /\ UNCHANGED <<status, committed, workbook, pc, qi, held, unsent, timed, abandoned, written,
                   seen, workQ, doneQ, workers, commit, live>>

CollectAdmitted ==
    /\ Yielded
    /\ BusinessOf[NextListing] \notin seen
    /\ seen' = seen \cup {BusinessOf[NextListing]}
    /\ held' = NextListing
    /\ live' = live \cup {NextListing}
    /\ pc' = "put"
    /\ UNCHANGED <<durable, qi, unsent, timed, abandoned, written,
                   workQ, doneQ, workers, commit>>

\* Mutant: the queue has no capacity.
PutWorkUnbounded ==
    /\ pc = "put"
    /\ workQ' = Append(workQ, held)
    /\ held' = None
    /\ pc' = "collect"
    /\ UNCHANGED <<durable, qi, taken, unsent, timed, abandoned, written,
                   seen, doneQ, workers, commit, live>>

\* work_q.put blocks while the queue is full; then _idle_exceeded may raise
\* _RunIdle, which leaves the query pending and ends the loop over the queries.
PutWork ==
    /\ pc = "put" /\ Len(workQ) < MaxInFlight
    /\ workQ' = Append(workQ, held)
    /\ held' = None
    /\ \/ pc' = "collect" /\ UNCHANGED <<unsent, timed>>
       \/ IdleExit /\ BeginShutdown(FALSE)
    /\ UNCHANGED <<durable, qi, taken, abandoned, written,
                   seen, doneQ, workers, commit, live>>

\* mark_query_done: its records may still be anywhere in the pipeline.
EndQuery ==
    /\ pc = "collect" /\ taken = Len(Results[Queries[qi]])
    /\ status' = [status EXCEPT ![Queries[qi]] = "done"]
    /\ qi' = qi + 1
    /\ pc' = "next"
    /\ UNCHANGED <<committed, refused, workbook, taken, held, unsent, timed, abandoned, written,
                   seen, workQ, doneQ, workers, commit, live>>

\* Mutant: a query that failed is marked done.
QueryFailsDone ==
    /\ "collect_error" \in Faults
    /\ pc = "collect"
    /\ status' = [status EXCEPT ![Queries[qi]] = "done"]
    /\ qi' = qi + 1
    /\ pc' = "next"
    /\ UNCHANGED <<committed, refused, workbook, taken, held, unsent, timed, abandoned, written,
                   seen, workQ, doneQ, workers, commit, live>>

\* mark_query_failed
QueryFails ==
    /\ "collect_error" \in Faults
    /\ pc = "collect"
    /\ status' = [status EXCEPT ![Queries[qi]] = "pending"]
    /\ qi' = qi + 1
    /\ pc' = "next"
    /\ UNCHANGED <<committed, refused, workbook, taken, held, unsent, timed, abandoned, written,
                   seen, workQ, doneQ, workers, commit, live>>

-----------------------------------------------------------------------------
(* The main thread: _shutdown_pool and _finalize *)

\* put_nowait, or on a full queue a put that blocks.
PutSentinel ==
    /\ pc = "stopping" /\ unsent > 0 /\ Len(workQ) < MaxInFlight
    /\ workQ' = Append(workQ, None)
    /\ unsent' = unsent - 1
    /\ UNCHANGED <<durable, pc, qi, taken, held, timed, abandoned, written,
                   seen, doneQ, workers, commit, live>>

SentinelsPut ==
    /\ pc = "stopping" /\ unsent = 0
    /\ pc' = "joining"
    /\ UNCHANGED <<durable, qi, taken, held, unsent, timed, abandoned, written,
                   seen, workQ, doneQ, workers, commit, live>>

\* Mutant: the committer is told to end while workers are still busy.
JoinWorkersAtOnce ==
    /\ pc = "joining"
    /\ doneQ' = Append(doneQ, None)
    /\ pc' = "draining"
    /\ UNCHANGED <<durable, qi, taken, held, unsent, timed, abandoned, written,
                   seen, workQ, workers, commit, live>>

\* The workers are joined until the deadline; then the committer is told to end.
JoinWorkers ==
    /\ pc = "joining"
    /\ \/ exited = Worker /\ UNCHANGED abandoned
       \/ "deadline" \in Faults /\ exited # Worker /\ abandoned' = TRUE
    /\ doneQ' = Append(doneQ, None)
    /\ pc' = "draining"
    /\ UNCHANGED <<durable, qi, taken, held, unsent, timed, written,
                   seen, workQ, workers, commit, live>>

JoinCommitter ==
    /\ pc = "draining"
    /\ \/ committerDone /\ UNCHANGED abandoned
       \/ "deadline" \in Faults /\ ~committerDone /\ abandoned' = TRUE
    /\ pc' = "xlsx"
    /\ UNCHANGED <<durable, qi, taken, held, unsent, timed, written,
                   seen, workQ, doneQ, workers, commit, live>>

\* _finalize: whatever write_xlsx raises is only logged, and without openpyxl it
\* returns at once.  The workbook is then the one of an earlier session, or, when
\* the save broke off, none that can be read.
WriteXlsx ==
    /\ pc = "xlsx"
    /\ \/ workbook' = Range(committed) /\ written' = TRUE
       \/ workbook' \in {workbook, {}} /\ written' = FALSE
    /\ pc' = "close"
    /\ UNCHANGED <<status, committed, refused, qi, taken, held, unsent, timed, abandoned,
                   seen, workQ, doneQ, workers, commit, live>>

\* The process ends: threads still running are daemons and end with it.
Exit ==
    /\ pc' = "down" /\ qi' = 1 /\ taken' = 0 /\ held' = None
    /\ unsent' = 0 /\ timed' = FALSE /\ abandoned' = FALSE /\ written' = FALSE
    /\ seen' = {} /\ workQ' = <<>> /\ doneQ' = <<>>
    /\ task' = [w \in Worker |-> None] /\ exited' = {}
    /\ committing' = None /\ committerDone' = FALSE
    /\ live' = {}

Close == pc = "close" /\ Exit /\ UNCHANGED durable

\* What stops the main thread inside write_xlsx may leave half a file.
WorkbookLeft ==
    UNCHANGED workbook \/ (pc = "xlsx" /\ workbook' = {})

\* An exception leaves the loop over the queries: the finally block shuts the
\* pool down with a timeout, and a record on its way into the queue is gone.
InterruptLoop ==
    /\ "interrupt" \in Faults
    /\ pc \in {"next", "collect", "put"}
    /\ held' = None
    /\ live' = live \ {held}
    /\ BeginShutdown(TRUE)
    /\ UNCHANGED <<durable, qi, taken, abandoned, written,
                   seen, workQ, doneQ, workers, commit>>

\* An exception inside the first shutdown: the second one returns at once.
\* Inside the second, or in _finalize: only main()'s close is left.
InterruptShutdown ==
    /\ "interrupt" \in Faults
    /\ pc \in Stopping \cup {"xlsx"}
    /\ abandoned' = TRUE
    /\ pc' = IF timed \/ pc = "xlsx" THEN "close" ELSE "xlsx"
    /\ WorkbookLeft
    /\ UNCHANGED <<status, committed, refused, qi, taken, held, unsent, timed, written,
                   seen, workQ, doneQ, workers, commit, live>>

Crash ==
    /\ "crash" \in Faults
    /\ pc # "down"
    /\ Exit /\ WorkbookLeft
    /\ UNCHANGED <<status, committed, refused>>

-----------------------------------------------------------------------------
(* The workers: _worker_loop *)

TakeTask(w) ==
    /\ pc # "down" /\ w \notin exited /\ task[w] = None /\ workQ # <<>>
    /\ workQ' = Tail(workQ)
    /\ IF Head(workQ) = None
       THEN exited' = exited \cup {w} /\ UNCHANGED task
       ELSE task' = [task EXCEPT ![w] = Head(workQ)] /\ UNCHANGED exited
    /\ UNCHANGED <<durable, main, seen, doneQ, commit, live>>

\* Mutant: an exception of the enrichment drops the record.
EnrichDrops(w) ==
    /\ task[w] # None
    /\ \/ doneQ' = Append(doneQ, task[w])
       \/ UNCHANGED doneQ
    /\ task' = [task EXCEPT ![w] = None]
    /\ UNCHANGED <<durable, main, seen, workQ, exited, commit, live>>

\* Whatever the enrichment raises, the record goes on to the committer.
Enrich(w) ==
    /\ task[w] # None
    /\ doneQ' = Append(doneQ, task[w])
    /\ task' = [task EXCEPT ![w] = None]
    /\ UNCHANGED <<durable, main, seen, workQ, exited, commit, live>>

-----------------------------------------------------------------------------
(* The committer: _committer_loop and _commit_stage *)

TakeDone ==
    /\ pc # "down" /\ ~committerDone /\ committing = None /\ doneQ # <<>>
    /\ doneQ' = Tail(doneQ)
    /\ IF Head(doneQ) = None
       THEN committerDone' = TRUE /\ UNCHANGED committing
       ELSE committing' = Head(doneQ) /\ UNCHANGED committerDone
    /\ UNCHANGED <<durable, main, seen, workQ, workers, live>>

Decided ==
    /\ committing # None
    /\ committing' = None
    /\ live' = live \ {committing}

\* A post-filter or the quality gate: the resolver forgets the record.
RefuseRecord ==
    /\ Decided
    /\ refused' = refused \cup {BusinessOf[committing]}
    /\ seen' = seen \ {BusinessOf[committing]}
    /\ UNCHANGED <<status, committed, workbook, main, workQ, doneQ, workers, committerDone>>

CommitRecord ==
    /\ Decided
    /\ committed' = Append(committed, BusinessOf[committing])
    /\ UNCHANGED <<status, refused, workbook, main, seen, workQ, doneQ, workers, committerDone>>

CommitRaises ==
    /\ "commit_error" \in Faults
    /\ Decided
    /\ UNCHANGED <<durable, main, seen, workQ, doneQ, workers, committerDone>>

-----------------------------------------------------------------------------
MainStep ==
    \/ SkipDoneQuery \/ EndQueries \/ BeginQuery
    \/ CollectDuplicate \/ CollectRefused \/ CollectAdmitted
    \/ PutWork \/ EndQuery \/ QueryFails
    \/ PutSentinel \/ SentinelsPut \/ JoinWorkers \/ JoinCommitter
    \/ WriteXlsx \/ Close

WorkerStep(w) == TakeTask(w) \/ Enrich(w)

CommitterStep == TakeDone \/ RefuseRecord \/ CommitRecord \/ CommitRaises

Next ==
    \/ Start \/ MainStep
    \/ InterruptLoop \/ InterruptShutdown \/ Crash
    \/ \E w \in Worker : WorkerStep(w)
    \/ CommitterStep

Spec == Init /\ [][Next]_vars

\* Every thread runs: the scheduler is fair to each, and every fetch, lookup
\* and verification of an enrichment has a timeout.
FairSpec ==
    /\ Spec
    /\ WF_vars(MainStep) /\ WF_vars(CommitterStep)
    /\ \A w \in Worker : WF_vars(WorkerStep(w))

-----------------------------------------------------------------------------
(* Properties *)

Count(q, l) == Cardinality({i \in DOMAIN q : q[i] = l})

Places(l) ==
    Count(<<held, committing>>, l) + Count(workQ, l) + Count(doneQ, l) + Count(task, l)

(***************************************************************************)
(* Between its collection and its decision every record is in exactly one   *)
(* place, a queue or a thread's hands: the queues, the sentinels and the    *)
(* shutdown neither lose a record nor let two threads have it.              *)
(***************************************************************************)
NothingLostOrDoubled ==
    \A l \in Listing : Places(l) = IF l \in live THEN 1 ELSE 0

(***************************************************************************)
(* One lead per business over all sessions: what the resolver forgets when  *)
(* a record is refused, and what a restart seeds, never lets a second       *)
(* record of a committed business through.                                  *)
(***************************************************************************)
OneLeadPerBusiness == IsInjective(committed)

(***************************************************************************)
(* A shutdown that did not give up on a thread leaves nothing behind: when  *)
(* the workbook is due every record is decided, and the workbook, unless    *)
(* writing it failed, holds exactly the committed leads ("the committer     *)
(* writes every enriched record, THEN the run finishes").                   *)
(***************************************************************************)
DrainedBeforeFinish ==
    /\ pc \in {"xlsx", "close"} /\ ~abandoned => live = {}
    /\ pc = "close" /\ ~abandoned /\ written => workbook = Range(committed)

(***************************************************************************)
(* Every run comes to its end: no wait of one thread for another (a full    *)
(* queue, a sentinel, a join) is for ever.                                  *)
(***************************************************************************)
RunEnds == pc # "down" ~> pc = "down"

(***************************************************************************)
(* What a restart relies on when it skips a query ("completed queries are   *)
(* skipped and incomplete work is retried"): between sessions, each         *)
(* business of a done query was committed or refused.                       *)
(***************************************************************************)
DoneQueriesResolved ==
    pc = "down" =>
        \A q \in Query : status[q] = "done" =>
            \A l \in Range(Results[q]) : BusinessOf[l] \in Range(committed) \cup refused

(***************************************************************************)
(* The run implements Campaign: whatever the threads and the faults, a      *)
(* business is claimed by one record at a time and exported once, a query   *)
(* marked done stays done, and a workbook written after a complete shutdown *)
(* has every lead of the campaign, with nothing still under way; when it    *)
(* could not be written the session closes without a report.                *)
(***************************************************************************)
Phase ==
    CASE pc = "down" -> "stopped"
      [] pc \in {"next", "collect", "put"} -> "collecting"
      [] pc = "close" /\ ~abandoned /\ written -> "reported"
      [] OTHER -> "closing"

Ledger == INSTANCE Campaign WITH
    leads <- committed, report <- workbook, phase <- Phase,
    claimed <- {BusinessOf[l] : l \in live},
    done <- {q \in Query : status[q] = "done"}

CampaignSpec == Ledger!Spec

\* What is left of it when queries, refusals and reports are forgotten: the
\* promise IdentityResolver keeps call by call.
Claims == INSTANCE BusinessClaims WITH
    leads <- committed, claimed <- {BusinessOf[l] : l \in live}

ClaimsSpec == Claims!Spec
=============================================================================
