-------------------------- MODULE InMemoryJobQueue --------------------------
(***************************************************************************)
(* store.InMemoryJobQueue: one queue, every operation atomic under q.mu,   *)
(* called by any number of workers and operators in any order.             *)
(***************************************************************************)
EXTENDS JobQueue

CONSTANTS MaxJobs   \* bound: jobs ever appended

ASSUME MaxJobsAssumption == MaxJobs \in Nat

VARIABLE queue

Init == queue = NewInMemoryJobQueue

Lags == 0 .. MaxLag

\* Bound: an operation that appends a job needs room for it.
HasRoom(key) == Len(queue.jobs) < MaxJobs \/ Duplicate(queue, key)

CallEnqueueUnique(key, corr) ==
  HasRoom(key) /\ queue' = EnqueueUnique(queue, key, corr)

CallLeaseReady(limit, lag) == queue' = LeaseReady(queue, limit, lag)

CallLeaseJob(j, lag) == queue' = LeaseJob(queue, j, lag)

CallComplete(j) == queue' = Complete(queue, j)

CallPause(j) == queue' = Pause(queue, j)

CallResume(j, lag) == queue' = Resume(queue, j, lag)

CallCancel(j) == queue' = Cancel(queue, j)

CallCancelByCorrelation(corr) == queue' = CancelByCorrelation(queue, corr)

CallFail(j, lag) == queue' = Fail(queue, j, lag)

CallFailNonRetryable(j, lag) == queue' = FailNonRetryable(queue, j, lag)

CallReplayDeadLetter(r, corr) ==
  /\ HasRoom(queue.deadLetters[r].key)
  /\ queue' = ReplayDeadLetter(queue, r, corr)

\* Jobs, Job, Snapshot, ExportState.
Read == queue' = ExportState(queue)

Tick == queue' = PassTime(queue)

Next ==
  \/ \E key \in Keys \cup {NoKey}, corr \in Correlations \cup {NoCorrelation} :
       CallEnqueueUnique(key, corr)
  \/ \E limit \in 0 .. MaxConcurrency + 1, lag \in Lags : CallLeaseReady(limit, lag)
  \/ \E j \in DOMAIN queue.jobs, lag \in Lags : CallLeaseJob(j, lag)
  \/ \E j \in DOMAIN queue.jobs : CallComplete(j)
  \/ \E j \in DOMAIN queue.jobs : CallPause(j)
  \/ \E j \in DOMAIN queue.jobs, lag \in Lags : CallResume(j, lag)
  \/ \E j \in DOMAIN queue.jobs : CallCancel(j)
  \/ \E corr \in Correlations \cup {NoCorrelation} : CallCancelByCorrelation(corr)
  \/ \E j \in DOMAIN queue.jobs, lag \in Lags : CallFail(j, lag)
  \/ \E j \in DOMAIN queue.jobs, lag \in Lags : CallFailNonRetryable(j, lag)
  \/ \E r \in DOMAIN queue.deadLetters, corr \in Correlations \cup {NoCorrelation} :
       CallReplayDeadLetter(r, corr)
  \/ Read
  \/ Tick

Spec == Init /\ [][Next]_queue

----------------------------------------------------------------------------
\* The queue has its Go type: statuses, attempts within the budget, counters.
TypeOK == queue \in JobQueueState

\* sync jobs are deduplicated by dedupe_key: EnqueueUnique and
\* ReplayDeadLetter never leave two unfinished jobs with one key, whatever
\* pauses, expiries, late failures and replays come between.
UniqueActiveKey == UniqueActiveKeyIn(queue)

\* LeaseReady and LeaseJob, with reaping, lagging clocks and batch requests,
\* never lease more jobs at once than WorkerConcurrency.
LeaseBound == LeaseBoundIn(queue)

\* Fail and FailNonRetryable dead-letter a job exactly when its attempts run
\* out, whatever order reports arrive in.
AttemptBudget == AttemptBudgetIn(queue)

\* Every dead-lettered job is recorded once and only once, even when several
\* workers report the same job's failure, and failureCount agrees.
DeadLetterLedger == DeadLetterLedgerIn(queue)

\* No operation reopens a finished job, forgets an attempt or drops a record:
\* a completion or failure that arrives after a cancel changes nothing.
TerminalIsFinal == [][HistoryKept(queue, queue')]_queue
=============================================================================
