------------------------------ MODULE JobQueue ------------------------------
(***************************************************************************)
(* The operations of the job queue of packages/store (memory.go, jobs.go)  *)
(* as functions from a queue to a queue.  InMemoryJobQueue runs them under *)
(* the queue's mutex; SchedulerWorkers and SchedulerState run them on the  *)
(* copy of the queue that the scheduler keeps in PostgreSQL.               *)
(*                                                                         *)
(* A job's ID is its index in q.jobs: jobs are appended and never removed. *)
(* Time is relative: `delay' is NotBefore - now and `lease' is             *)
(* LeaseExpiresAt - now.  Both fall as time passes and stop at -MaxLag.    *)
(* The operations that take a `now' parameter take here `lag', how far     *)
(* that reading lies behind the clock when the operation runs.             *)
(***************************************************************************)
EXTENDS Integers, Sequences, FiniteSets

CONSTANTS
  Keys,            \* dedupe keys
  NoKey,           \* the empty dedupe key
  Correlations,    \* correlation IDs
  NoCorrelation,   \* the empty correlation ID
  MaxAttempts,     \* JOB_MAX_ATTEMPTS
  MaxConcurrency,  \* WorkerConcurrency
  LeaseTTL,        \* LeaseTTL
  RetryBackoff,    \* RetryBackoff
  MaxLag           \* bound: the oldest clock reading a caller may pass

\* packages/config rejects values that are not positive.
ASSUME SettingsAssumption ==
  /\ MaxAttempts \in Nat \ {0}
  /\ MaxConcurrency \in Nat \ {0}
  /\ LeaseTTL \in Nat \ {0}
  /\ RetryBackoff \in Nat \ {0}
  /\ MaxLag \in Nat

\* The provers know nothing of exponentiation.
ASSUME PowersAssumption == \A n \in 0 .. MaxAttempts : 2^n \in Nat

ASSUME NamesAssumption ==
  /\ NoKey \notin Keys
  /\ NoCorrelation \notin Correlations

----------------------------------------------------------------------------
SyncJobStatus ==
  {"pending", "leased", "running", "succeeded",
   "failed", "dead_letter", "paused", "canceled"}

QueueJob ==
  [status   : SyncJobStatus,
   key      : Keys \cup {NoKey},
   corr     : Correlations \cup {NoCorrelation},
   attempts : 0 .. MaxAttempts,
   delay    : Int,
   lease    : Int]

DeadLetterRecord ==
  [job      : Nat \ {0},
   key      : Keys \cup {NoKey},
   corr     : Correlations \cup {NoCorrelation},
   replayed : BOOLEAN]

JobQueueState ==
  [jobs         : Seq(QueueJob),
   deadLetters  : Seq(DeadLetterRecord),
   retryCount   : Nat,
   failureCount : Nat,
   replayCount  : Nat]

NewInMemoryJobQueue ==
  [jobs |-> << >>, deadLetters |-> << >>,
   retryCount |-> 0, failureCount |-> 0, replayCount |-> 0]

\* Mutant: a paused job gives up its dedupe key.
isActiveJobStatusForgetsPaused(status) ==
  status \in {"pending", "leased", "running"}

isActiveJobStatus(status) ==
  status \in {"pending", "leased", "running", "paused"}

isTerminalJobStatus(status) ==
  status \in {"succeeded", "dead_letter", "canceled"}

----------------------------------------------------------------------------
(* Reading the queue.                                                      *)

HasLease(job) == job.status \in {"leased", "running"}

activeLeases(q) == {j \in DOMAIN q.jobs : HasLease(q.jobs[j])}

\* !job.LeaseExpiresAt.After(now)
Expired(job, lag) == job.status = "leased" /\ job.lease <= -lag

\* job.Status == JobPending && !job.NotBefore.After(now)
Ready(job, lag) == job.status = "pending" /\ job.delay <= -lag

\* The scan of EnqueueUnique and of ReplayDeadLetter for an active job.
Duplicate(q, key) ==
  \E j \in DOMAIN q.jobs :
    key # NoKey /\ q.jobs[j].key = key /\ isActiveJobStatus(q.jobs[j].status)

----------------------------------------------------------------------------
(* Time and leases.                                                        *)

SetJobs(q, jobs) == [q EXCEPT !.jobs = jobs]

SetJob(q, j, job) == SetJobs(q, [q.jobs EXCEPT ![j] = job])

WithStatus(job, status) == [job EXCEPT !.status = status]

WithDelay(job, delay) == [job EXCEPT !.delay = delay]

WithLease(job, lease) == [job EXCEPT !.lease = lease]

Clip(t) == IF t < -MaxLag THEN -MaxLag ELSE t

Older(job) ==
  WithDelay(IF job.status = "leased" THEN WithLease(job, Clip(job.lease - 1)) ELSE job,
            Clip(job.delay - 1))

\* One unit of time goes by.
PassTime(q) == SetJobs(q, [j \in DOMAIN q.jobs |-> Older(q.jobs[j])])

\* The job with another status and no lease.
Settled(job, status) == WithStatus(WithLease(job, 0), status)

\* Mutant: expired leases are not reaped.
reapNothing(q, lag) == q

reapExpiredLeases(q, lag) ==
  SetJobs(q, [j \in DOMAIN q.jobs |->
                IF Expired(q.jobs[j], lag)
                THEN Settled(q.jobs[j], "pending") ELSE q.jobs[j]])

\* Jobs, Job, Snapshot and ExportState read the queue after reaping it at
\* the current time; the first three leave it reaped, the last exports it.
ExportState(q) == reapExpiredLeases(q, 0)

Leased(job, lag) ==
  WithStatus(WithLease(job, Clip(LeaseTTL - lag)), "leased")

\* The first n members of a set of job indices.
FirstOf(S, n) == {j \in S : Cardinality({i \in S : i < j}) < n}

readyJobs(q, lag) == {j \in DOMAIN q.jobs : Ready(q.jobs[j], lag)}

LeaseAll(q, pick, lag) ==
  SetJobs(q, [j \in DOMAIN q.jobs |->
                IF j \in pick THEN Leased(q.jobs[j], lag) ELSE q.jobs[j]])

\* Mutant: the leases already given are not subtracted.
LeaseReadyIgnoresActive(q, limit, lag) ==
  LET r == reapExpiredLeases(q, lag)
      n == IF limit <= 0 \/ limit > MaxConcurrency THEN MaxConcurrency ELSE limit
  IN LeaseAll(r, FirstOf(readyJobs(r, lag), n), lag)

\* limit <= 0 asks for as many leases as the concurrency leaves.
LeaseReady(q, limit, lag) ==
  LET r         == reapExpiredLeases(q, lag)
      remaining == MaxConcurrency - Cardinality(activeLeases(r))
      n         == IF limit <= 0 \/ limit > remaining THEN remaining ELSE limit
  IN LeaseAll(r, FirstOf(readyJobs(r, lag), n), lag)

\* The errors ("worker concurrency reached", "job is not ready") leave the
\* queue reaped.
CanLease(r, j, lag) ==
  Cardinality(activeLeases(r)) < MaxConcurrency /\ Ready(r.jobs[j], lag)

LeaseJob(q, j, lag) ==
  LET r == reapExpiredLeases(q, lag)
  IN IF CanLease(r, j, lag) THEN SetJob(r, j, Leased(r.jobs[j], lag)) ELSE r

----------------------------------------------------------------------------
(* Enqueueing and reporting on a job.                                      *)

NewQueueJob(key, corr) ==
  [status |-> "pending", key |-> key, corr |-> corr,
   attempts |-> 0, delay |-> 0, lease |-> 0]

EnqueueUnique(q, key, corr) ==
  IF Duplicate(q, key)
  THEN q
  ELSE SetJobs(q, Append(q.jobs, NewQueueJob(key, corr)))

Terminal(q, j) == isTerminalJobStatus(q.jobs[j].status)

\* Mutant: the terminal check is missing.
CompleteOverwrites(q, j) == SetJob(q, j, Settled(q.jobs[j], "succeeded"))

Complete(q, j) ==
  IF Terminal(q, j) THEN q ELSE SetJob(q, j, Settled(q.jobs[j], "succeeded"))

Pause(q, j) ==
  IF Terminal(q, j) THEN q ELSE SetJob(q, j, Settled(q.jobs[j], "paused"))

Resume(q, j, lag) ==
  IF q.jobs[j].status # "paused"
  THEN q
  ELSE SetJob(q, j, WithDelay(Settled(q.jobs[j], "pending"), -lag))

Cancel(q, j) ==
  IF Terminal(q, j) THEN q ELSE SetJob(q, j, Settled(q.jobs[j], "canceled"))

CancelByCorrelation(q, corr) ==
  SetJobs(q, [j \in DOMAIN q.jobs |->
                IF corr # NoCorrelation /\ q.jobs[j].corr = corr /\ ~Terminal(q, j)
                THEN Settled(q.jobs[j], "canceled") ELSE q.jobs[j]])

deadLetterRecordForJob(j, job) ==
  [job |-> j, key |-> job.key, corr |-> job.corr, replayed |-> FALSE]

\* Job j becomes `job', which is dead-lettered, with its record and the
\* failure counter.
AddDeadLetter(q, j, job) ==
  [jobs         |-> [q.jobs EXCEPT ![j] = job],
   deadLetters  |-> Append(q.deadLetters, deadLetterRecordForJob(j, job)),
   retryCount   |-> q.retryCount,
   failureCount |-> q.failureCount + 1,
   replayCount  |-> q.replayCount]

Retry(q, j, job) == [SetJob(q, j, job) EXCEPT !.retryCount = q.retryCount + 1]

\* baseBackoff * (1 << (attempt - 1))
Backoff(attempt) == RetryBackoff * 2^(attempt - 1)

Failed(job, status, attempts) ==
  [Settled(job, status) EXCEPT !.attempts = attempts]

Fail(q, j, lag) ==
  LET n == q.jobs[j].attempts + 1
  IN IF Terminal(q, j) THEN q
     ELSE IF n >= MaxAttempts
     THEN AddDeadLetter(q, j, Failed(q.jobs[j], "dead_letter", n))
     ELSE Retry(q, j, WithDelay(Failed(q.jobs[j], "pending", n),
                                Clip(Backoff(n) - lag)))

\* Mutant: the terminal check is missing.
FailNonRetryableIgnoresTerminal(q, j, lag) ==
  AddDeadLetter(q, j,
    WithDelay(Failed(q.jobs[j], "dead_letter", MaxAttempts), -lag))

FailNonRetryable(q, j, lag) ==
  LET n == q.jobs[j].attempts + 1
  IN IF Terminal(q, j) THEN q
     ELSE AddDeadLetter(q, j,
            WithDelay(Failed(q.jobs[j], "dead_letter",
                             IF n < MaxAttempts THEN MaxAttempts ELSE n), -lag))

\* record.ReplayedAt = now
Stamped(record) == [record EXCEPT !.replayed = TRUE]

Stamp(q, r) ==
  [q EXCEPT !.deadLetters = [q.deadLetters EXCEPT ![r] = Stamped(q.deadLetters[r])]]

\* The record is stamped before the scan for an active duplicate.
ReplayDeadLetter(q, r, corr) ==
  LET record == q.deadLetters[r]
      job    == NewQueueJob(record.key, IF corr = NoCorrelation THEN record.corr ELSE corr)
  IN IF Duplicate(q, record.key)
     THEN Stamp(q, r)
     ELSE [SetJobs(Stamp(q, r), Append(q.jobs, job)) EXCEPT !.replayCount = q.replayCount + 1]

----------------------------------------------------------------------------
(* What a queue must satisfy, whoever runs the operations.                 *)

\* The statuses of a job whose dedupe key is taken.
Unfinished == {"pending", "leased", "running", "paused"}

\* Two unfinished jobs never share a dedupe key.
UniqueActiveKeyIn(q) ==
  \A i, j \in DOMAIN q.jobs :
    /\ q.jobs[i].status \in Unfinished
    /\ q.jobs[j].status \in Unfinished
    /\ q.jobs[i].key = q.jobs[j].key
    /\ q.jobs[i].key # NoKey
    => i = j

\* No more jobs are leased than the configured concurrency.
LeaseBoundIn(q) == Cardinality(activeLeases(q)) <= MaxConcurrency

\* A job has used all its attempts exactly when it is dead-lettered.
AttemptBudgetIn(q) ==
  \A j \in DOMAIN q.jobs :
    q.jobs[j].attempts = MaxAttempts <=> q.jobs[j].status = "dead_letter"

\* Every dead-lettered job has its one record, no other job has one, and the
\* failure counter counts the records.
DeadLetterLedgerIn(q) ==
  /\ \A r \in DOMAIN q.deadLetters :
       /\ q.deadLetters[r].job \in DOMAIN q.jobs
       /\ q.jobs[q.deadLetters[r].job].status = "dead_letter"
  /\ \A j \in DOMAIN q.jobs :
       q.jobs[j].status = "dead_letter" =>
         \E r \in DOMAIN q.deadLetters : q.deadLetters[r].job = j
  /\ \A r, s \in DOMAIN q.deadLetters :
       q.deadLetters[r].job = q.deadLetters[s].job => r = s
  /\ q.failureCount = Len(q.deadLetters)

\* From q to p no job disappears, a finished job keeps its status, attempts
\* are never given back and a dead-letter record stays where it is.
HistoryKept(q, p) ==
  /\ \A j \in DOMAIN q.jobs :
       /\ j \in DOMAIN p.jobs
       /\ q.jobs[j].status \in {"succeeded", "dead_letter", "canceled"} =>
            p.jobs[j].status = q.jobs[j].status
       /\ q.jobs[j].attempts <= p.jobs[j].attempts
  /\ \A r \in DOMAIN q.deadLetters :
       /\ r \in DOMAIN p.deadLetters
       /\ p.deadLetters[r].job = q.deadLetters[r].job
       /\ q.deadLetters[r].replayed => p.deadLetters[r].replayed
=============================================================================
