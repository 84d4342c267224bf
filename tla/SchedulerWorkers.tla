-------------------------- MODULE SchedulerWorkers --------------------------
(***************************************************************************)
(* The scheduler-worker service in persistent mode: worker goroutines of   *)
(* any number of pods (runner.go), the control plane (service.go) and the  *)
(* queue they share.  Every mutation runs inside withDurableMutation under *)
(* the lock on the PostgreSQL counters row, so it is one step that ends    *)
(* with ExportState, or no step at all when the operation fails.           *)
(*                                                                         *)
(* A worker's loop waits for its ticker, leases a job, executes it by      *)
(* calling another service, and reports.  Executing is where time passes:  *)
(* the call may last minutes (boundedSyncExecutionTimeout), far beyond the *)
(* lease.  time.Ticker keeps the first tick that fires meanwhile, so the   *)
(* `now' of the next RunNext may be old: clock[w] is the time since w last *)
(* received a tick, the next tick fires PollInterval after that one, and   *)
(* the difference is the lag of the clock reading that RunNext uses.       *)
(***************************************************************************)
EXTENDS JobQueue, FiniteSetsExt

CONSTANTS
  Workers,
  PollInterval,
  MaxJobs,      \* bound: jobs ever appended
  MaxLosses     \* bound: workers that vanish and reports that are lost

ASSUME WorkersAssumption ==
  /\ PollInterval \in Nat \ {0}
  /\ MaxJobs \in Nat
  /\ MaxLosses \in Nat

VARIABLES
  queue,    \* the queue as PostgreSQL stores it
  task,     \* task[w]: the job worker w executes, or Idle
  clock,    \* clock[w]: time since w last received a tick
  done,     \* history: jobs some execution of which succeeded
  losses    \* losses so far

vars == <<queue, task, clock, done, losses>>

Idle == 0

ClockCap == PollInterval + MaxLag

Init ==
  /\ queue = NewInMemoryJobQueue
  /\ task = [w \in Workers |-> Idle]
  /\ clock \in [Workers -> 0 .. PollInterval]   \* tickers start at any time
  /\ done = {}
  /\ losses = 0

----------------------------------------------------------------------------
(* The worker loop.                                                        *)

\* A tick is waiting in the ticker's channel.
TickDue(w) == clock[w] >= PollInterval

\* The worker reads the queue in order and leases the first job that is
\* executable at the tick's time; "worker concurrency reached" ends the scan.
NextExecutable(r, lag) ==
  LET ready == {j \in DOMAIN r.jobs : CanLease(r, j, lag)}
  IN IF ready = {} THEN Idle ELSE Min(ready)

RunNext(w) ==
  LET lag == clock[w] - PollInterval
      r   == ExportState(queue)
      j   == NextExecutable(r, lag)
  IN /\ task[w] = Idle
     /\ TickDue(w)
     /\ task' = [task EXCEPT ![w] = j]
     /\ clock' = [clock EXCEPT ![w] = 0]
     /\ queue' = IF j = Idle THEN r ELSE ExportState(LeaseJob(r, j, lag))
     /\ UNCHANGED <<done, losses>>

\* Mutant: a failed call is reported as complete.
ReportFailureAsSuccess(w) ==
  /\ task[w] # Idle
  /\ task' = [task EXCEPT ![w] = Idle]
  /\ queue' = ExportState(Complete(queue, task[w]))
  /\ UNCHANGED <<clock, done, losses>>

\* The call failed: RunNext calls Fail, which is refused when the job is
\* already terminal.
ReportFailure(w) ==
  /\ task[w] # Idle
  /\ task' = [task EXCEPT ![w] = Idle]
  /\ \/ Terminal(queue, task[w]) /\ UNCHANGED queue
     \/ /\ ~Terminal(queue, task[w])
        /\ queue' = ExportState(Fail(queue, task[w], 0))
     \/ /\ ~Terminal(queue, task[w])   \* shouldDeadLetterImmediately
        /\ queue' = ExportState(FailNonRetryable(queue, task[w], 0))
  /\ UNCHANGED <<clock, done, losses>>

\* The call succeeded: RunNext calls Complete.
ReportSuccess(w) ==
  /\ task[w] # Idle
  /\ task' = [task EXCEPT ![w] = Idle]
  /\ queue' = ExportState(Complete(queue, task[w]))
  /\ done' = done \cup {task[w]}
  /\ UNCHANGED <<clock, losses>>

Finish(w) == ReportSuccess(w) \/ ReportFailure(w)

\* The pod dies during the call, or the call returns and the report's
\* transaction fails: RunNext returns the error and the loop goes on.
Lose(w) ==
  /\ task[w] # Idle
  /\ task' = [task EXCEPT ![w] = Idle]
  /\ \/ clock' = [clock EXCEPT ![w] = 0] /\ UNCHANGED done
     \/ UNCHANGED clock /\ (done' = done \/ done' = done \cup {task[w]})
  /\ UNCHANGED queue

----------------------------------------------------------------------------
(* The control plane.  A refused operation changes nothing.                *)

HasRoom(key) == Len(queue.jobs) < MaxJobs \/ Duplicate(queue, key)

EnqueueSync(key, corr) ==
  /\ HasRoom(key)
  /\ queue' = ExportState(EnqueueUnique(queue, key, corr))
  /\ UNCHANGED <<task, clock, done, losses>>

PauseJob(j) ==
  /\ ~Terminal(queue, j)
  /\ queue' = ExportState(Pause(queue, j))
  /\ UNCHANGED <<task, clock, done, losses>>

ResumeJob(j) ==
  /\ queue.jobs[j].status = "paused"
  /\ queue' = ExportState(Resume(queue, j, 0))
  /\ UNCHANGED <<task, clock, done, losses>>

CancelJob(j) ==
  /\ ~Terminal(queue, j)
  /\ queue' = ExportState(Cancel(queue, j))
  /\ UNCHANGED <<task, clock, done, losses>>

ReplayRecord(r, corr) ==
  /\ HasRoom(queue.deadLetters[r].key)
  /\ queue' = ExportState(ReplayDeadLetter(queue, r, corr))
  /\ UNCHANGED <<task, clock, done, losses>>

\* Time passes for everyone; an idle worker takes its tick when it fires.
Tick ==
  /\ \A w \in Workers : task[w] = Idle => ~TickDue(w)
  /\ queue' = PassTime(queue)
  /\ clock' = [w \in Workers |->
                 IF clock[w] < ClockCap THEN clock[w] + 1 ELSE ClockCap]
  /\ UNCHANGED <<task, done, losses>>

Requests ==
  \E key \in Keys, corr \in Correlations : EnqueueSync(key, corr)

Operators ==
  \/ \E j \in DOMAIN queue.jobs : PauseJob(j) \/ ResumeJob(j) \/ CancelJob(j)
  \/ \E r \in DOMAIN queue.deadLetters, corr \in Correlations : ReplayRecord(r, corr)

\* No operator intervenes and nothing is lost.
NextUnattended ==
  \/ \E w \in Workers : RunNext(w) \/ Finish(w)
  \/ Requests
  \/ Tick

Next ==
  \/ NextUnattended
  \/ Operators
  \/ \E w \in Workers : losses < MaxLosses /\ Lose(w) /\ losses' = losses + 1

\* The ticker keeps firing and the loop keeps receiving; every call has an
\* HTTP timeout, so an execution ends; time does not stop.
Fairness ==
  /\ WF_vars(Tick)
  /\ \A w \in Workers : WF_vars(RunNext(w)) /\ WF_vars(Finish(w))

Spec == Init /\ [][Next]_vars /\ Fairness

----------------------------------------------------------------------------
(* The contract this service implements.                                   *)

EndOf(job) == IF isTerminalJobStatus(job.status) THEN job.status ELSE "open"

\* A job as its client sees it
LifeOf(job) == [key |-> job.key, end |-> EndOf(job), tries |-> job.attempts]

LifeIn(q) == [j \in DOMAIN q.jobs |-> LifeOf(q.jobs[j])]

LettersIn(q) == [r \in DOMAIN q.deadLetters |-> q.deadLetters[r].job]

Contract == INSTANCE JobContract WITH
  life <- LifeIn(queue), worked <- done, letters <- LettersIn(queue)

----------------------------------------------------------------------------
\* The queue, the workers and their clocks have their types, and a worker
\* executes a job the queue knows.
TypeOK ==
  /\ queue \in JobQueueState
  /\ task \in [Workers -> Nat]
  /\ \A w \in Workers : task[w] # Idle => task[w] \in DOMAIN queue.jobs
  /\ clock \in [Workers -> 0 .. ClockCap]
  /\ done \subseteq DOMAIN queue.jobs
  /\ losses \in 0 .. MaxLosses

\* With workers that overrun their leases, report late and vanish, a dedupe
\* key still has one unfinished job at most.
UniqueActiveKey == UniqueActiveKeyIn(queue)

\* A job is recorded as succeeded only if some execution of it succeeded:
\* late reports, retries and replays never complete another job.
SucceededWasDone ==
  \A j \in DOMAIN queue.jobs : queue.jobs[j].status = "succeeded" => j \in done

\* A late report by a worker whose job was canceled, completed or
\* dead-lettered meanwhile changes nothing.
LateReportsAreIgnored == [][HistoryKept(queue, queue')]_vars

\* Whatever workers overrun, vanish, report late or twice, and whatever the
\* operators do in between, a client sees no more than the contract: every step
\* of the service is a step of JobContract or invisible.
ImplementsContract == Contract!Spec

\* Every queued job is eventually finished or paused by an operator, although
\* workers overrun, vanish and lose reports a bounded number of times: an
\* expired lease is always found and a retry is always due.
EventuallySettled ==
  \A j \in 1 .. MaxJobs :
    (j \in DOMAIN queue.jobs) ~>
      (/\ j \in DOMAIN queue.jobs
       /\ queue.jobs[j].status \notin {"pending", "leased", "running"})

=============================================================================
