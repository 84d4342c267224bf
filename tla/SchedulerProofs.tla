--------------------------- MODULE SchedulerProofs ---------------------------
(***************************************************************************)
(* SchedulerWorkers for any number of workers and jobs, any lease and poll *)
(* interval, any clock lag and any number of losses.  Every step is a      *)
(* sequence of queue operations followed by ExportState, so the invariant  *)
(* of the queue carries over once each worker is known to hold a job that  *)
(* the queue contains.                                                     *)
(*                                                                         *)
(* SchedulerState for any number of pods and mutations.                    *)
(*                                                                         *)
(* BackfillPlans for any plans, targets, replicas and clock lag: what      *)
(* plans and deleted plans report is what the counters and the ticks under *)
(* way hold.                                                               *)
(***************************************************************************)
EXTENDS SchedulerWorkers, SchedulerState, BackfillPlans, JobQueueLemmas,
        SequenceTheorems, WellFoundedInduction

\* The inductive invariant.
Inv ==
  /\ QueueInv(queue)
  /\ LeaseBoundIn(queue)
  /\ TypeOK

\* A nonempty set of job indices has a least member.
LEMMA MinMember ==
  ASSUME NEW S, S \subseteq Nat, S # {}
  PROVE  Min(S) \in S
<1>1. PICK x \in S : \A y \in S : ~(<<y, x>> \in OpToRel(<, Nat))
  BY NatLessThanWellFounded, WFMin
<1>2. \A y \in S : x <= y
  <2> SUFFICES ASSUME NEW y \in S PROVE x <= y
    OBVIOUS
  <2>1. ~(<<y, x>> \in OpToRel(<, Nat))
    BY <1>1
  <2>2. x \in Nat /\ y \in Nat
    OBVIOUS
  <2>3. ~(y < x)
    BY <2>1, <2>2 DEF OpToRel
  <2> QED
    BY <2>2, <2>3
<1> QED
  BY <1>2 DEF Min

\* The scheduler starts with an empty queue and idle workers.
LEMMA InitInv == Init => Inv
<1> SUFFICES ASSUME Init PROVE Inv
  OBVIOUS
<1>1. /\ queue.jobs = << >>
      /\ queue.deadLetters = << >>
      /\ queue.failureCount = 0
      /\ queue \in JobQueueState
  BY DEF Init, NewInMemoryJobQueue, JobQueueState
<1>2. QueueInv(queue)
  BY <1>1 DEF QueueInv, UniqueActiveKeyIn, AttemptBudgetIn, DeadLetterLedgerIn
<1>3. activeLeases(queue) = {}
  BY <1>1 DEF activeLeases
<1>4. LeaseBoundIn(queue)
  BY <1>3, FS_EmptySet, SettingsAssumption DEF LeaseBoundIn
<1>5. clock \in [Workers -> 0 .. ClockCap]
  BY SettingsAssumption, WorkersAssumption DEF Init, ClockCap
<1>6. TypeOK
  BY <1>1, <1>5, WorkersAssumption DEF Init, TypeOK, Idle
<1> QED
  BY <1>2, <1>4, <1>6 DEF Inv

\* An operation followed by ExportState keeps the queue if the operation does.
LEMMA ThenExport ==
  ASSUME NEW q, NEW p, QueueInv(q), Keeps(q, p)
  PROVE  Keeps(q, ExportState(p))
<1>1. QueueInv(p)
  BY DEF Keeps
<1>2. Keeps(p, ExportState(p))
  BY <1>1, ExportKeeps
<1> QED
  BY <1>2, KeepsTrans

\* Reaping leaves the indices of the jobs alone.
LEMMA ExportDomain ==
  ASSUME NEW q, QueueInv(q)
  PROVE  DOMAIN ExportState(q).jobs = DOMAIN q.jobs
  BY ReapInv DEF ExportState, Rewrites

\* The lag of a tick that is due lies within the bound.
LEMMA LagType ==
  ASSUME TypeOK, NEW w \in Workers, TickDue(w)
  PROVE  clock[w] - PollInterval \in 0 .. MaxLag
<1>1. clock[w] \in 0 .. PollInterval + MaxLag
  BY DEF TypeOK, ClockCap
<1> QED
  BY <1>1, SettingsAssumption, WorkersAssumption DEF TickDue

\* A worker that polls leases the first executable job or none.
LEMMA RunNextKeeps ==
  ASSUME Inv, NEW w \in Workers, RunNext(w)
  PROVE  /\ Keeps(queue, queue')
         /\ task'[w] # Idle => task'[w] \in DOMAIN queue.jobs
<1> DEFINE lag == clock[w] - PollInterval
           r   == ExportState(queue)
           j   == NextExecutable(r, lag)
<1>1. QueueInv(queue) /\ TypeOK
  BY DEF Inv
<1>2. lag \in 0 .. MaxLag
  BY <1>1, LagType DEF RunNext
<1>3. Keeps(queue, r) /\ QueueInv(r) /\ DOMAIN r.jobs = DOMAIN queue.jobs
  BY <1>1, ExportKeeps, ExportDomain DEF Keeps
<1>4. DOMAIN r.jobs \subseteq Nat
  <2>1. r.jobs \in Seq(QueueJob)
    BY <1>3 DEF QueueInv, JobQueueState
  <2> QED
    BY <2>1
<1>5. j # Idle => j \in DOMAIN r.jobs
  <2> DEFINE ready == {i \in DOMAIN r.jobs : CanLease(r, i, lag)}
  <2>1. ready \subseteq Nat /\ ready \subseteq DOMAIN r.jobs
    BY <1>4
  <2>2. ready # {} => Min(ready) \in ready
    BY <2>1, MinMember
  <2>3. j = IF ready = {} THEN Idle ELSE Min(ready)
    BY DEF NextExecutable
  <2> HIDE DEF ready, j, r
  <2> QED
    BY <2>1, <2>2, <2>3
<1>6. /\ queue' = IF j = Idle THEN r ELSE ExportState(LeaseJob(r, j, lag))
      /\ task' = [task EXCEPT ![w] = j]
  BY DEF RunNext
<1> HIDE DEF lag, r, j
<1>7. Keeps(queue, queue')
  <2>1. CASE j = Idle
    BY <1>3, <1>6, <2>1
  <2>2. CASE j # Idle
    <3>1. Keeps(r, LeaseJob(r, j, lag))
      BY <1>2, <1>3, <1>5, <2>2, LeaseJobKeeps
    <3>2. Keeps(r, ExportState(LeaseJob(r, j, lag)))
      BY <1>3, <3>1, ThenExport
    <3> QED
      BY <1>1, <1>3, <1>6, <2>2, <3>2, KeepsTrans
  <2> QED
    BY <2>1, <2>2
<1>8. task'[w] = j
  BY <1>1, <1>6 DEF TypeOK
<1> QED
  BY <1>3, <1>5, <1>7, <1>8
\* After a step that keeps the queue, the jobs that workers hold and the jobs
\* done are still jobs of the queue.
LEMMA StepInv ==
  ASSUME Inv, Keeps(queue, queue'),
         task' \in [Workers -> Nat],
         \A w \in Workers : task'[w] # Idle =>
           task'[w] = task[w] \/ task'[w] \in DOMAIN queue.jobs,
         clock' \in [Workers -> 0 .. ClockCap],
         done' \subseteq DOMAIN queue.jobs,
         losses' \in 0 .. MaxLosses
  PROVE  Inv'
<1>1. QueueInv(queue') /\ LeaseBoundIn(queue')
  BY DEF Inv, Keeps
<1>2. queue' \in JobQueueState
  BY <1>1 DEF QueueInv
<1>3. \A i \in DOMAIN queue.jobs : i \in DOMAIN queue'.jobs
  BY DEF Keeps, HistoryKept
<1>4. \A w \in Workers : task'[w] # Idle => task'[w] \in DOMAIN queue'.jobs
  BY <1>3 DEF Inv, TypeOK
<1>5. done' \subseteq DOMAIN queue'.jobs
  BY <1>3
<1>6. TypeOK'
  BY <1>2, <1>4, <1>5 DEF TypeOK
<1> QED
  BY <1>1, <1>6 DEF Inv

\* A job index is a number.
LEMMA IndexType ==
  ASSUME Inv, NEW j \in DOMAIN queue.jobs
  PROVE  j \in Nat
<1>1. queue.jobs \in Seq(QueueJob)
  BY DEF Inv, TypeOK, JobQueueState
<1> QED
  BY <1>1

\* Polling keeps the invariant.
LEMMA RunNextInv ==
  ASSUME Inv, NEW w \in Workers, RunNext(w)
  PROVE  Inv' /\ HistoryKept(queue, queue')
<1>1. Keeps(queue, queue') /\ (task'[w] # Idle => task'[w] \in DOMAIN queue.jobs)
  BY RunNextKeeps
<1>2. TypeOK
  BY DEF Inv
<1>3. PICK j : task' = [task EXCEPT ![w] = j]
  BY DEF RunNext
<1>4. j = task'[w] /\ \A v \in Workers : v # w => task'[v] = task[v]
  BY <1>2, <1>3 DEF TypeOK
<1>5. j \in Nat
  BY <1>1, <1>4, IndexType DEF Idle
<1>6. task' \in [Workers -> Nat]
  BY <1>2, <1>3, <1>5 DEF TypeOK
<1>7. clock' = [clock EXCEPT ![w] = 0] /\ done' = done /\ losses' = losses
  BY DEF RunNext
<1>8. clock' \in [Workers -> 0 .. ClockCap]
  BY <1>2, <1>7, SettingsAssumption, WorkersAssumption DEF TypeOK, ClockCap
<1>9. done' \subseteq DOMAIN queue.jobs /\ losses' \in 0 .. MaxLosses
  BY <1>2, <1>7 DEF TypeOK
<1>10. \A v \in Workers : task'[v] # Idle =>
         task'[v] = task[v] \/ task'[v] \in DOMAIN queue.jobs
  BY <1>1, <1>4
<1> QED
  BY <1>1, <1>6, <1>8, <1>9, <1>10, StepInv DEF Keeps

\* Zero is a clock reading without lag.
LEMMA NoLag == 0 \in 0 .. MaxLag
  BY SettingsAssumption

\* A worker that is no longer executing holds nothing.
LEMMA Released ==
  ASSUME Inv, NEW w \in Workers, task' = [task EXCEPT ![w] = Idle]
  PROVE  /\ task' \in [Workers -> Nat]
         /\ \A v \in Workers : task'[v] # Idle => task'[v] = task[v]
  BY DEF Inv, TypeOK, Idle

\* A report, on time or late, keeps the invariant and the history.
LEMMA FinishInv ==
  ASSUME Inv, NEW w \in Workers, Finish(w)
  PROVE  Inv' /\ HistoryKept(queue, queue')
<1>1. QueueInv(queue) /\ TypeOK
  BY DEF Inv
<1>2. task[w] # Idle /\ task' = [task EXCEPT ![w] = Idle]
      /\ clock' = clock /\ losses' = losses
  BY DEF Finish, ReportSuccess, ReportFailure
<1>3. task[w] \in DOMAIN queue.jobs
  BY <1>1, <1>2 DEF TypeOK
<1>4. done' \subseteq DOMAIN queue.jobs
  BY <1>1, <1>3 DEF Finish, ReportSuccess, ReportFailure, TypeOK
<1>5. Keeps(queue, queue')
  <2>1. /\ Keeps(queue, Complete(queue, task[w]))
        /\ Keeps(queue, Fail(queue, task[w], 0))
        /\ Keeps(queue, FailNonRetryable(queue, task[w], 0))
    BY <1>1, <1>3, NoLag, CompleteKeeps, FailKeeps, FailNonRetryableKeeps
  <2>2. /\ Keeps(queue, ExportState(Complete(queue, task[w])))
        /\ Keeps(queue, ExportState(Fail(queue, task[w], 0)))
        /\ Keeps(queue, ExportState(FailNonRetryable(queue, task[w], 0)))
    BY <1>1, <2>1, ThenExport
  <2>3. Keeps(queue, queue)
    BY <1>1, UnchangedKeeps
  <2>4. \/ queue' = queue
        \/ queue' = ExportState(Complete(queue, task[w]))
        \/ queue' = ExportState(Fail(queue, task[w], 0))
        \/ queue' = ExportState(FailNonRetryable(queue, task[w], 0))
    BY DEF Finish, ReportSuccess, ReportFailure
  <2> QED
    BY <2>2, <2>3, <2>4
<1>6. clock' \in [Workers -> 0 .. ClockCap] /\ losses' \in 0 .. MaxLosses
  BY <1>1, <1>2 DEF TypeOK
<1>7. Inv'
  BY <1>2, <1>4, <1>5, <1>6, Released, StepInv
<1> QED
  BY <1>5, <1>7 DEF Keeps

\* A worker that vanishes, or whose report is lost, leaves the queue alone.
LEMMA LoseInv ==
  ASSUME Inv, NEW w \in Workers, Lose(w), losses' \in 0 .. MaxLosses
  PROVE  Inv' /\ HistoryKept(queue, queue')
<1>1. QueueInv(queue) /\ TypeOK
  BY DEF Inv
<1>2. task[w] # Idle /\ task' = [task EXCEPT ![w] = Idle] /\ queue' = queue
  BY DEF Lose
<1>3. task[w] \in DOMAIN queue.jobs
  BY <1>1, <1>2 DEF TypeOK
<1>4. done' \subseteq DOMAIN queue.jobs
  BY <1>1, <1>3 DEF Lose, TypeOK
<1>5. clock' \in [Workers -> 0 .. ClockCap]
  BY <1>1, SettingsAssumption, WorkersAssumption DEF Lose, TypeOK, ClockCap
<1>6. Keeps(queue, queue')
  BY <1>1, <1>2, UnchangedKeeps
<1>7. Inv'
  BY <1>2, <1>4, <1>5, <1>6, Released, StepInv
<1> QED
  BY <1>6, <1>7 DEF Keeps

\* A step of the control plane that keeps the queue keeps the invariant.
LEMMA ControlInv ==
  ASSUME Inv, Keeps(queue, queue'), UNCHANGED <<task, clock, done, losses>>
  PROVE  Inv' /\ HistoryKept(queue, queue')
<1>1. TypeOK
  BY DEF Inv
<1>2. /\ task' \in [Workers -> Nat]
      /\ \A w \in Workers : task'[w] # Idle =>
           task'[w] = task[w] \/ task'[w] \in DOMAIN queue.jobs
      /\ clock' \in [Workers -> 0 .. ClockCap]
      /\ done' \subseteq DOMAIN queue.jobs
      /\ losses' \in 0 .. MaxLosses
  BY <1>1 DEF TypeOK
<1>3. Inv'
  BY <1>2, StepInv
<1> QED
  BY <1>3 DEF Keeps

\* Requests keep the invariant.
LEMMA RequestsInv ==
  ASSUME Inv, Requests
  PROVE  Inv' /\ HistoryKept(queue, queue')
<1>1. QueueInv(queue)
  BY DEF Inv
<1>2. PICK key \in Keys, corr \in Correlations : EnqueueSync(key, corr)
  BY DEF Requests
<1>3. Keeps(queue, EnqueueUnique(queue, key, corr))
  BY <1>1, EnqueueUniqueKeeps
<1>4. Keeps(queue, queue') /\ UNCHANGED <<task, clock, done, losses>>
  BY <1>1, <1>2, <1>3, ThenExport DEF EnqueueSync
<1> QED
  BY <1>4, ControlInv

\* Operators keep the invariant.
LEMMA OperatorsInv ==
  ASSUME Inv, Operators
  PROVE  Inv' /\ HistoryKept(queue, queue')
<1>1. QueueInv(queue)
  BY DEF Inv
<1>2. ASSUME NEW j \in DOMAIN queue.jobs, PauseJob(j) \/ ResumeJob(j) \/ CancelJob(j)
      PROVE  Keeps(queue, queue') /\ UNCHANGED <<task, clock, done, losses>>
  <2>1. /\ Keeps(queue, Pause(queue, j))
        /\ Keeps(queue, Resume(queue, j, 0))
        /\ Keeps(queue, Cancel(queue, j))
    BY <1>1, NoLag, PauseKeeps, ResumeKeeps, CancelKeeps
  <2>2. /\ Keeps(queue, ExportState(Pause(queue, j)))
        /\ Keeps(queue, ExportState(Resume(queue, j, 0)))
        /\ Keeps(queue, ExportState(Cancel(queue, j)))
    BY <1>1, <2>1, ThenExport
  <2> QED
    BY <1>2, <2>2 DEF PauseJob, ResumeJob, CancelJob
<1>3. ASSUME NEW r \in DOMAIN queue.deadLetters, NEW corr \in Correlations,
             ReplayRecord(r, corr)
      PROVE  Keeps(queue, queue') /\ UNCHANGED <<task, clock, done, losses>>
  <2>1. Keeps(queue, ReplayDeadLetter(queue, r, corr))
    BY <1>1, ReplayDeadLetterKeeps
  <2> QED
    BY <1>1, <1>3, <2>1, ThenExport DEF ReplayRecord
<1>4. Keeps(queue, queue') /\ UNCHANGED <<task, clock, done, losses>>
  BY <1>2, <1>3 DEF Operators
<1> QED
  BY <1>4, ControlInv

\* The passing of time keeps the invariant.
LEMMA TickInv ==
  ASSUME Inv, Tick
  PROVE  Inv' /\ HistoryKept(queue, queue')
<1>1. QueueInv(queue) /\ TypeOK
  BY DEF Inv
<1>2. Keeps(queue, queue')
  BY <1>1, PassTimeKeeps DEF Tick
<1>3. clock' \in [Workers -> 0 .. ClockCap]
  <2>1. ClockCap \in Nat
    BY SettingsAssumption, WorkersAssumption DEF ClockCap
  <2>2. \A w \in Workers : clock[w] \in 0 .. ClockCap
    BY <1>1 DEF TypeOK
  <2> QED
    BY <2>1, <2>2 DEF Tick
<1>4. task' = task /\ done' = done /\ losses' = losses
  BY DEF Tick
<1>5. /\ task' \in [Workers -> Nat]
      /\ \A w \in Workers : task'[w] # Idle =>
           task'[w] = task[w] \/ task'[w] \in DOMAIN queue.jobs
      /\ done' \subseteq DOMAIN queue.jobs
      /\ losses' \in 0 .. MaxLosses
  BY <1>1, <1>4 DEF TypeOK
<1>6. Inv'
  BY <1>2, <1>3, <1>5, StepInv
<1> QED
  BY <1>2, <1>6 DEF Keeps

\* Every step keeps the invariant and the history.
LEMMA NextInv == Inv /\ [Next]_vars => Inv' /\ [HistoryKept(queue, queue')]_vars
<1> SUFFICES ASSUME Inv, [Next]_vars PROVE Inv' /\ [HistoryKept(queue, queue')]_vars
  OBVIOUS
<1>1. CASE UNCHANGED vars
  BY <1>1 DEF vars, Inv, TypeOK, QueueInv, LeaseBoundIn
<1>2. CASE NextUnattended
  BY <1>2, RunNextInv, FinishInv, RequestsInv, TickInv DEF NextUnattended
<1>3. CASE Operators
  BY <1>3, OperatorsInv
<1>4. ASSUME NEW w \in Workers, losses < MaxLosses, Lose(w), losses' = losses + 1
      PROVE  Inv' /\ HistoryKept(queue, queue')
  <2>1. losses \in 0 .. MaxLosses
    BY DEF Inv, TypeOK
  <2>2. losses' \in 0 .. MaxLosses
    BY <1>4, <2>1, WorkersAssumption
  <2> QED
    BY <1>4, <2>2, LoseInv
<1> QED
  BY <1>1, <1>2, <1>3, <1>4 DEF Next

----------------------------------------------------------------------------
\* The invariant holds in every state of every run.
THEOREM Invariance == Spec => []Inv
<1>1. Inv /\ [Next]_vars => Inv'
  BY NextInv
<1> QED
  BY InitInv, <1>1, PTL DEF Spec

\* Types are kept, and a worker only ever executes a job the queue knows.
THEOREM TypeCorrect == Spec => []TypeOK
<1>1. Inv => TypeOK
  BY DEF Inv
<1> QED
  BY Invariance, <1>1, PTL

\* Whatever workers do late or never, one dedupe key has one unfinished job.
THEOREM KeysAreUnique == Spec => []UniqueActiveKey
<1>1. Inv => UniqueActiveKey
  BY DEF Inv, QueueInv, UniqueActiveKey
<1> QED
  BY Invariance, <1>1, PTL

\* No late report reopens a finished job or changes how it finished.
THEOREM LateReportsChangeNothing == Spec => LateReportsAreIgnored
<1>1. Inv /\ [Next]_vars => [HistoryKept(queue, queue')]_vars
  BY NextInv
<1> QED
  BY Invariance, <1>1, PTL DEF Spec, LateReportsAreIgnored

-----------------------------------------------------------------------------
(***************************************************************************)
(* SchedulerWorkers implements JobContract.  An operation on the queue     *)
(* either changes nothing a client sees, or rewrites one job, appends one, *)
(* or gives one up; that ExportState follows is never visible.  What the   *)
(* contract says about success then holds of the service.                  *)
(***************************************************************************)

\* A client sees no difference between the queues q and p.
Alike(q, p) == LifeIn(p) = LifeIn(q) /\ LettersIn(p) = LettersIn(q)

\* One job of a queue is replaced by another.
LEMMA OneJobLife ==
  ASSUME NEW q, NEW p, QueueInv(q), NEW j \in DOMAIN q.jobs, NEW job \in QueueJob,
         p.jobs = [q.jobs EXCEPT ![j] = job], p.deadLetters = q.deadLetters
  PROVE  /\ LifeIn(p) = [LifeIn(q) EXCEPT ![j] = LifeOf(job)]
         /\ LettersIn(p) = LettersIn(q)
<1>1. DOMAIN p.jobs = DOMAIN q.jobs
  OBVIOUS
<1>2. \A i \in DOMAIN q.jobs : p.jobs[i] = IF i = j THEN job ELSE q.jobs[i]
  OBVIOUS
<1> QED
  BY <1>1, <1>2 DEF LifeIn, LettersIn

\* Jobs that look the same one by one make queues that look the same.
LEMMA SameLife ==
  ASSUME NEW q, NEW p, DOMAIN p.jobs = DOMAIN q.jobs,
         \A j \in DOMAIN q.jobs : LifeOf(p.jobs[j]) = LifeOf(q.jobs[j]),
         p.deadLetters = q.deadLetters
  PROVE  Alike(q, p)
  BY DEF Alike, LifeIn, LettersIn

\* A job that is not finished looks open.
LEMMA OpenLife ==
  ASSUME NEW job, job.status \notin Finished
  PROVE  LifeOf(job) = [key |-> job.key, end |-> "open", tries |-> job.attempts]
  BY DEF LifeOf, EndOf, isTerminalJobStatus, Finished

\* A finished job shows its status as its end.
LEMMA FinishedLife ==
  ASSUME NEW job, job.status \in Finished
  PROVE  LifeOf(job) = [key |-> job.key, end |-> job.status, tries |-> job.attempts]
  BY DEF LifeOf, EndOf, isTerminalJobStatus, Finished

\* A job that was open and is settled to an open status looks as before.
LEMMA SettledLife ==
  ASSUME NEW job \in QueueJob, job.status \notin Finished, NEW s \in {"pending", "paused"}
  PROVE  LifeOf(Settled(job, s)) = LifeOf(job)
<1>1. s \in SyncJobStatus /\ s \notin Finished
  BY DEF SyncJobStatus, Finished
<1>2. /\ Settled(job, s).status = s /\ Settled(job, s).key = job.key
      /\ Settled(job, s).attempts = job.attempts
  BY <1>1, SettledJob
<1> HIDE DEF Finished
<1> QED
  BY <1>1, <1>2, OpenLife

\* Reading the queue, which reaps it, shows nothing.
LEMMA ExportAlike ==
  ASSUME NEW q, QueueInv(q)
  PROVE  Alike(q, ExportState(q))
<1> DEFINE f == [j \in DOMAIN q.jobs |->
                   IF Expired(q.jobs[j], 0) THEN Settled(q.jobs[j], "pending") ELSE q.jobs[j]]
<1>1. q \in JobQueueState
  BY DEF QueueInv
<1>2. \A j \in DOMAIN q.jobs : q.jobs[j] \in QueueJob
  BY <1>1, JobAt
<1>3. \A j \in DOMAIN q.jobs : f[j] \in QueueJob
  BY <1>2, SettledJob, StatusNames
<1>4. f \in Seq(QueueJob) /\ DOMAIN f = DOMAIN q.jobs
  BY <1>1, <1>3, MapJobs, Zenon
<1>5. /\ SetJobs(q, f).jobs = f
      /\ SetJobs(q, f).deadLetters = q.deadLetters
  BY <1>1, <1>4, SetJobsQueue
<1>6. ASSUME NEW j \in DOMAIN q.jobs
      PROVE  LifeOf(f[j]) = LifeOf(q.jobs[j])
  <2>1. CASE Expired(q.jobs[j], 0)
    <3>1. q.jobs[j].status \notin Finished
      BY <2>1 DEF Expired, Finished
    <3>2. f[j] = Settled(q.jobs[j], "pending")
      BY <2>1
    <3> QED
      BY <1>2, <3>1, <3>2, SettledLife
  <2>2. CASE ~Expired(q.jobs[j], 0)
    BY <2>2
  <2> QED
    BY <2>1, <2>2
<1>7. ExportState(q) = SetJobs(q, f)
  BY DEF ExportState, reapExpiredLeases
<1> HIDE DEF f
<1> QED
  BY <1>4, <1>5, <1>6, <1>7, SameLife

\* What an operation shows is what shows after it was exported.
LEMMA ExportShows ==
  ASSUME NEW q, QueueInv(q)
  PROVE  /\ LifeIn(ExportState(q)) = LifeIn(q)
         /\ LettersIn(ExportState(q)) = LettersIn(q)
  BY ExportAlike DEF Alike

----------------------------------------------------------------------------
(* What each operation shows.                                              *)

\* Pausing is not visible: a paused job is open.
LEMMA PauseAlike ==
  ASSUME NEW q, QueueInv(q), NEW j \in DOMAIN q.jobs
  PROVE  Alike(q, Pause(q, j))
<1>1. CASE Terminal(q, j)
  BY <1>1 DEF Pause, Alike
<1>2. CASE ~Terminal(q, j)
  <2> DEFINE job == Settled(q.jobs[j], "paused")
  <2>1. q.jobs[j] \in QueueJob /\ q.jobs[j].status \notin Finished
    BY <1>2, JobAt, TerminalStatus DEF QueueInv
  <2>2. LifeOf(job) = LifeOf(q.jobs[j])
    BY <2>1, SettledLife
  <2>3. JobStep(q.jobs[j], job)
    BY <2>1, SettledStep
  <2>4. Pause(q, j) = SetJob(q, j, job)
    BY <1>2 DEF Pause
  <2> HIDE DEF job
  <2>5. /\ SetJob(q, j, job).jobs = [q.jobs EXCEPT ![j] = job]
        /\ SetJob(q, j, job).deadLetters = q.deadLetters
    BY <2>3, SetJobRewrites DEF Rewrites
  <2> QED
    BY <2>2, <2>4, <2>5, SameLife
<1> QED
  BY <1>1, <1>2

\* Resuming makes a paused job pending: it was open and is open.
LEMMA ResumeAlike ==
  ASSUME NEW q, QueueInv(q), NEW j \in DOMAIN q.jobs
  PROVE  Alike(q, Resume(q, j, 0))
<1>1. CASE q.jobs[j].status # "paused"
  BY <1>1 DEF Resume, Alike
<1>2. CASE q.jobs[j].status = "paused"
  <2> DEFINE a   == Settled(q.jobs[j], "pending")
             job == WithDelay(a, -0)
  <2>1. q.jobs[j] \in QueueJob /\ q.jobs[j].status \notin Finished
    BY <1>2, JobAt DEF QueueInv, Finished
  <2>2. LifeOf(a) = LifeOf(q.jobs[j]) /\ a \in QueueJob
    BY <2>1, SettledLife, SettledJob, StatusNames
  <2>3. job \in QueueJob /\ job.status = a.status /\ job.key = a.key /\ job.attempts = a.attempts
    BY <2>2, WithDelayJob
  <2>4. LifeOf(job) = LifeOf(a)
    BY <2>3 DEF LifeOf, EndOf
  <2>5. Resume(q, j, 0) = SetJob(q, j, job)
    BY <1>2 DEF Resume
  <2> HIDE DEF a, job
  <2>6. q.jobs \in Seq(QueueJob)
    BY DEF QueueInv, JobQueueState
  <2>7. [q.jobs EXCEPT ![j] = job] \in Seq(QueueJob)
    BY <2>3, <2>6
  <2>8. /\ SetJob(q, j, job).jobs = [q.jobs EXCEPT ![j] = job]
        /\ SetJob(q, j, job).deadLetters = q.deadLetters
    BY <2>7, SetJobsQueue DEF SetJob, QueueInv
  <2> QED
    BY <2>2, <2>4, <2>5, <2>8, SameLife
<1> QED
  BY <1>1, <1>2

\* Leasing reaps and then marks a pending job leased: both are open.
LEMMA LeaseAlike ==
  ASSUME NEW q, QueueInv(q), NEW j \in DOMAIN q.jobs, NEW lag \in 0 .. MaxLag
  PROVE  Alike(q, LeaseJob(q, j, lag))
<1> DEFINE r   == reapExpiredLeases(q, lag)
           job == Leased(r.jobs[j], lag)
<1>1. Rewrites(q, r) /\ QueueInv(r)
  BY ReapInv, RewritesInv
<1>2. Alike(q, r)
  <2> SUFFICES ASSUME NEW i \in DOMAIN q.jobs
               PROVE  LifeOf(r.jobs[i]) = LifeOf(q.jobs[i])
    <3> HIDE DEF r
    <3> QED
      BY <1>1, SameLife DEF Rewrites
  <2>1. q.jobs[i] \in QueueJob
    BY JobAt DEF QueueInv
  <2>2. r.jobs[i] = IF Expired(q.jobs[i], lag) THEN Settled(q.jobs[i], "pending") ELSE q.jobs[i]
    <3> DEFINE f == [k \in DOMAIN q.jobs |->
                       IF Expired(q.jobs[k], lag) THEN Settled(q.jobs[k], "pending") ELSE q.jobs[k]]
    <3>1. \A k \in DOMAIN q.jobs : f[k] \in QueueJob
      BY JobAt, SettledJob, StatusNames DEF QueueInv
    <3>2. f \in Seq(QueueJob)
      BY <3>1, MapJobs, Zenon DEF QueueInv
    <3>3. SetJobs(q, f).jobs = f
      BY <3>2, SetJobsQueue DEF QueueInv
    <3>4. r = SetJobs(q, f)
      BY DEF reapExpiredLeases
    <3> QED
      BY <3>3, <3>4
  <2>3. Expired(q.jobs[i], lag) => q.jobs[i].status \notin Finished
    BY DEF Expired, Finished
  <2> QED
    BY <2>1, <2>2, <2>3, SettledLife
<1>3. CASE ~CanLease(r, j, lag)
  BY <1>2, <1>3 DEF LeaseJob
<1>4. CASE CanLease(r, j, lag)
  <2>1. j \in DOMAIN r.jobs /\ r.jobs[j].status = "pending"
    BY <1>1, <1>4 DEF CanLease, Ready, Rewrites
  <2>2. r.jobs[j] \in QueueJob
    BY <1>1, <2>1, JobAt DEF QueueInv
  <2>3. /\ job \in QueueJob /\ job.status = "leased"
        /\ job.key = r.jobs[j].key /\ job.attempts = r.jobs[j].attempts
    BY <2>2, LeasedJob
  <2>4. LifeOf(job) = LifeOf(r.jobs[j])
    BY <2>1, <2>3 DEF LifeOf, EndOf, isTerminalJobStatus
  <2>5. LeaseJob(q, j, lag) = SetJob(r, j, job)
    BY <1>4 DEF LeaseJob
  <2> HIDE DEF r, job
  <2>6. r.jobs \in Seq(QueueJob)
    BY <1>1 DEF QueueInv, JobQueueState
  <2>7. [r.jobs EXCEPT ![j] = job] \in Seq(QueueJob)
    BY <2>1, <2>3, <2>6
  <2>8. /\ SetJob(r, j, job).jobs = [r.jobs EXCEPT ![j] = job]
        /\ SetJob(r, j, job).deadLetters = r.deadLetters
    BY <1>1, <2>7, SetJobsQueue DEF SetJob, QueueInv
  <2>9. Alike(r, SetJob(r, j, job))
    BY <2>4, <2>8, SameLife
  <2> QED
    BY <1>2, <2>5, <2>9 DEF Alike
<1> QED
  BY <1>3, <1>4

\* Waiting changes deadlines only.
LEMMA PassTimeAlike ==
  ASSUME NEW q, QueueInv(q)
  PROVE  Alike(q, PassTime(q))
<1> DEFINE f == [j \in DOMAIN q.jobs |-> Older(q.jobs[j])]
<1>1. \A j \in DOMAIN q.jobs : q.jobs[j] \in QueueJob
  BY JobAt DEF QueueInv
<1>2. \A j \in DOMAIN q.jobs :
         /\ f[j] \in QueueJob /\ f[j].status = q.jobs[j].status
         /\ f[j].key = q.jobs[j].key /\ f[j].attempts = q.jobs[j].attempts
  BY <1>1, OlderJob
<1>3. f \in Seq(QueueJob) /\ DOMAIN f = DOMAIN q.jobs
  BY <1>2, MapJobs, Zenon DEF QueueInv
<1>4. PassTime(q).jobs = f /\ PassTime(q).deadLetters = q.deadLetters
  BY <1>3, SetJobsQueue DEF PassTime, QueueInv
<1>5. \A j \in DOMAIN q.jobs : LifeOf(f[j]) = LifeOf(q.jobs[j])
  BY <1>2 DEF LifeOf, EndOf
<1> HIDE DEF f
<1> QED
  BY <1>3, <1>4, <1>5, SameLife

\* An open job ends, as the contract has it.
Ended(q, p, j, s) ==
  /\ LifeIn(q)[j].end = "open"
  /\ LifeIn(p) = [LifeIn(q) EXCEPT ![j].end = s]
  /\ LettersIn(p) = LettersIn(q)

\* Completing and canceling end an open job.
LEMMA EndShows ==
  ASSUME NEW q, QueueInv(q), NEW j \in DOMAIN q.jobs, ~Terminal(q, j),
         NEW s \in {"succeeded", "canceled"}
  PROVE  Ended(q, SetJob(q, j, Settled(q.jobs[j], s)), j, s)
<1> DEFINE job == Settled(q.jobs[j], s)
<1>1. q.jobs[j] \in QueueJob /\ q.jobs[j].status \notin Finished
  BY JobAt, TerminalStatus DEF QueueInv
<1>2. s \in SyncJobStatus /\ s \in Finished
  BY StatusNames DEF Finished
<1>3. /\ job \in QueueJob /\ job.status = s
      /\ job.key = q.jobs[j].key /\ job.attempts = q.jobs[j].attempts
  BY <1>1, <1>2, SettledJob
<1>4. JobStep(q.jobs[j], job)
  BY <1>1, SettledStep
<1> HIDE DEF job
<1>5. /\ SetJob(q, j, job).jobs = [q.jobs EXCEPT ![j] = job]
      /\ SetJob(q, j, job).deadLetters = q.deadLetters
  BY <1>4, SetJobRewrites DEF Rewrites
<1>6. /\ LifeIn(SetJob(q, j, job)) = [LifeIn(q) EXCEPT ![j] = LifeOf(job)]
      /\ LettersIn(SetJob(q, j, job)) = LettersIn(q)
  BY <1>3, <1>5, OneJobLife
<1>7. LifeIn(q)[j] = [key |-> q.jobs[j].key, end |-> "open", tries |-> q.jobs[j].attempts]
  <2>1. LifeIn(q)[j] = LifeOf(q.jobs[j])
    BY DEF LifeIn
  <2> QED
    BY <1>1, <2>1, OpenLife
<1>8. LifeOf(job) = [key |-> q.jobs[j].key, end |-> s, tries |-> q.jobs[j].attempts]
  BY <1>2, <1>3, FinishedLife
<1>9. LifeOf(job) = [LifeIn(q)[j] EXCEPT !.end = s]
  BY <1>7, <1>8
<1>10. [LifeIn(q) EXCEPT ![j].end = s] = [LifeIn(q) EXCEPT ![j] = LifeOf(job)]
  BY <1>9
<1> QED
  BY <1>6, <1>7, <1>10 DEF job, Ended

\* Dead-lettering an open job gives it up, once.
LEMMA GiveUpShows ==
  ASSUME NEW q, QueueInv(q), NEW j \in DOMAIN q.jobs, ~Terminal(q, j),
         NEW job \in QueueJob, job.key = q.jobs[j].key,
         job.status = "dead_letter", job.attempts = MaxAttempts
  PROVE  LET p == AddDeadLetter(q, j, job)
         IN  /\ LifeIn(q)[j].end = "open"
             /\ LifeIn(p) = [LifeIn(q) EXCEPT ![j] = [key |-> @.key, end |-> "dead_letter", tries |-> MaxAttempts]]
             /\ LettersIn(p) = Append(LettersIn(q), j)
<1> DEFINE p   == AddDeadLetter(q, j, job)
           rec == deadLetterRecordForJob(j, job)
<1>1. q.jobs[j] \in QueueJob /\ q.jobs[j].status \notin Finished
  BY JobAt, TerminalStatus DEF QueueInv
<1>2. LifeIn(q)[j] = [key |-> q.jobs[j].key, end |-> "open", tries |-> q.jobs[j].attempts]
  <2>1. LifeIn(q)[j] = LifeOf(q.jobs[j])
    BY DEF LifeIn
  <2> QED
    BY <1>1, <2>1, OpenLife
<1>3. LifeOf(job) = [key |-> q.jobs[j].key, end |-> "dead_letter", tries |-> MaxAttempts]
  BY FinishedLife DEF Finished
<1>4. /\ p.jobs = [q.jobs EXCEPT ![j] = job]
      /\ p.deadLetters = Append(q.deadLetters, rec)
  BY DEF AddDeadLetter
<1>5. LifeIn(p) = [LifeIn(q) EXCEPT ![j] = LifeOf(job)]
  <2>1. DOMAIN p.jobs = DOMAIN q.jobs
    BY <1>4
  <2>2. \A i \in DOMAIN q.jobs : p.jobs[i] = IF i = j THEN job ELSE q.jobs[i]
    BY <1>4
  <2> HIDE DEF p
  <2> QED
    BY <2>1, <2>2 DEF LifeIn
<1>6. LettersIn(p) = Append(LettersIn(q), j)
  <2>1. q.deadLetters \in Seq(DeadLetterRecord)
    BY DEF QueueInv, JobQueueState
  <2>2. rec.job = j
    BY DEF deadLetterRecordForJob
  <2> HIDE DEF p, rec
  <2>3. /\ DOMAIN p.deadLetters = 1 .. (Len(q.deadLetters) + 1)
        /\ \A r \in 1 .. Len(q.deadLetters) : p.deadLetters[r] = q.deadLetters[r]
        /\ p.deadLetters[Len(q.deadLetters) + 1] = rec
    BY <1>4, <2>1
  <2>4. DOMAIN q.deadLetters = 1 .. Len(q.deadLetters) /\ Len(q.deadLetters) \in Nat
    BY <2>1
  <2> DEFINE old == LettersIn(q)
  <2>5. old = [r \in 1 .. Len(q.deadLetters) |-> q.deadLetters[r].job]
    BY <2>4 DEF LettersIn
  <2>6. old \in Seq(Nat) /\ Len(old) = Len(q.deadLetters)
    <3>1. \A r \in 1 .. Len(q.deadLetters) : q.deadLetters[r].job \in Nat
      <4> SUFFICES ASSUME NEW r \in 1 .. Len(q.deadLetters)
                   PROVE  q.deadLetters[r].job \in Nat
        OBVIOUS
      <4>1. q.deadLetters[r] \in DeadLetterRecord
        BY <2>1
      <4> QED
        BY <4>1 DEF DeadLetterRecord
    <3> QED
      BY <2>4, <2>5, <3>1
  <2>7. j \in Nat
    BY JobAt DEF QueueInv
  <2>8. LettersIn(p) = [r \in 1 .. (Len(q.deadLetters) + 1) |-> p.deadLetters[r].job]
    BY <2>3 DEF LettersIn
  <2>9. Append(old, j) = [r \in 1 .. (Len(old) + 1) |-> IF r <= Len(old) THEN old[r] ELSE j]
    <3> DEFINE new == [r \in 1 .. (Len(old) + 1) |-> IF r <= Len(old) THEN old[r] ELSE j]
    <3> HIDE DEF old
    <3>1. Append(old, j) \in Seq(Nat) /\ Len(Append(old, j)) = Len(old) + 1
      BY <2>6, <2>7
    <3>2. Len(old) \in Nat
      BY <2>6
    <3>3. \A r \in 1 .. Len(old) : old[r] \in Nat
      BY <2>6
    <3>4. new \in Seq(Nat) /\ Len(new) = Len(old) + 1
      BY <2>7, <3>2, <3>3
    <3>5. \A r \in 1 .. Len(old) + 1 : Append(old, j)[r] = new[r]
      BY <2>6, <2>7, <3>2
    <3> QED
      BY <3>1, <3>4, <3>5, SeqEqual
  <2> HIDE DEF old
  <2>10. \A r \in 1 .. (Len(q.deadLetters) + 1) :
           p.deadLetters[r].job = IF r <= Len(old) THEN old[r] ELSE j
    BY <2>2, <2>3, <2>4, <2>5, <2>6
  <2> QED
    BY <2>6, <2>8, <2>9, <2>10 DEF old
<1>7. LifeOf(job) = [key |-> LifeIn(q)[j].key, end |-> "dead_letter", tries |-> MaxAttempts]
  BY <1>2, <1>3
<1> HIDE DEF p
<1>8. [LifeIn(q) EXCEPT ![j] = LifeOf(job)]
        = [LifeIn(q) EXCEPT ![j] = [key |-> @.key, end |-> "dead_letter", tries |-> MaxAttempts]]
  BY <1>7, Zenon
<1> QED
  BY <1>2, <1>5, <1>6, <1>8 DEF p

\* A job appended under a free key is accepted.
LEMMA AppendShows ==
  ASSUME NEW q, QueueInv(q), NEW p, NEW job \in QueueJob,
         p.jobs = Append(q.jobs, job), p.deadLetters = q.deadLetters,
         job.status = "pending", job.attempts = 0, ~Duplicate(q, job.key)
  PROVE  /\ \A j \in DOMAIN LifeIn(q) :
              LifeIn(q)[j].end = "open" /\ LifeIn(q)[j].key = job.key => job.key = NoKey
         /\ LifeIn(p) = Append(LifeIn(q), [key |-> job.key, end |-> "open", tries |-> 0])
         /\ LettersIn(p) = LettersIn(q)
<1> DEFINE n    == Len(q.jobs)
           L    == LifeIn(q)
           life == [key |-> job.key, end |-> "open", tries |-> 0]
<1>1. q.jobs \in Seq(QueueJob) /\ n \in Nat /\ DOMAIN q.jobs = 1 .. n
  BY DEF QueueInv, JobQueueState
<1>2. LifeOf(job) = life
  <2>1. job.status \notin Finished
    BY DEF Finished
  <2> HIDE DEF Finished
  <2> QED
    BY <2>1, OpenLife
<1>3. L = [j \in 1 .. n |-> LifeOf(q.jobs[j])]
  BY <1>1 DEF LifeIn
<1>4. /\ DOMAIN p.jobs = 1 .. (n + 1)
      /\ \A j \in 1 .. n : p.jobs[j] = q.jobs[j]
      /\ p.jobs[n + 1] = job
  BY <1>1
<1>5. LifeIn(p) = [j \in 1 .. (n + 1) |-> LifeOf(p.jobs[j])]
  BY <1>4 DEF LifeIn
<1>6. LifeIn(p) = Append(L, life)
  <2> DEFINE S == {LifeOf(q.jobs[j]) : j \in 1 .. n} \cup {life}
  <2>1. L \in Seq(S) /\ Len(L) = n /\ life \in S
    <3> HIDE DEF life
    <3>1. \A j \in 1 .. n : LifeOf(q.jobs[j]) \in S
      OBVIOUS
    <3>2. life \in S
      OBVIOUS
    <3> HIDE DEF S, n, L
    <3>3. n \in Nat /\ \A j \in 1 .. n : L[j] \in S
      BY <1>1, <1>3, <3>1
    <3>4. L = [j \in 1 .. n |-> L[j]]
      BY <1>3
    <3> QED
      BY <3>2, <3>3, <3>4
  <2>2. LifeIn(p) \in Seq(S) /\ Len(LifeIn(p)) = n + 1
    <3>1. \A j \in 1 .. (n + 1) : LifeOf(p.jobs[j]) \in S
      <4> SUFFICES ASSUME NEW j \in 1 .. (n + 1) PROVE LifeOf(p.jobs[j]) \in S
        OBVIOUS
      <4>1. CASE j = n + 1
        BY <1>2, <1>4, <4>1
      <4>2. CASE j \in 1 .. n
        BY <1>4, <4>2
      <4> QED
        BY <1>1, <4>1, <4>2
    <3> HIDE DEF S, n, L, life
    <3> QED
      BY <1>1, <1>5, <3>1
  <2> HIDE DEF S, L, life
  <2>3. /\ Append(L, life) \in Seq(S) /\ Len(Append(L, life)) = n + 1
        /\ \A j \in 1 .. n : Append(L, life)[j] = L[j]
        /\ Append(L, life)[n + 1] = life
    BY <1>1, <2>1, AppendProperties
  <2>4. \A j \in 1 .. (n + 1) : LifeIn(p)[j] = Append(L, life)[j]
    <3> SUFFICES ASSUME NEW j \in 1 .. (n + 1) PROVE LifeIn(p)[j] = Append(L, life)[j]
      OBVIOUS
    <3>0. LifeIn(p)[j] = LifeOf(p.jobs[j])
      BY <1>5
    <3>1. CASE j = n + 1
      BY <1>2, <1>4, <2>3, <3>0, <3>1
    <3>2. CASE j \in 1 .. n
      <4>1. p.jobs[j] = q.jobs[j] /\ Append(L, life)[j] = L[j]
        BY <1>4, <2>3, <3>2
      <4>2. L[j] = LifeOf(q.jobs[j])
        BY <1>3, <3>2
      <4> QED
        BY <3>0, <4>1, <4>2
    <3>3. j = n + 1 \/ j \in 1 .. n
      BY <1>1
    <3> QED
      BY <3>1, <3>2, <3>3
  <2> QED
    BY <2>2, <2>3, <2>4, SeqEqual
<1>7. ASSUME NEW j \in DOMAIN L, L[j].end = "open", L[j].key = job.key
      PROVE  job.key = NoKey
  <2>1. j \in DOMAIN q.jobs /\ L[j] = LifeOf(q.jobs[j])
    BY <1>1, <1>3
  <2>2. q.jobs[j] \in QueueJob /\ q.jobs[j].status \notin {"running", "failed"}
    BY <2>1, JobAt DEF QueueInv
  <2>3. q.jobs[j].key = job.key /\ EndOf(q.jobs[j]) = "open"
    BY <1>7, <2>1 DEF LifeOf
  <2>4. q.jobs[j].status \notin Finished
    BY <2>3 DEF EndOf, isTerminalJobStatus, Finished
  <2>5. isActiveJobStatus(q.jobs[j].status)
    BY <2>2, <2>4 DEF QueueJob, SyncJobStatus, Finished, isActiveJobStatus
  <2> QED
    BY <2>1, <2>3, <2>5 DEF Duplicate
<1>8. LettersIn(p) = LettersIn(q)
  BY DEF LettersIn
<1> QED
  BY <1>6, <1>7, <1>8

\* A job is tried again, or given up, as the contract has it.
TriedAgain(q, p, j) ==
  /\ LifeIn(q)[j].end = "open" /\ LifeIn(q)[j].tries + 1 < MaxAttempts
  /\ LifeIn(p) = [LifeIn(q) EXCEPT ![j].tries = @ + 1]
  /\ LettersIn(p) = LettersIn(q)

GivenUp(q, p, j) ==
  /\ LifeIn(q)[j].end = "open"
  /\ LifeIn(p) = [LifeIn(q) EXCEPT ![j] = [key |-> @.key, end |-> "dead_letter", tries |-> MaxAttempts]]
  /\ LettersIn(p) = Append(LettersIn(q), j)

\* A retry rewrites one job, and nothing else that a client sees.
LEMMA RetryShows ==
  ASSUME NEW q, QueueInv(q), NEW j \in DOMAIN q.jobs, ~Terminal(q, j),
         NEW job \in QueueJob, job.key = q.jobs[j].key, job.status = "pending",
         job.attempts = q.jobs[j].attempts + 1, job.attempts < MaxAttempts
  PROVE  TriedAgain(q, Retry(q, j, job), j)
<1> DEFINE s == SetJob(q, j, job)
           p == Retry(q, j, job)
<1>1. /\ q.jobs[j] \in QueueJob /\ q.jobs[j].status \notin Finished
      /\ q.jobs[j].attempts \in Nat
  BY AttemptsLeft, TerminalStatus
<1>2. q.jobs \in Seq(QueueJob) /\ q.retryCount + 1 \in Nat
  BY DEF QueueInv, JobQueueState
<1>3. [q.jobs EXCEPT ![j] = job] \in Seq(QueueJob)
  BY <1>2
<1>4. /\ s \in JobQueueState
      /\ s.jobs = [q.jobs EXCEPT ![j] = job]
      /\ s.deadLetters = q.deadLetters
  BY <1>3, SetJobsQueue DEF SetJob, QueueInv
<1>5. p = [s EXCEPT !.retryCount = q.retryCount + 1]
  BY DEF Retry
<1> HIDE DEF s, p
<1>6. p.jobs = s.jobs /\ p.deadLetters = s.deadLetters
  BY <1>2, <1>4, <1>5 DEF JobQueueState
<1>7. /\ LifeIn(p) = [LifeIn(q) EXCEPT ![j] = LifeOf(job)]
      /\ LettersIn(p) = LettersIn(q)
  BY <1>4, <1>6, OneJobLife
<1>8. LifeIn(q)[j] = [key |-> q.jobs[j].key, end |-> "open", tries |-> q.jobs[j].attempts]
  <2>1. LifeIn(q)[j] = LifeOf(q.jobs[j])
    BY DEF LifeIn
  <2> QED
    BY <1>1, <2>1, OpenLife
<1>9. LifeOf(job) = [key |-> q.jobs[j].key, end |-> "open", tries |-> q.jobs[j].attempts + 1]
  BY OpenLife DEF Finished
<1>10. LifeOf(job) = [LifeIn(q)[j] EXCEPT !.tries = @ + 1]
  BY <1>8, <1>9
<1>11. [LifeIn(q) EXCEPT ![j].tries = @ + 1] = [LifeIn(q) EXCEPT ![j] = LifeOf(job)]
  BY <1>10
<1> QED
  BY <1>7, <1>8, <1>11 DEF TriedAgain, p

\* A failure is a retry while attempts are left, and the end afterwards.
LEMMA FailShows ==
  ASSUME NEW q, QueueInv(q), NEW j \in DOMAIN q.jobs, ~Terminal(q, j)
  PROVE  TriedAgain(q, Fail(q, j, 0), j) \/ GivenUp(q, Fail(q, j, 0), j)
<1> DEFINE n == q.jobs[j].attempts + 1
<1>1. /\ q.jobs[j] \in QueueJob /\ q.jobs[j].attempts \in Nat
      /\ n \in 1 .. MaxAttempts /\ n \in 0 .. MaxAttempts
  BY AttemptsLeft, SettingsAssumption
<1>2. CASE n >= MaxAttempts
  <2> DEFINE job == Failed(q.jobs[j], "dead_letter", n)
  <2>1. n = MaxAttempts
    BY <1>1, <1>2, SettingsAssumption
  <2>2. Fail(q, j, 0) = AddDeadLetter(q, j, job)
    BY <1>2 DEF Fail
  <2> HIDE DEF n
  <2>3. /\ job \in QueueJob /\ job.status = "dead_letter"
        /\ job.key = q.jobs[j].key /\ job.attempts = n
    <3>1. "dead_letter" \in SyncJobStatus
      BY StatusNames
    <3> QED
      BY <1>1, <3>1, FailedJob
  <2> HIDE DEF job
  <2> QED
    BY <2>1, <2>2, <2>3, GiveUpShows DEF GivenUp
<1>3. CASE ~(n >= MaxAttempts)
  <2> DEFINE bad == Failed(q.jobs[j], "pending", n)
             t   == Clip(Backoff(n) - 0)
             job == WithDelay(bad, t)
  <2>1. Fail(q, j, 0) = Retry(q, j, job)
    BY <1>3 DEF Fail
  <2>2. n < MaxAttempts
    BY <1>1, <1>3, SettingsAssumption
  <2>3. n = q.jobs[j].attempts + 1
    OBVIOUS
  <2> HIDE DEF n
  <2>4. t \in Int
    <3>1. n - 1 \in 0 .. MaxAttempts
      BY <1>1, SettingsAssumption
    <3>2. 2^(n - 1) \in Nat
      BY <3>1, PowersAssumption
    <3>3. Backoff(n) \in Int
      BY <3>2, SettingsAssumption DEF Backoff
    <3>4. Backoff(n) - 0 \in Int
      BY <3>3
    <3> QED
      BY <3>4, ClipInt
  <2>5. /\ bad \in QueueJob /\ bad.status = "pending"
        /\ bad.key = q.jobs[j].key /\ bad.attempts = n
    <3>1. "pending" \in SyncJobStatus
      BY StatusNames
    <3> QED
      BY <1>1, <3>1, FailedJob
  <2> HIDE DEF bad, t
  <2>6. /\ job \in QueueJob /\ job.status = "pending"
        /\ job.key = q.jobs[j].key /\ job.attempts = n
    BY <2>4, <2>5, WithDelayJob
  <2> HIDE DEF job
  <2> QED
    BY <2>1, <2>2, <2>3, <2>6, RetryShows
<1> QED
  BY <1>2, <1>3

\* A failure that is not retried gives the job up at once.
LEMMA FailNonRetryableShows ==
  ASSUME NEW q, QueueInv(q), NEW j \in DOMAIN q.jobs, ~Terminal(q, j)
  PROVE  GivenUp(q, FailNonRetryable(q, j, 0), j)
<1> DEFINE n   == q.jobs[j].attempts + 1
           m   == IF n < MaxAttempts THEN MaxAttempts ELSE n
           bad == Failed(q.jobs[j], "dead_letter", m)
           job == WithDelay(bad, -0)
<1>1. q.jobs[j] \in QueueJob /\ m = MaxAttempts /\ m \in 0 .. MaxAttempts
  BY AttemptsLeft, SettingsAssumption
<1>2. FailNonRetryable(q, j, 0) = AddDeadLetter(q, j, job)
  BY DEF FailNonRetryable
<1> HIDE DEF m
<1>3. /\ bad \in QueueJob /\ bad.status = "dead_letter"
      /\ bad.key = q.jobs[j].key /\ bad.attempts = m
  <2>1. "dead_letter" \in SyncJobStatus
    BY StatusNames
  <2> QED
    BY <1>1, <2>1, FailedJob
<1> HIDE DEF bad
<1>4. /\ job \in QueueJob /\ job.status = "dead_letter"
      /\ job.key = q.jobs[j].key /\ job.attempts = m
  BY <1>3, WithDelayJob
<1> HIDE DEF job
<1> QED
  BY <1>1, <1>2, <1>4, GiveUpShows DEF GivenUp

\* A job is accepted, as the contract has it.
Accepted(q, p) ==
  \E key \in Keys \cup {NoKey} :
    /\ \A j \in DOMAIN LifeIn(q) :
         LifeIn(q)[j].end = "open" /\ LifeIn(q)[j].key = key => key = NoKey
    /\ LifeIn(p) = Append(LifeIn(q), [key |-> key, end |-> "open", tries |-> 0])
    /\ LettersIn(p) = LettersIn(q)

\* A request is a duplicate or a new job.
LEMMA EnqueueUniqueShows ==
  ASSUME NEW q, QueueInv(q), NEW key \in Keys, NEW corr \in Correlations
  PROVE  Alike(q, EnqueueUnique(q, key, corr)) \/ Accepted(q, EnqueueUnique(q, key, corr))
<1>1. CASE Duplicate(q, key)
  BY <1>1 DEF EnqueueUnique, Alike
<1>2. CASE ~Duplicate(q, key)
  <2> DEFINE job  == NewQueueJob(key, corr)
             jobs == Append(q.jobs, job)
  <2>1. /\ job \in QueueJob /\ job.key = key
        /\ job.status = "pending" /\ job.attempts = 0
    BY NewJob
  <2>2. q \in JobQueueState /\ q.jobs \in Seq(QueueJob)
    BY DEF QueueInv, JobQueueState
  <2>3. EnqueueUnique(q, key, corr) = SetJobs(q, jobs)
    BY <1>2 DEF EnqueueUnique
  <2> HIDE DEF job
  <2>4. jobs \in Seq(QueueJob)
    BY <2>1, <2>2
  <2>5. SetJobs(q, jobs).jobs = jobs /\ SetJobs(q, jobs).deadLetters = q.deadLetters
    BY <2>2, <2>4, SetJobsQueue
  <2>6. Accepted(q, SetJobs(q, jobs))
    BY <1>2, <2>1, <2>5, AppendShows DEF Accepted
  <2> QED
    BY <2>3, <2>6
<1> QED
  BY <1>1, <1>2

\* A replayed dead letter is a duplicate or a new job; its stamp is not seen.
LEMMA ReplayShows ==
  ASSUME NEW q, QueueInv(q), NEW r \in DOMAIN q.deadLetters, NEW corr \in Correlations
  PROVE  Alike(q, ReplayDeadLetter(q, r, corr)) \/ Accepted(q, ReplayDeadLetter(q, r, corr))
<1> DEFINE rec  == q.deadLetters[r]
           c    == IF corr = NoCorrelation THEN rec.corr ELSE corr
           job  == NewQueueJob(rec.key, c)
           s    == Stamp(q, r)
           jobs == Append(q.jobs, job)
           t    == SetJobs(s, jobs)
           p    == [t EXCEPT !.replayCount = q.replayCount + 1]
<1>1. /\ s \in JobQueueState /\ s.jobs = q.jobs /\ QueueInv(s)
  BY StampQueue DEF Keeps
<1>2. LettersIn(s) = LettersIn(q) /\ LifeIn(s) = LifeIn(q)
  <2>1. LifeIn(s) = LifeIn(q)
    BY <1>1 DEF LifeIn
  <2>2. q \in JobQueueState /\ q.deadLetters \in Seq(DeadLetterRecord)
    BY DEF QueueInv, JobQueueState
  <2>3. rec \in DeadLetterRecord
    BY <2>2
  <2>4. Stamped(rec).job = rec.job
    BY <2>3 DEF Stamped, DeadLetterRecord
  <2>5. s.deadLetters = [q.deadLetters EXCEPT ![r] = Stamped(rec)]
    BY <2>2 DEF Stamp, JobQueueState
  <2> HIDE DEF s
  <2> QED
    BY <2>1, <2>4, <2>5 DEF LettersIn
<1>3. CASE Duplicate(q, rec.key)
  BY <1>2, <1>3 DEF ReplayDeadLetter, Alike
<1>4. CASE ~Duplicate(q, rec.key)
  <2>0. ReplayDeadLetter(q, r, corr) = p
    BY <1>4 DEF ReplayDeadLetter
  <2>1. rec \in DeadLetterRecord /\ q.replayCount + 1 \in Nat /\ q.jobs \in Seq(QueueJob)
    BY DEF QueueInv, JobQueueState
  <2>2. rec.key \in Keys \cup {NoKey} /\ c \in Correlations \cup {NoCorrelation}
    BY <2>1 DEF DeadLetterRecord
  <2> HIDE DEF rec, c, s
  <2>3. /\ job \in QueueJob /\ job.key = rec.key
        /\ job.status = "pending" /\ job.attempts = 0
    BY <2>2, NewJob
  <2> HIDE DEF job
  <2>4. jobs \in Seq(QueueJob)
    BY <2>1, <2>3
  <2> HIDE DEF jobs
  <2>5. t \in JobQueueState /\ t.jobs = jobs /\ t.deadLetters = s.deadLetters
    BY <1>1, <2>4, SetJobsQueue
  <2> HIDE DEF t
  <2>6. p.jobs = jobs /\ p.deadLetters = s.deadLetters
    BY <2>1, <2>5 DEF JobQueueState
  <2> HIDE DEF p
  <2>7. p.jobs = Append(s.jobs, job)
    BY <1>1, <2>6 DEF jobs
  <2>8. ~Duplicate(s, job.key)
    BY <1>1, <1>4, <2>3 DEF Duplicate
  <2>9. Accepted(s, p)
    BY ZenonT(60), <1>1, <2>2, <2>3, <2>6, <2>7, <2>8, AppendShows DEF Accepted
  <2>10. Accepted(q, p)
    BY <1>2, <2>9 DEF Accepted
  <2> QED
    BY <2>0, <2>10
<1> QED
  BY <1>3, <1>4

----------------------------------------------------------------------------
(* The steps.                                                              *)

\* What a step of the service does to the state of the contract.
Shows(q, p, d, e) ==
  \/ Alike(q, p) /\ e = d
  \/ Accepted(q, p) /\ e = d
  \/ \E j \in DOMAIN LifeIn(q) :
       \/ Alike(q, p) /\ e = d \cup {j}
       \/ Ended(q, p, j, "succeeded") /\ e = d \cup {j}
       \/ Ended(q, p, j, "canceled") /\ e = d
       \/ TriedAgain(q, p, j) /\ e = d
       \/ GivenUp(q, p, j) /\ e = d

\* It is a step of the contract or none.
LEMMA ShowsContract ==
  Shows(queue, queue', done, done') => [Contract!Next]_(Contract!contract)
<1> SUFFICES ASSUME Shows(queue, queue', done, done')
             PROVE  [Contract!Next]_(Contract!contract)
  OBVIOUS
<1>1. CASE Alike(queue, queue') /\ done' = done
  BY <1>1 DEF Alike, Contract!contract
<1>2. CASE Accepted(queue, queue') /\ done' = done
  BY <1>2 DEF Accepted, Contract!Next, Contract!Accept, Contract!Open
<1>3. ASSUME NEW j \in DOMAIN LifeIn(queue),
             \/ Alike(queue, queue') /\ done' = done \cup {j}
             \/ Ended(queue, queue', j, "succeeded") /\ done' = done \cup {j}
      PROVE  Contract!Work(j)
  BY <1>3 DEF Alike, Ended, Contract!Work, Contract!Open
<1>4. ASSUME NEW j \in DOMAIN LifeIn(queue), done' = done,
             Ended(queue, queue', j, "canceled")
      PROVE  Contract!Cancel(j)
  BY <1>4 DEF Ended, Contract!Cancel, Contract!Open
<1>5. ASSUME NEW j \in DOMAIN LifeIn(queue), TriedAgain(queue, queue', j), done' = done
      PROVE  Contract!TryAgain(j)
  BY <1>5 DEF TriedAgain, Contract!TryAgain, Contract!Open
<1>6. ASSUME NEW j \in DOMAIN LifeIn(queue), GivenUp(queue, queue', j), done' = done
      PROVE  Contract!GiveUp(j)
  BY <1>6 DEF GivenUp, Contract!GiveUp, Contract!Open
<1> QED
  BY <1>1, <1>2, <1>3, <1>4, <1>5, <1>6 DEF Shows, Contract!Next

\* An effect is the same after the queue was exported.
LEMMA ExportedShows ==
  ASSUME NEW q, NEW p, QueueInv(p), NEW d, NEW e, Shows(q, p, d, e)
  PROVE  Shows(q, ExportState(p), d, e)
<1>1. LifeIn(ExportState(p)) = LifeIn(p) /\ LettersIn(ExportState(p)) = LettersIn(p)
  BY ExportShows
<1> QED
  BY <1>1 DEF Shows, Alike, Accepted, Ended, TriedAgain, GivenUp

\* Polling and leasing are not seen.
LEMMA RunNextShows ==
  ASSUME Inv, NEW w \in Workers, RunNext(w)
  PROVE  Alike(queue, queue') /\ done' = done
<1> DEFINE lag == clock[w] - PollInterval
           r   == ExportState(queue)
           j   == NextExecutable(r, lag)
<1>1. QueueInv(queue) /\ TypeOK
  BY DEF Inv
<1>2. lag \in 0 .. MaxLag
  BY <1>1, LagType DEF RunNext
<1>3. QueueInv(r) /\ Alike(queue, r) /\ DOMAIN r.jobs = DOMAIN queue.jobs
  BY <1>1, ExportKeeps, ExportAlike, ExportDomain DEF Keeps
<1>4. /\ queue' = IF j = Idle THEN r ELSE ExportState(LeaseJob(r, j, lag))
      /\ task' = [task EXCEPT ![w] = j] /\ done' = done
  BY DEF RunNext
<1>5. j # Idle => j \in DOMAIN queue.jobs
  <2>1. task'[w] = j
    <3> HIDE DEF j
    <3> QED
      BY <1>1, <1>4 DEF TypeOK
  <2> QED
    BY <2>1, RunNextKeeps
<1> HIDE DEF lag, r, j
<1>6. CASE j = Idle
  BY <1>3, <1>4, <1>6
<1>7. CASE j # Idle
  <2>1. j \in DOMAIN r.jobs
    BY <1>3, <1>5, <1>7
  <2>2. QueueInv(LeaseJob(r, j, lag)) /\ Alike(r, LeaseJob(r, j, lag))
    BY <1>2, <1>3, <2>1, LeaseJobKeeps, LeaseAlike DEF Keeps
  <2>3. Alike(LeaseJob(r, j, lag), ExportState(LeaseJob(r, j, lag)))
    BY <2>2, ExportAlike
  <2> QED
    BY <1>3, <1>4, <1>7, <2>2, <2>3 DEF Alike
<1> QED
  BY <1>6, <1>7

\* A report ends the job, tries it again, gives it up, or comes too late.
LEMMA FinishShows ==
  ASSUME Inv, NEW w \in Workers, Finish(w)
  PROVE  Shows(queue, queue', done, done')
<1> DEFINE j == task[w]
<1>1. QueueInv(queue) /\ j \in DOMAIN queue.jobs
  BY DEF Inv, TypeOK, Finish, ReportSuccess, ReportFailure
<1>2. DOMAIN LifeIn(queue) = DOMAIN queue.jobs
  BY DEF LifeIn
<1>3. CASE ReportSuccess(w)
  <2>1. queue' = ExportState(Complete(queue, j)) /\ done' = done \cup {j}
    BY <1>3 DEF ReportSuccess
  <2> HIDE DEF j
  <2>2. QueueInv(Complete(queue, j))
    BY <1>1, CompleteKeeps DEF Keeps
  <2>3. Shows(queue, Complete(queue, j), done, done')
    <3>1. CASE Terminal(queue, j)
      <4>1. Alike(queue, Complete(queue, j))
        BY <3>1 DEF Alike, Complete
      <4> QED
        BY <1>1, <1>2, <2>1, <4>1 DEF Shows
    <3>2. CASE ~Terminal(queue, j)
      <4>1. Complete(queue, j) = SetJob(queue, j, Settled(queue.jobs[j], "succeeded"))
        BY <3>2 DEF Complete
      <4>2. "succeeded" \in {"succeeded", "canceled"}
        OBVIOUS
      <4>3. Ended(queue, Complete(queue, j), j, "succeeded")
        BY <1>1, <3>2, <4>1, <4>2, EndShows
      <4> QED
        BY <1>1, <1>2, <2>1, <4>3 DEF Shows
    <3> QED
      BY <3>1, <3>2
  <2> QED
    BY <2>1, <2>2, <2>3, ExportedShows
<1>4. CASE ReportFailure(w)
  <2>1. done' = done
    BY <1>4 DEF ReportFailure
  <2>2. \/ queue' = queue
        \/ ~Terminal(queue, j) /\ queue' = ExportState(Fail(queue, j, 0))
        \/ ~Terminal(queue, j) /\ queue' = ExportState(FailNonRetryable(queue, j, 0))
    BY <1>4 DEF ReportFailure
  <2> HIDE DEF j
  <2>3. CASE queue' = queue
    BY <2>1, <2>3 DEF Shows, Alike
  <2>4. CASE ~Terminal(queue, j) /\ queue' = ExportState(Fail(queue, j, 0))
    <3>1. QueueInv(Fail(queue, j, 0))
      BY <1>1, NoLag, FailKeeps DEF Keeps
    <3>2. Shows(queue, Fail(queue, j, 0), done, done')
      BY <1>1, <1>2, <2>1, <2>4, FailShows DEF Shows
    <3> QED
      BY <2>4, <3>1, <3>2, ExportedShows
  <2>5. CASE ~Terminal(queue, j) /\ queue' = ExportState(FailNonRetryable(queue, j, 0))
    <3>1. QueueInv(FailNonRetryable(queue, j, 0))
      BY <1>1, NoLag, FailNonRetryableKeeps DEF Keeps
    <3>2. Shows(queue, FailNonRetryable(queue, j, 0), done, done')
      BY <1>1, <1>2, <2>1, <2>5, FailNonRetryableShows DEF Shows
    <3> QED
      BY <2>5, <3>1, <3>2, ExportedShows
  <2> QED
    BY <2>2, <2>3, <2>4, <2>5
<1> QED
  BY <1>3, <1>4 DEF Finish

\* A worker that vanishes may have done its work, which nobody is told.
LEMMA LoseShows ==
  ASSUME Inv, NEW w \in Workers, Lose(w)
  PROVE  Shows(queue, queue', done, done')
<1>1. task[w] \in DOMAIN LifeIn(queue)
  BY DEF Inv, TypeOK, Lose, LifeIn
<1>2. Alike(queue, queue') /\ (done' = done \/ done' = done \cup {task[w]})
  BY DEF Lose, Alike
<1> QED
  BY <1>1, <1>2 DEF Shows

\* Requests and operators: a job is accepted or canceled, or nothing is seen.
LEMMA ControlShows ==
  ASSUME Inv, Requests \/ Operators
  PROVE  Shows(queue, queue', done, done')
<1>1. QueueInv(queue)
  BY DEF Inv
<1>2. ASSUME NEW key \in Keys, NEW corr \in Correlations, EnqueueSync(key, corr)
      PROVE  Shows(queue, queue', done, done')
  <2> DEFINE p == EnqueueUnique(queue, key, corr)
  <2>1. queue' = ExportState(p) /\ done' = done
    BY <1>2 DEF EnqueueSync
  <2>2. QueueInv(p)
    BY <1>1, EnqueueUniqueKeeps DEF Keeps
  <2>3. Alike(queue, p) \/ Accepted(queue, p)
    BY <1>1, EnqueueUniqueShows
  <2> HIDE DEF p
  <2>4. Shows(queue, p, done, done')
    BY <2>1, <2>3 DEF Shows
  <2> QED
    BY <2>1, <2>2, <2>4, ExportedShows
<1>3. ASSUME NEW j \in DOMAIN queue.jobs, PauseJob(j)
      PROVE  Shows(queue, queue', done, done')
  <2> DEFINE p == Pause(queue, j)
  <2>1. queue' = ExportState(p) /\ done' = done
    BY <1>3 DEF PauseJob
  <2>2. QueueInv(p) /\ Alike(queue, p)
    BY <1>1, PauseKeeps, PauseAlike DEF Keeps
  <2> HIDE DEF p
  <2>3. Shows(queue, p, done, done')
    BY <2>1, <2>2 DEF Shows
  <2> QED
    BY <2>1, <2>2, <2>3, ExportedShows
<1>4. ASSUME NEW j \in DOMAIN queue.jobs, ResumeJob(j)
      PROVE  Shows(queue, queue', done, done')
  <2> DEFINE p == Resume(queue, j, 0)
  <2>1. queue' = ExportState(p) /\ done' = done
    BY <1>4 DEF ResumeJob
  <2>2. QueueInv(p) /\ Alike(queue, p)
    BY <1>1, NoLag, ResumeKeeps, ResumeAlike DEF Keeps
  <2> HIDE DEF p
  <2>3. Shows(queue, p, done, done')
    BY <2>1, <2>2 DEF Shows
  <2> QED
    BY <2>1, <2>2, <2>3, ExportedShows
<1>5. ASSUME NEW j \in DOMAIN queue.jobs, CancelJob(j)
      PROVE  Shows(queue, queue', done, done')
  <2> DEFINE p == Cancel(queue, j)
  <2>1. queue' = ExportState(p) /\ done' = done /\ ~Terminal(queue, j)
    BY <1>5 DEF CancelJob
  <2>2. QueueInv(p)
    BY <1>1, CancelKeeps DEF Keeps
  <2>3. p = SetJob(queue, j, Settled(queue.jobs[j], "canceled"))
    BY <2>1 DEF Cancel
  <2>4. "canceled" \in {"succeeded", "canceled"}
    OBVIOUS
  <2>5. j \in DOMAIN LifeIn(queue)
    BY DEF LifeIn
  <2> HIDE DEF p
  <2>6. Ended(queue, p, j, "canceled")
    BY <1>1, <2>1, <2>3, <2>4, EndShows
  <2>7. Shows(queue, p, done, done')
    BY <2>1, <2>5, <2>6 DEF Shows
  <2> QED
    BY <2>1, <2>2, <2>7, ExportedShows
<1>6. ASSUME NEW r \in DOMAIN queue.deadLetters, NEW corr \in Correlations,
             ReplayRecord(r, corr)
      PROVE  Shows(queue, queue', done, done')
  <2> DEFINE p == ReplayDeadLetter(queue, r, corr)
  <2>1. queue' = ExportState(p) /\ done' = done
    BY <1>6 DEF ReplayRecord
  <2>2. QueueInv(p)
    BY <1>1, ReplayDeadLetterKeeps DEF Keeps
  <2>3. Alike(queue, p) \/ Accepted(queue, p)
    BY <1>1, ReplayShows
  <2> HIDE DEF p
  <2>4. Shows(queue, p, done, done')
    BY <2>1, <2>3 DEF Shows
  <2> QED
    BY <2>1, <2>2, <2>4, ExportedShows
<1> QED
  BY <1>2, <1>3, <1>4, <1>5, <1>6 DEF Requests, Operators

\* Every step of the service is a step of the contract or invisible.
LEMMA StepShows ==
  ASSUME Inv, [Next]_vars
  PROVE  Shows(queue, queue', done, done')
<1>1. CASE UNCHANGED vars
  BY <1>1 DEF vars, Shows, Alike
<1>2. CASE Tick
  <2>1. Alike(queue, queue') /\ done' = done
    BY <1>2, PassTimeAlike DEF Tick, Inv
  <2> QED
    BY <2>1 DEF Shows
<1>3. ASSUME NEW w \in Workers, RunNext(w) \/ Finish(w) \/ Lose(w)
      PROVE  Shows(queue, queue', done, done')
  <2>1. CASE RunNext(w)
    BY <2>1, RunNextShows DEF Shows
  <2> QED
    BY <1>3, <2>1, FinishShows, LoseShows
<1> QED
  BY <1>1, <1>2, <1>3, ControlShows DEF Next, NextUnattended

----------------------------------------------------------------------------
\* The scheduler implements its contract: with workers that overrun, vanish
\* and report late, and operators in between, one open job per key, one end
\* per job, success only for work done, bounded failures, one dead letter.
THEOREM Implements == Spec => ImplementsContract
<1>1. Init => Contract!Init
  <2> SUFFICES ASSUME Init PROVE Contract!Init
    OBVIOUS
  <2>1. queue.jobs = << >> /\ queue.deadLetters = << >> /\ done = {}
    BY DEF Init, NewInMemoryJobQueue
  <2>2. LifeIn(queue) = << >> /\ LettersIn(queue) = << >>
    BY <2>1 DEF LifeIn, LettersIn
  <2> QED
    BY <2>1, <2>2 DEF Contract!Init
<1>2. Inv /\ [Next]_vars => [Contract!Next]_(Contract!contract)
  BY StepShows, ShowsContract
<1> QED
  BY <1>1, <1>2, Invariance, PTL DEF Spec, ImplementsContract, Contract!Spec

\* The contract's steps end a job as succeeded only when it has been worked on.
EarnedIn(q, d) ==
  \A j \in DOMAIN LifeIn(q) : LifeIn(q)[j].end = "succeeded" => j \in d

\* No effect marks a job succeeded that was not worked on.
LEMMA EarnedKept ==
  ASSUME NEW q, QueueInv(q), NEW p, NEW d, NEW e, EarnedIn(q, d), Shows(q, p, d, e)
  PROVE  EarnedIn(p, e)
<1>1. CASE Alike(q, p) /\ (e = d \/ \E j : e = d \cup {j})
  BY <1>1 DEF Alike, EarnedIn
<1>2. CASE Accepted(q, p) /\ e = d
  <2> DEFINE L == LifeIn(q)
             n == Len(q.jobs)
  <2>1. PICK key \in Keys \cup {NoKey} :
          LifeIn(p) = Append(L, [key |-> key, end |-> "open", tries |-> 0])
    BY <1>2 DEF Accepted
  <2> DEFINE new == [key |-> key, end |-> "open", tries |-> 0]
  <2>2. q.jobs \in Seq(QueueJob) /\ DOMAIN q.jobs = 1 .. n /\ n \in Nat
    BY DEF QueueInv, JobQueueState
  <2>3. L = [j \in 1 .. n |-> LifeOf(q.jobs[j])]
    BY <2>2 DEF LifeIn
  <2> DEFINE S == {LifeOf(q.jobs[j]) : j \in 1 .. n} \cup {new}
  <2>4. new \in S /\ \A j \in 1 .. n : L[j] \in S
    BY <2>3
  <2>5. new.end = "open"
    OBVIOUS
  <2> HIDE DEF S, new
  <2>6. L \in Seq(S) /\ Len(L) = n
    <3> HIDE DEF L, n
    <3>1. L = [j \in 1 .. n |-> L[j]]
      BY <2>3
    <3> QED
      BY <2>2, <2>4, <3>1
  <2> HIDE DEF L
  <2>7. /\ Append(L, new) \in Seq(S) /\ Len(Append(L, new)) = n + 1
        /\ \A j \in 1 .. n : Append(L, new)[j] = L[j]
        /\ Append(L, new)[n + 1] = new
    BY <2>2, <2>4, <2>6, AppendProperties
  <2>8. LifeIn(p) = Append(L, new)
    BY <2>1 DEF new
  <2>9. DOMAIN LifeIn(p) = 1 .. (n + 1) /\ DOMAIN L = 1 .. n
    BY <2>6, <2>7, <2>8
  <2> SUFFICES ASSUME NEW j \in DOMAIN LifeIn(p), LifeIn(p)[j].end = "succeeded"
               PROVE  j \in e
    BY DEF EarnedIn
  <2>10. j # n + 1
    BY <2>5, <2>7, <2>8
  <2>11. j \in 1 .. n
    BY <2>2, <2>9, <2>10
  <2>12. LifeIn(p)[j] = L[j] /\ j \in DOMAIN L
    BY <2>7, <2>8, <2>9, <2>11
  <2> QED
    BY <1>2, <2>12 DEF L, EarnedIn
<1>3. ASSUME NEW j \in DOMAIN LifeIn(q), Ended(q, p, j, "succeeded"), e = d \cup {j}
      PROVE  EarnedIn(p, e)
  BY <1>3 DEF EarnedIn, Ended
<1>4. ASSUME NEW j \in DOMAIN LifeIn(q), Ended(q, p, j, "canceled"), e = d
      PROVE  EarnedIn(p, e)
  <2>1. DOMAIN LifeIn(p) = DOMAIN LifeIn(q)
    BY <1>4 DEF Ended
  <2>2. LifeIn(p)[j].end = "canceled"
    BY <1>4 DEF Ended, LifeIn, LifeOf
  <2>3. \A i \in DOMAIN LifeIn(q) : i # j => LifeIn(p)[i] = LifeIn(q)[i]
    BY <1>4 DEF Ended
  <2> QED
    BY <1>4, <2>1, <2>2, <2>3 DEF EarnedIn
<1>5. ASSUME NEW j \in DOMAIN LifeIn(q), TriedAgain(q, p, j), e = d
      PROVE  EarnedIn(p, e)
  <2>1. DOMAIN LifeIn(p) = DOMAIN LifeIn(q)
    BY <1>5 DEF TriedAgain
  <2>2. LifeIn(p)[j].end = LifeIn(q)[j].end
    BY <1>5 DEF TriedAgain, LifeIn, LifeOf
  <2>3. \A i \in DOMAIN LifeIn(q) : i # j => LifeIn(p)[i] = LifeIn(q)[i]
    BY <1>5 DEF TriedAgain
  <2> QED
    BY <1>5, <2>1, <2>2, <2>3 DEF EarnedIn
<1>6. ASSUME NEW j \in DOMAIN LifeIn(q), GivenUp(q, p, j), e = d
      PROVE  EarnedIn(p, e)
  <2>1. DOMAIN LifeIn(p) = DOMAIN LifeIn(q)
    BY <1>6 DEF GivenUp
  <2>2. LifeIn(p)[j].end = "dead_letter"
    BY <1>6 DEF GivenUp
  <2>3. \A i \in DOMAIN LifeIn(q) : i # j => LifeIn(p)[i] = LifeIn(q)[i]
    BY <1>6 DEF GivenUp
  <2> QED
    BY <1>6, <2>1, <2>2, <2>3 DEF EarnedIn
<1> QED
  BY <1>1, <1>2, <1>3, <1>4, <1>5, <1>6 DEF Shows

\* A job is recorded as succeeded only if some execution of it succeeded, as
\* the contract says: whoever reports late, no other job is completed.
THEOREM SuccessIsEarned == Spec => []SucceededWasDone
<1> DEFINE Earned == EarnedIn(queue, done)
<1>1. Init => Earned
  BY DEF Init, NewInMemoryJobQueue, EarnedIn, LifeIn
<1>2. Inv /\ Earned /\ [Next]_vars => Earned'
  <2> SUFFICES ASSUME Inv, Earned, [Next]_vars PROVE Earned'
    OBVIOUS
  <2>1. QueueInv(queue) /\ Shows(queue, queue', done, done')
    BY StepShows DEF Inv
  <2>2. EarnedIn(queue', done')
    BY <2>1, EarnedKept
  <2> QED
    BY <2>2
<1>3. Earned => SucceededWasDone
  BY DEF SucceededWasDone, EarnedIn, LifeIn, LifeOf, EndOf, isTerminalJobStatus
<1> HIDE DEF Earned
<1> QED
  BY <1>1, <1>2, <1>3, Invariance, PTL DEF Spec

------------------------------------------------------------------------------
(* The durable state.                                                       *)

\* Whoever stores a state and so deletes the snapshot has read the snapshot.
\* While the snapshot is there, nothing has been stored; a transaction that
\* saw rows began after the snapshot was gone; and what the holder of the
\* lock loaded contains all that is stored.  A mutation is requested once.
StateInv ==
  /\ StateTypeOK
  /\ snapshot => stored = {} /\ ~rows
  /\ LegacyIsKept
  /\ \A p \in Pods :
       /\ pod[p].exists => rows
       /\ pod[p].m \cap wanted = {}
       /\ pod[p].pc = "locked" => Legacy \cup stored \subseteq pod[p].loaded
       /\ pod[p].pc = "migrate" => pod[p].loaded = Legacy

\* The invariant holds when the pods start on a legacy snapshot.
LEMMA StateInitInv == StateInit => StateInv
<1> SUFFICES ASSUME StateInit PROVE StateInv
  OBVIOUS
<1>1. \A p \in Pods : pod[p] = [pc |-> "idle", exists |-> FALSE, loaded |-> {}, m |-> {}]
  BY DEF StateInit, IdlePod
<1>2. pod \in [Pods -> [pc : {"idle", "mutate", "locked", "legacy", "migrate"},
                       exists : BOOLEAN,
                       loaded : SUBSET (Legacy \cup Mutations),
                       m : SUBSET Mutations]]
  BY DEF StateInit, IdlePod
<1>3. \A p \in Pods : pod[p].pc = "idle" /\ pod[p].exists = FALSE /\ pod[p].m = {}
  BY <1>1
<1>4. \A p \in Pods : ~(lock = p)
  BY StateAssumption DEF StateInit
<1>5. StateTypeOK
  BY <1>2, <1>3, <1>4 DEF StateInit, StateTypeOK
<1> QED
  BY <1>3, <1>5 DEF StateInit, StateInv, LegacyIsKept

\* The invariant and the serialisation of mutations, step by step.
Serialised ==
  \/ stored \subseteq stored' /\ acked' \ acked \subseteq stored'
  \/ \E p \in Pods : pod[p].pc = "migrate" /\ pod'[p].pc = "idle"

\* Beginning a mutation stores nothing.
LEMMA BeginMutateKeeps ==
  ASSUME StateInv, NEW p \in Pods, NEW m \in wanted, BeginMutate(p, m)
  PROVE  StateInv' /\ Serialised
  BY StateAssumption DEF StateInv, StateTypeOK, LegacyIsKept, Serialised, BeginMutate

\* A mutation starts from a state that contains the legacy and the stored one.
LEMMA LockAndLoadKeeps ==
  ASSUME StateInv, NEW p \in Pods, LockAndLoad(p)
  PROVE  StateInv' /\ Serialised
<1>1. Legacy \cup stored \subseteq Loaded(pod[p].exists)
  BY DEF StateInv, StateTypeOK, LegacyIsKept, Loaded
<1>2. Loaded(pod[p].exists) \subseteq Legacy \cup Mutations
  BY DEF StateInv, StateTypeOK, Loaded
<1> QED
  BY <1>1, <1>2, StateAssumption DEF StateInv, StateTypeOK, LegacyIsKept, Serialised, LockAndLoad, LockFree

\* A mutation stores what it loaded and itself.
LEMMA CommitMutateKeeps ==
  ASSUME StateInv, NEW p \in Pods, CommitMutate(p)
  PROVE  StateInv' /\ Serialised
<1> DEFINE next == pod[p].loaded \cup pod[p].m
<1>1. /\ next \subseteq Legacy \cup Mutations
      /\ Legacy \cup stored \subseteq next
      /\ lock = p
  BY DEF CommitMutate, StateInv, StateTypeOK
<1>2. /\ rows' = TRUE /\ stored' = next /\ snapshot' = FALSE /\ lock' = NoPod
      /\ pod' = [pod EXCEPT ![p] = IdlePod]
      /\ wanted' = wanted
  BY DEF CommitMutate, Save
<1>3. acked' \subseteq Mutations \ wanted'
  BY <1>2 DEF CommitMutate, StateInv, StateTypeOK
<1>4. cache' \in [Pods -> SUBSET (Legacy \cup Mutations)]
  <2>1. /\ cache \in [Pods -> SUBSET (Legacy \cup Mutations)]
        /\ pod[p].loaded \subseteq Legacy \cup Mutations
    BY DEF StateInv, StateTypeOK
  <2>2. \/ cache' = [cache EXCEPT ![p] = next]
        \/ cache' = [cache EXCEPT ![p] = pod[p].loaded]
    BY DEF CommitMutate
  <2> QED
    BY <1>1, <2>1, <2>2
<1>5. acked' \ acked \subseteq next
  BY DEF CommitMutate
<1> HIDE DEF next
<1>6. StateTypeOK'
  BY <1>1, <1>2, <1>3, <1>4, StateAssumption DEF StateInv, StateTypeOK, IdlePod
<1>7. Serialised
  BY <1>1, <1>2, <1>5 DEF Serialised
<1> QED
  BY <1>1, <1>2, <1>6, <1>7 DEF StateInv, StateTypeOK, LegacyIsKept, IdlePod

\* A rollback stores nothing and frees the row.
LEMMA RollBackKeeps ==
  ASSUME StateInv, NEW p \in Pods, RollBack(p)
  PROVE  StateInv' /\ Serialised
  BY StateAssumption DEF StateInv, StateTypeOK, LegacyIsKept, Serialised, RollBack, IdlePod

\* A mutation that fails before the lock stores nothing.
LEMMA FailEarlyKeeps ==
  ASSUME StateInv, NEW p \in Pods, FailEarly(p)
  PROVE  StateInv' /\ Serialised
  BY StateAssumption DEF StateInv, StateTypeOK, LegacyIsKept, Serialised, FailEarly, IdlePod

\* Reading rows stores nothing.
LEMMA LoadRowsKeeps ==
  ASSUME StateInv, NEW p \in Pods, LoadRows(p)
  PROVE  StateInv' /\ Serialised
  BY StateAssumption DEF StateInv, StateTypeOK, LegacyIsKept, Serialised, LoadRows

\* Finding no rows stores nothing.
LEMMA FindNoRowsKeeps ==
  ASSUME StateInv, NEW p \in Pods, FindNoRows(p)
  PROVE  StateInv' /\ Serialised
  BY StateAssumption DEF StateInv, StateTypeOK, LegacyIsKept, Serialised, FindNoRows

\* Reading the snapshot stores nothing.
LEMMA LoadLegacyKeeps ==
  ASSUME StateInv, NEW p \in Pods, LoadLegacy(p)
  PROVE  StateInv' /\ Serialised
<1>1. CASE snapshot
  <2>1. /\ pod' = [pod EXCEPT ![p] = [pc |-> "migrate", exists |-> FALSE,
                                     loaded |-> Legacy, m |-> {}]]
        /\ UNCHANGED <<rows, stored, snapshot, lock, cache, wanted, acked>>
        /\ pod[p].pc = "legacy"
    BY <1>1 DEF LoadLegacy
  <2> QED
    BY <1>1, <2>1, StateAssumption DEF StateInv, StateTypeOK, LegacyIsKept, Serialised
<1>2. CASE ~snapshot
  <2>1. /\ pod' = [pod EXCEPT ![p] = IdlePod]
        /\ cache' = [cache EXCEPT ![p] = {}]
        /\ UNCHANGED <<rows, stored, snapshot, lock, wanted, acked>>
        /\ pod[p].pc = "legacy"
    BY <1>2 DEF LoadLegacy
  <2> QED
    BY <1>2, <2>1, StateAssumption DEF StateInv, StateTypeOK, LegacyIsKept, Serialised, IdlePod
<1> QED
  BY <1>1, <1>2

\* A migration stores the legacy state while nobody holds the lock.
LEMMA MigrateKeeps ==
  ASSUME StateInv, NEW p \in Pods, Migrate(p)
  PROVE  StateInv' /\ Serialised
<1>1. pod[p].loaded = Legacy /\ lock = NoPod
  BY DEF Migrate, LockFree, StateInv
<1>2. /\ rows' = TRUE /\ stored' = Legacy /\ snapshot' = FALSE
      /\ cache' = [cache EXCEPT ![p] = Legacy]
      /\ pod' = [pod EXCEPT ![p] = IdlePod]
      /\ UNCHANGED <<lock, wanted, acked>>
      /\ pod[p].pc = "migrate"
  BY <1>1 DEF Migrate, Save
<1>3. Serialised
  BY <1>2 DEF Serialised, StateInv, StateTypeOK, IdlePod
<1>4. StateTypeOK'
  BY <1>1, <1>2, StateAssumption DEF StateInv, StateTypeOK, IdlePod
<1> QED
  BY <1>1, <1>2, <1>3, <1>4, StateAssumption DEF StateInv, StateTypeOK, LegacyIsKept, IdlePod

\* A load that fails stores nothing.
LEMMA FailLoadKeeps ==
  ASSUME StateInv, NEW p \in Pods, FailLoad(p)
  PROVE  StateInv' /\ Serialised
  BY StateAssumption DEF StateInv, StateTypeOK, LegacyIsKept, Serialised, FailLoad, IdlePod

\* A pod that dies loses its copy and its lock, and nothing that is stored.
LEMMA CrashKeeps ==
  ASSUME StateInv, NEW p \in Pods, Crash(p)
  PROVE  StateInv' /\ Serialised
  BY StateAssumption DEF StateInv, StateTypeOK, LegacyIsKept, Serialised, Crash, IdlePod

\* Every step keeps the invariant and only a migration forgets.
LEMMA StateNextKeeps ==
  StateInv /\ [StateNext]_stateVars => StateInv' /\ (stateVars' = stateVars \/ Serialised)
<1> SUFFICES ASSUME StateInv, [StateNext]_stateVars
             PROVE  StateInv' /\ (stateVars' = stateVars \/ Serialised)
  OBVIOUS
<1>1. CASE UNCHANGED stateVars
  BY <1>1 DEF StateInv, StateTypeOK, LegacyIsKept, stateVars
<1>2. CASE StateNext
  <2> PICK p \in Pods :
        \/ \E m \in wanted : BeginMutate(p, m)
        \/ LockAndLoad(p) \/ CommitMutate(p) \/ RollBack(p) \/ FailEarly(p)
        \/ LoadRows(p) \/ FindNoRows(p) \/ LoadLegacy(p) \/ Migrate(p) \/ FailLoad(p)
        \/ Crash(p)
    BY <1>2 DEF StateNext
  <2> QED
    BY BeginMutateKeeps, LockAndLoadKeeps, CommitMutateKeeps, RollBackKeeps, FailEarlyKeeps,
       LoadRowsKeeps, FindNoRowsKeeps, LoadLegacyKeeps, MigrateKeeps, FailLoadKeeps, CrashKeeps
<1> QED
  BY <1>1, <1>2

----------------------------------------------------------------------------
\* The invariant holds in every state of every run.
THEOREM StateInvariance == StateSpec => []StateInv
<1>1. StateInv /\ [StateNext]_stateVars => StateInv'
  BY StateNextKeeps
<1> QED
  BY StateInitInv, <1>1, PTL DEF StateSpec

\* The states are well-typed and the row is locked by the pod whose
\* transaction is open, and by no other.
THEOREM StateTypeCorrect == StateSpec => []StateTypeOK
<1>1. StateInv => StateTypeOK
  BY DEF StateInv
<1> QED
  BY StateInvariance, <1>1, PTL

\* No interleaving of mutations, loads, failures and crashes loses what the
\* legacy snapshot held.
THEOREM LegacySurvives == StateSpec => []LegacyIsKept
<1>1. StateInv => LegacyIsKept
  BY DEF StateInv
<1> QED
  BY StateInvariance, <1>1, PTL

\* Mutations are serialised: whatever the number of pods, a mutation reported as
\* done is stored, and only a migration can remove it again.
THEOREM MutationsSerialise == StateSpec => OnlyMigrationForgets
<1>1. StateInv /\ [StateNext]_stateVars =>
        [\/ stored \subseteq stored' /\ acked' \ acked \subseteq stored'
         \/ \E p \in Pods : pod[p].pc = "migrate" /\ pod'[p].pc = "idle"]_stateVars
  BY StateNextKeeps DEF Serialised
<1> QED
  BY StateInvariance, <1>1, PTL DEF StateSpec, OnlyMigrationForgets

----------------------------------------------------------------------------
(* Backfill plans: sums.                                                   *)

LEMMA UnitsAreFinite ==
  ASSUME NEW f, IsFiniteSet(DOMAIN f), \A i \in DOMAIN f : f[i] \in Nat
  PROVE  IsFiniteSet(Units(f)) /\ SumOf(f) \in Nat
<1> DEFINE D == DOMAIN f
<1> DEFINE unit == [i \in D |-> {i} \X (1 .. f[i])]
<1> DEFINE all == {unit[i] : i \in D}
<1>1. \A i \in D : IsFiniteSet(unit[i])
  <2> SUFFICES ASSUME NEW i \in D PROVE IsFiniteSet(unit[i])
    OBVIOUS
  <2>1. f[i] \in Int /\ 1 \in Int
    OBVIOUS
  <2>2. IsFiniteSet({i}) /\ IsFiniteSet(1 .. f[i])
    BY <2>1, FS_Singleton, FS_Interval
  <2>3. IsFiniteSet({i} \X (1 .. f[i]))
    BY <2>2, FS_Product
  <2> QED
    BY <2>3
<1>2. Units(f) = UNION all
  BY DEF Units
<1> HIDE DEF unit
<1>3. unit \in Surjection(D, all)
  <2>1. DOMAIN unit = D /\ unit = [i \in D |-> unit[i]]
    BY DEF unit
  <2> QED
    BY <2>1 DEF Surjection
<1> HIDE DEF all
<1>4. IsFiniteSet(all)
  BY <1>3, FS_Surjection
<1>5. \A T \in all : IsFiniteSet(T)
  BY <1>1 DEF all
<1>6. IsFiniteSet(UNION all)
  BY <1>4, <1>5, FS_UNION
<1> QED
  BY <1>2, <1>6, FS_CardinalityType DEF SumOf

LEMMA SumZero ==
  ASSUME NEW f, \A i \in DOMAIN f : f[i] = 0
  PROVE  SumOf(f) = 0
<1>1. Units(f) = {}
  BY DEF Units
<1> QED
  BY <1>1, FS_EmptySet DEF SumOf

LEMMA SumSame ==
  ASSUME NEW f, NEW g, DOMAIN g = DOMAIN f, \A i \in DOMAIN f : g[i] = f[i]
  PROVE  SumOf(g) = SumOf(f)
<1>1. Units(g) = Units(f)
  BY DEF Units
<1> QED
  BY <1>1 DEF SumOf

\* Without one of its arguments a sum is less by the value.
LEMMA SumWithout ==
  ASSUME NEW f, IsFiniteSet(DOMAIN f), \A k \in DOMAIN f : f[k] \in Nat,
         NEW i \in DOMAIN f, NEW g, DOMAIN g = DOMAIN f \ {i},
         \A k \in DOMAIN g : g[k] = f[k]
  PROVE  SumOf(f) = SumOf(g) + f[i]
<1> DEFINE own == {i} \X (1 .. f[i])
<1>1. Units(f) = Units(g) \cup own
  <2>1. \A u : u \in Units(f) <=> \E k \in DOMAIN f : u \in {k} \X (1 .. f[k])
    BY DEF Units
  <2>2. \A u : u \in Units(g) <=> \E k \in DOMAIN g : u \in {k} \X (1 .. f[k])
    BY DEF Units
  <2>3. \A u : u \in Units(f) <=> u \in Units(g) \/ u \in own
    BY <2>1, <2>2
  <2> HIDE DEF own
  <2> QED
    BY <2>3
<1>2. Units(g) \cap own = {}
  <2>1. \A u \in Units(g) : \E k \in DOMAIN f \ {i} : u[1] = k
    BY DEF Units
  <2>2. \A u \in own : u[1] = i
    OBVIOUS
  <2> HIDE DEF own
  <2> QED
    BY <2>1, <2>2
<1>3. IsFiniteSet(own) /\ Cardinality(own) = f[i]
  <2>1. IsFiniteSet({i}) /\ Cardinality({i}) = 1
    BY FS_Singleton
  <2>2. IsFiniteSet(1 .. f[i]) /\ Cardinality(1 .. f[i]) = f[i]
    BY FS_Interval
  <2>3. Cardinality(own) = 1 * f[i] /\ IsFiniteSet(own)
    BY <2>1, <2>2, FS_Product
  <2> HIDE DEF own
  <2> QED
    BY <2>3
<1>4. IsFiniteSet(DOMAIN g) /\ \A k \in DOMAIN g : g[k] \in Nat
  BY FS_Subset
<1>5. IsFiniteSet(Units(g)) /\ SumOf(g) \in Nat
  BY <1>4, UnitsAreFinite
<1> HIDE DEF own
<1>6. Cardinality(Units(g) \cup own) = Cardinality(Units(g)) + Cardinality(own) - Cardinality({})
  BY <1>2, <1>3, <1>5, FS_Union
<1>7. Cardinality({}) = 0
  BY FS_EmptySet
<1> QED
  BY <1>1, <1>3, <1>5, <1>6, <1>7 DEF SumOf

\* With one value changed a sum changes by as much.
LEMMA SumWith ==
  ASSUME NEW f, NEW g, IsFiniteSet(DOMAIN f), DOMAIN g = DOMAIN f, NEW i \in DOMAIN f,
         \A k \in DOMAIN f : f[k] \in Nat /\ g[k] \in Nat,
         \A k \in DOMAIN f \ {i} : g[k] = f[k]
  PROVE  SumOf(g) + f[i] = SumOf(f) + g[i]
<1> DEFINE h == [k \in DOMAIN f \ {i} |-> f[k]]
<1>1. DOMAIN h = DOMAIN f \ {i} /\ \A k \in DOMAIN h : h[k] = f[k] /\ h[k] = g[k]
  OBVIOUS
<1> HIDE DEF h
<1>2. SumOf(f) = SumOf(h) + f[i]
  BY <1>1, SumWithout
<1>3. SumOf(g) = SumOf(h) + g[i]
  BY <1>1, SumWithout
<1>4. IsFiniteSet(DOMAIN h) /\ \A k \in DOMAIN h : h[k] \in Nat
  BY <1>1, FS_Subset
<1>5. SumOf(h) \in Nat
  BY <1>4, UnitsAreFinite
<1> QED
  BY <1>2, <1>3, <1>5

----------------------------------------------------------------------------
(* Backfill plans: types and books.                                        *)

Counts == {"queued", "dedup", "limited"}

CountsFit(r) == DOMAIN r = Counts /\ \A x \in Counts : r[x] \in Nat

\* A plan that ran and was not resumed since waits for the slot after its run.
PlanFits(plan) ==
  /\ DOMAIN plan = {"enabled", "last", "next", "resumed", "run", "totals"}
  /\ plan.next \in Int /\ plan.run \in Nat
  /\ CountsFit(plan.totals)
  /\ plan.enabled /\ plan.last # 0 /\ ~plan.resumed => plan.next = NextSlot(plan.last)

PlansFit(pl, m) ==
  /\ m \in Nat
  /\ DOMAIN pl \subseteq PlanIds /\ DOMAIN pl \subseteq 1 .. m
  /\ \A q \in DOMAIN pl : PlanFits(pl[q])

TickFits(t) ==
  /\ DOMAIN t = {"at", "now", "due", "left", "run", "part", "total"}
  /\ t.at \in {"idle", "plan", "target", "commit"}
  /\ t.now \in Int /\ t.run \in Nat
  /\ t.due \in Seq(PlanIds) /\ t.left \in Seq(DOMAIN Jobs)
  /\ t.at = "target" => t.due # << >>
  /\ CountsFit(t.part) /\ CountsFit(t.total)
  /\ t.at \in {"idle", "commit"} => t.total = None

TicksFit(tk) == DOMAIN tk = Tickers /\ \A p \in Tickers : TickFits(tk[p])

\* What all plans report, and what ticks have yet to record.
Reported(pl, x) == SumOf([q \in DOMAIN pl |-> pl[q].totals[x]])

Unrecorded(tk, x) == SumOf([p \in Tickers |-> tk[p].total[x]])

BooksFit(c, g, pl, tk) ==
  /\ CountsFit(c) /\ CountsFit(g)
  /\ \A x \in Counts : c[x] + Unrecorded(tk, x) = g[x] + Reported(pl, x)

\* The state a tick found when it took the row lock.
FoundFits(found, m) ==
  /\ PlansFit(found[1], m)
  /\ CountsFit(found[4]) /\ CountsFit(found[5])
  /\ \A x \in Counts : found[4][x] = found[5][x] + Reported(found[1], x)

\* What is due exists, is enabled, has come and is due once.
DueFits(t, pl) ==
  /\ \A i \in 1 .. Len(t.due) :
        t.due[i] \in DOMAIN pl /\ pl[t.due[i]].enabled /\ pl[t.due[i]].next <= t.now
  /\ \A i, k \in 1 .. Len(t.due) : t.due[i] = t.due[k] => i = k

\* Only who holds the row lock ticks, and nobody else changes anything.
LockFits(md, lk, tk, pl, m) ==
  /\ md # "persistent" => lk = << >>
  /\ md = "persistent" /\ lk = << >> => \A p \in Tickers : tk[p].at = "idle"
  /\ lk # << >> => /\ \A p \in Tickers : p # lk[1] => tk[p].at = "idle"
                   /\ FoundFits(lk[2], m)
  /\ md = "persistent" =>
        \A p \in Tickers : tk[p].at \in {"plan", "target"} => DueFits(tk[p], pl)

\* Runs are numbered in their order: one under way, in persistent mode, is
\* later than every run a plan had, and a plan's run is no earlier than the one
\* that a rollback would restore.
RunsFit(md, pl, lk, tk, r) ==
  /\ r \in Nat
  /\ \A q \in DOMAIN pl : pl[q].run <= r
  /\ \A p \in Tickers : tk[p].run <= r
  /\ md = "persistent" =>
        \A p \in Tickers : tk[p].at = "target" => \A q \in DOMAIN pl : pl[q].run < tk[p].run
  /\ lk # << >> => /\ \A q \in DOMAIN lk[2][1] : lk[2][1][q].run <= r
                   /\ \A q \in DOMAIN lk[2][1] \cap DOMAIN pl : lk[2][1][q].run <= pl[q].run

BackfillFits(md, pl, c, g, lk, tk, m, r) ==
  /\ PlansFit(pl, m) /\ TicksFit(tk) /\ BooksFit(c, g, pl, tk)
  /\ LockFits(md, lk, tk, pl, m) /\ RunsFit(md, pl, lk, tk, r)

BackfillInv ==
  /\ time \in Int
  /\ \A md, pl, c, g, lk, tk, m, r :
        /\ md = mode /\ pl = plans /\ c = counters /\ g = gone /\ lk = rowLock
        /\ tk = tick /\ m = made /\ r = run
        => BackfillFits(md, pl, c, g, lk, tk, m, r)

LEMMA BackfillIs ==
  ASSUME BackfillInv
  PROVE  /\ PlansFit(plans, made) /\ TicksFit(tick) /\ BooksFit(counters, gone, plans, tick)
         /\ LockFits(mode, rowLock, tick, plans, made) /\ RunsFit(mode, plans, rowLock, tick, run)
         /\ time \in Int
BY DEF BackfillInv, BackfillFits

LEMMA BackfillNext ==
  ASSUME PlansFit(plans', made'), TicksFit(tick'), BooksFit(counters', gone', plans', tick'),
         LockFits(mode', rowLock', tick', plans', made'),
         RunsFit(mode', plans', rowLock', tick', run'), time' \in Int
  PROVE  BackfillInv'
BY DEF BackfillInv, BackfillFits

LEMMA NoneFits ==
  /\ CountsFit(None) /\ \A x \in Counts : None[x] = 0
BY DEF CountsFit, None, Counts

LEMMA SumFits ==
  ASSUME NEW a, NEW b, CountsFit(a), CountsFit(b)
  PROVE  CountsFit(Sum(a, b)) /\ \A x \in Counts : Sum(a, b)[x] = a[x] + b[x]
BY DEF CountsFit, Sum

LEMMA PlansAreFinite ==
  ASSUME NEW pl, NEW m, PlansFit(pl, m)
  PROVE  IsFiniteSet(DOMAIN pl)
<1>1. IsFiniteSet(1 .. m)
  BY FS_Interval DEF PlansFit
<1> QED
  BY <1>1, FS_Subset DEF PlansFit

LEMMA ReportedIs ==
  ASSUME NEW pl, NEW m, PlansFit(pl, m), NEW x \in Counts
  PROVE  Reported(pl, x) \in Nat
<1> DEFINE f == [q \in DOMAIN pl |-> pl[q].totals[x]]
<1>1. IsFiniteSet(DOMAIN f)
  BY PlansAreFinite
<1>2. \A q \in DOMAIN f : f[q] \in Nat
  BY DEF PlansFit, PlanFits, CountsFit
<1>3. Reported(pl, x) = SumOf(f)
  BY DEF Reported
<1> HIDE DEF f
<1> QED
  BY <1>1, <1>2, <1>3, UnitsAreFinite

LEMMA UnrecordedIs ==
  ASSUME NEW tk, TicksFit(tk), NEW x \in Counts
  PROVE  Unrecorded(tk, x) \in Nat
<1> DEFINE f == [p \in Tickers |-> tk[p].total[x]]
<1>1. IsFiniteSet(DOMAIN f)
  BY BackfillAssumption
<1>2. \A q \in DOMAIN f : f[q] \in Nat
  BY DEF TicksFit, TickFits, CountsFit
<1>3. Unrecorded(tk, x) = SumOf(f)
  BY DEF Unrecorded
<1> HIDE DEF f
<1> QED
  BY <1>1, <1>2, <1>3, UnitsAreFinite

\* Idle ticks have recorded everything.
LEMMA AllRecorded ==
  ASSUME NEW tk, TicksFit(tk), \A p \in Tickers : tk[p].at = "idle", NEW x \in Counts
  PROVE  Unrecorded(tk, x) = 0
<1> DEFINE f == [p \in Tickers |-> tk[p].total[x]]
<1>1. \A p \in DOMAIN f : f[p] = 0
  BY NoneFits DEF TicksFit, TickFits
<1>2. Unrecorded(tk, x) = SumOf(f)
  BY DEF Unrecorded
<1> HIDE DEF f
<1> QED
  BY <1>1, <1>2, SumZero

\* One plan's totals change.
LEMMA ReportedWith ==
  ASSUME NEW pl, NEW m, PlansFit(pl, m), NEW ql, NEW n, PlansFit(ql, n), NEW q \in DOMAIN pl,
         DOMAIN ql = DOMAIN pl, \A k \in DOMAIN pl \ {q} : ql[k] = pl[k], NEW x \in Counts
  PROVE  Reported(ql, x) + pl[q].totals[x] = Reported(pl, x) + ql[q].totals[x]
<1> DEFINE f == [k \in DOMAIN pl |-> pl[k].totals[x]]
<1> DEFINE g == [k \in DOMAIN ql |-> ql[k].totals[x]]
<1>1. IsFiniteSet(DOMAIN f) /\ DOMAIN g = DOMAIN f /\ q \in DOMAIN f
  BY PlansAreFinite
<1>2. \A k \in DOMAIN f : f[k] \in Nat /\ g[k] \in Nat
  BY DEF PlansFit, PlanFits, CountsFit
<1>3. \A k \in DOMAIN f \ {q} : g[k] = f[k]
  OBVIOUS
<1>4. f[q] = pl[q].totals[x] /\ g[q] = ql[q].totals[x]
  OBVIOUS
<1>5. Reported(pl, x) = SumOf(f) /\ Reported(ql, x) = SumOf(g)
  BY DEF Reported
<1> HIDE DEF f, g
<1> QED
  BY <1>1, <1>2, <1>3, <1>4, <1>5, SumWith

\* A plan is deleted.
LEMMA ReportedWithout ==
  ASSUME NEW pl, NEW m, PlansFit(pl, m), NEW q \in DOMAIN pl, NEW x \in Counts
  PROVE  Reported(pl, x) = Reported(Without(pl, {q}), x) + pl[q].totals[x]
<1> DEFINE ql == Without(pl, {q})
<1> DEFINE f == [k \in DOMAIN pl |-> pl[k].totals[x]]
<1> DEFINE g == [k \in DOMAIN ql |-> ql[k].totals[x]]
<1>1. DOMAIN ql = DOMAIN pl \ {q} /\ \A k \in DOMAIN ql : ql[k] = pl[k]
  BY DEF Without
<1>2. IsFiniteSet(DOMAIN f) /\ q \in DOMAIN f /\ DOMAIN g = DOMAIN f \ {q}
  BY <1>1, PlansAreFinite
<1>3. \A k \in DOMAIN f : f[k] \in Nat
  BY DEF PlansFit, PlanFits, CountsFit
<1>4. \A k \in DOMAIN g : g[k] = f[k]
  BY <1>1
<1>5. f[q] = pl[q].totals[x]
  OBVIOUS
<1>6. Reported(pl, x) = SumOf(f) /\ Reported(ql, x) = SumOf(g)
  BY DEF Reported
<1> HIDE DEF f, g
<1>7. SumOf(f) = SumOf(g) + f[q]
  BY <1>2, <1>3, <1>4, SumWithout
<1> HIDE DEF ql
<1> QED
  BY <1>5, <1>6, <1>7 DEF ql

\* One tick's total changes.
LEMMA UnrecordedWith ==
  ASSUME NEW tk, TicksFit(tk), NEW uk, TicksFit(uk), NEW p \in Tickers,
         \A k \in Tickers \ {p} : uk[k] = tk[k], NEW x \in Counts
  PROVE  Unrecorded(uk, x) + tk[p].total[x] = Unrecorded(tk, x) + uk[p].total[x]
<1> DEFINE f == [k \in Tickers |-> tk[k].total[x]]
<1> DEFINE g == [k \in Tickers |-> uk[k].total[x]]
<1>1. IsFiniteSet(DOMAIN f) /\ DOMAIN g = DOMAIN f /\ p \in DOMAIN f
  BY BackfillAssumption
<1>2. \A k \in DOMAIN f : f[k] \in Nat /\ g[k] \in Nat
  BY DEF TicksFit, TickFits, CountsFit
<1>3. \A k \in DOMAIN f \ {p} : g[k] = f[k]
  OBVIOUS
<1>4. f[p] = tk[p].total[x] /\ g[p] = uk[p].total[x]
  OBVIOUS
<1>5. Unrecorded(tk, x) = SumOf(f) /\ Unrecorded(uk, x) = SumOf(g)
  BY DEF Unrecorded
<1> HIDE DEF f, g
<1> QED
  BY <1>1, <1>2, <1>3, <1>4, <1>5, SumWith

----------------------------------------------------------------------------
(* Backfill plans: the order in which due plans run.                       *)

Orders(R, S) ==
  /\ \A a, b, c \in S : <<a, b>> \in R /\ <<b, c>> \in R => <<a, c>> \in R
  /\ \A a \in S : <<a, a>> \notin R
  /\ \A a, b \in S : a # b => <<a, b>> \in R \/ <<b, a>> \in R

Place(R, S, a) == Cardinality({b \in S : <<b, a>> \in R}) + 1

LEMMA PlacesAreStrict ==
  ASSUME NEW S, IsFiniteSet(S), NEW R, Orders(R, S), NEW a \in S, NEW b \in S
  PROVE  /\ <<a, b>> \in R => Place(R, S, a) < Place(R, S, b)
         /\ Place(R, S, a) \in 1 .. Cardinality(S)
<1> DEFINE before(x) == {y \in S : <<y, x>> \in R}
<1>1. \A x \in S : IsFiniteSet(before(x)) /\ Cardinality(before(x)) \in Nat
  <2> TAKE x \in S
  <2>1. before(x) \in SUBSET S
    OBVIOUS
  <2> QED
    BY <2>1, FS_Subset, FS_CardinalityType
<1>2. ASSUME <<a, b>> \in R PROVE Place(R, S, a) < Place(R, S, b)
  <2>1. before(a) \subseteq before(b)
    BY <1>2 DEF Orders
  <2>2. a \in before(b) /\ a \notin before(a)
    BY <1>2 DEF Orders
  <2>3. Cardinality(before(a)) <= Cardinality(before(b))
        /\ Cardinality(before(a)) # Cardinality(before(b))
    BY <1>1, <2>1, <2>2, FS_Subset
  <2> QED
    BY <1>1, <2>3 DEF Place
<1>3. Place(R, S, a) \in 1 .. Cardinality(S)
  <2>1. before(a) \subseteq S /\ a \notin before(a)
    BY DEF Orders
  <2>2. Cardinality(before(a)) <= Cardinality(S) /\ Cardinality(before(a)) # Cardinality(S)
    BY <2>1, FS_Subset
  <2>3. Cardinality(S) \in Nat
    BY FS_CardinalityType
  <2> QED
    BY <1>1, <2>2, <2>3 DEF Place
<1> QED
  BY <1>2, <1>3

\* A finite set can be listed in the order of any total order on it.
LEMMA Sorted ==
  ASSUME NEW S, IsFiniteSet(S), NEW R, Orders(R, S)
  PROVE  \E s \in [1 .. Cardinality(S) -> S] :
            \A i, j \in DOMAIN s : i < j => <<s[i], s[j]>> \in R
<1> DEFINE N == 1 .. Cardinality(S)
<1> DEFINE f == [a \in S |-> Place(R, S, a)]
<1>1. Cardinality(S) \in Nat
  BY FS_CardinalityType
<1>2. \A a \in S : Place(R, S, a) \in N /\ Place(R, S, a) \in Int
  <2> TAKE a \in S
  <2>1. Place(R, S, a) \in N
    BY PlacesAreStrict
  <2> QED
    BY <1>1, <2>1
<1>3. \A a, b \in S : Place(R, S, a) = Place(R, S, b) => a = b
  <2> SUFFICES ASSUME NEW a \in S, NEW b \in S, a # b
               PROVE  Place(R, S, a) # Place(R, S, b)
    OBVIOUS
  <2>1. <<a, b>> \in R \/ <<b, a>> \in R
    BY DEF Orders
  <2>2. Place(R, S, a) < Place(R, S, b) \/ Place(R, S, b) < Place(R, S, a)
    BY <2>1, PlacesAreStrict
  <2> QED
    BY <1>2, <2>2
<1>4. f \in Injection(S, N)
  <2>1. f \in [S -> N]
    BY <1>2
  <2> QED
    BY <1>3, <2>1 DEF Injection, IsInjective
<1>5. IsFiniteSet(N) /\ Cardinality(N) = Cardinality(S)
  BY <1>1, FS_Interval
<1>6. f \in Surjection(S, N)
  BY <1>4, <1>5, FS_Injection
<1>7. \A k \in N : \E a \in S : Place(R, S, a) = k
  BY <1>6 DEF Surjection
<1> DEFINE s == [k \in N |-> CHOOSE a \in S : Place(R, S, a) = k]
<1>8. \A k \in N : s[k] \in S /\ Place(R, S, s[k]) = k
  BY <1>7
<1>9. \A i, j \in N : i < j => <<s[i], s[j]>> \in R
  <2> SUFFICES ASSUME NEW i \in N, NEW j \in N, i < j PROVE <<s[i], s[j]>> \in R
    OBVIOUS
  <2>1. s[i] \in S /\ s[j] \in S /\ Place(R, S, s[i]) = i /\ Place(R, S, s[j]) = j
    BY <1>8
  <2>2. s[i] # s[j] /\ ~(j < i) /\ i \in Int /\ j \in Int
    BY <1>1, <2>1
  <2> HIDE DEF s
  <2>3. <<s[i], s[j]>> \in R \/ <<s[j], s[i]>> \in R
    BY <2>1, <2>2 DEF Orders
  <2>4. ~(<<s[j], s[i]>> \in R)
    BY <2>1, <2>2, PlacesAreStrict
  <2> QED
    BY <2>3, <2>4
<1>10. s \in [N -> S] /\ DOMAIN s = N
  BY <1>8
<1> HIDE DEF s, N
<1>11. s \in [N -> S] /\ \A i, j \in DOMAIN s : i < j => <<s[i], s[j]>> \in R
  BY <1>9, <1>10
<1> QED
  BY <1>11 DEF N

\* The plans that are due are listed once each.
LEMMA InOrderLists ==
  ASSUME NEW S, S \subseteq DOMAIN plans, PlansFit(plans, made)
  PROVE  /\ InOrder(S) \in Seq(S) /\ Len(InOrder(S)) = Cardinality(S)
         /\ \A i, k \in 1 .. Len(InOrder(S)) : InOrder(S)[i] = InOrder(S)[k] => i = k
<1> DEFINE less(a, b) == \/ plans[a].next < plans[b].next
                         \/ plans[a].next = plans[b].next /\ a < b
<1> DEFINE R == {x \in S \X S : less(x[1], x[2])}
<1>1. IsFiniteSet(S) /\ Cardinality(S) \in Nat
  BY PlansAreFinite, FS_Subset, FS_CardinalityType
<1>2. \A a \in S : a \in Int /\ plans[a].next \in Int
  BY BackfillAssumption DEF PlansFit, PlanFits
<1>3. \A a, b \in S : <<a, b>> \in R <=> less(a, b)
  OBVIOUS
<1>4. Orders(R, S)
  <2> HIDE DEF R
  <2>1. \A a, b, c \in S : <<a, b>> \in R /\ <<b, c>> \in R => <<a, c>> \in R
    BY <1>2, <1>3
  <2>2. \A a \in S : <<a, a>> \notin R
    BY <1>2, <1>3
  <2>3. \A a, b \in S : a # b => <<a, b>> \in R \/ <<b, a>> \in R
    BY <1>2, <1>3
  <2> QED
    BY <2>1, <2>2, <2>3 DEF Orders
<1>5. PICK s \in [1 .. Cardinality(S) -> S] : \A i, j \in DOMAIN s : i < j => <<s[i], s[j]>> \in R
  BY <1>1, <1>4, Sorted
<1>6. \A i, j \in DOMAIN s : i < j => less(s[i], s[j])
  BY <1>3, <1>5
<1> DEFINE o == InOrder(S)
<1> DEFINE sorted(x) == \A i, j \in DOMAIN x : i < j => less(x[i], x[j])
<1>7. o = CHOOSE x \in [1 .. Cardinality(S) -> S] : sorted(x)
  BY Zenon DEF InOrder
<1>8. sorted(s)
  BY <1>6
<1> HIDE DEF sorted
<1>9. o \in [1 .. Cardinality(S) -> S] /\ sorted(o)
  BY Zenon, <1>5, <1>7, <1>8
<1>10. o \in [1 .. Cardinality(S) -> S] /\ \A i, j \in DOMAIN o : i < j => less(o[i], o[j])
  BY <1>9 DEF sorted
<1> HIDE DEF o
<1>11. o \in Seq(S) /\ Len(o) = Cardinality(S) /\ DOMAIN o = 1 .. Cardinality(S)
  BY <1>1, <1>10, SeqDef
<1>12. \A i, k \in 1 .. Len(o) : o[i] = o[k] => i = k
  <2> SUFFICES ASSUME NEW i \in 1 .. Len(o), NEW k \in 1 .. Len(o), i # k
               PROVE  o[i] # o[k]
    OBVIOUS
  <2>1. o[i] \in S /\ o[k] \in S /\ i \in DOMAIN o /\ k \in DOMAIN o
    BY <1>10, <1>11
  <2>2. i < k \/ k < i
    BY <1>1, <1>11
  <2>3. less(o[i], o[k]) \/ less(o[k], o[i])
    BY <1>10, <2>1, <2>2
  <2> QED
    BY <1>2, <2>1, <2>3
<1> QED
  BY <1>11, <1>12 DEF o

----------------------------------------------------------------------------
(* Backfill plans: the steps.                                              *)

LEMMA SlotsAreTimes ==
  ASSUME NEW t \in Int
  PROVE  NextSlot(t) \in Int
BY BackfillAssumption DEF NextSlot

LEMMA NewPlanFits ==
  ASSUME NEW now \in Int, NEW on
  PROVE  /\ PlanFits(newBackfillPlan(now, on))
         /\ newBackfillPlan(now, on).run = 0
         /\ newBackfillPlan(now, on).totals = None
<1>1. CountsFit(None) /\ NextSlot(now) \in Int
  BY NoneFits, SlotsAreTimes
<1> DEFINE plan == newBackfillPlan(now, on)
<1>2. /\ DOMAIN plan = {"enabled", "last", "next", "resumed", "run", "totals"}
      /\ plan.last = 0 /\ plan.next = NextSlot(now) /\ plan.run = 0 /\ plan.totals = None
  BY DEF newBackfillPlan
<1> QED
  BY <1>1, <1>2 DEF PlanFits

\* One call reports its jobs under one of the three counts.
LEMMA PartsFit ==
  ASSUME NEW t \in DOMAIN Jobs, NEW now, NEW r
  PROVE  CountsFit(enqueueSyncRequest(t, now, r).part)
<1>1. Cardinality(Jobs[t]) \in Nat
  BY BackfillAssumption, FS_CardinalityType
<1>2. /\ CountsFit([None EXCEPT !.limited = 1])
      /\ CountsFit([None EXCEPT !.dedup = Cardinality(Jobs[t])])
      /\ CountsFit([None EXCEPT !.queued = Cardinality(Jobs[t])])
  BY <1>1 DEF CountsFit, None, Counts
<1>3. enqueueSyncRequest(t, now, r).part \in
        {[None EXCEPT !.limited = 1], [None EXCEPT !.dedup = Cardinality(Jobs[t])],
         [None EXCEPT !.queued = Cardinality(Jobs[t])]}
  BY Zenon DEF enqueueSyncRequest
<1> QED
  BY <1>2, <1>3

LEMMA RanFits ==
  ASSUME NEW plan, PlanFits(plan), NEW t, TickFits(t)
  PROVE  /\ PlanFits(Ran(plan, t))
         /\ Ran(plan, t).run = t.run /\ Ran(plan, t).last = t.now
         /\ \A x \in Counts : Ran(plan, t).totals[x] = plan.totals[x] + t.part[x]
<1> DEFINE ran == Ran(plan, t)
<1>1. /\ DOMAIN ran = DOMAIN plan
      /\ ran.last = t.now /\ ran.next = NextSlot(t.now) /\ ran.run = t.run
      /\ ran.totals = Sum(plan.totals, t.part)
  BY DEF Ran, PlanFits
<1>2. CountsFit(ran.totals) /\ \A x \in Counts : ran.totals[x] = plan.totals[x] + t.part[x]
  BY <1>1, SumFits DEF PlanFits, TickFits
<1>3. NextSlot(t.now) \in Int /\ t.run \in Nat
  BY SlotsAreTimes DEF TickFits
<1> QED
  BY <1>1, <1>2, <1>3 DEF PlanFits

LEMMA NoTickFits ==
  /\ TickFits(NoTick) /\ NoTick.at = "idle" /\ NoTick.run = 0
  /\ TickFits([NoTick EXCEPT !.at = "commit"])
<1>1. CountsFit(None)
  BY NoneFits
<1>2. << >> \in Seq(PlanIds) /\ << >> \in Seq(DOMAIN Jobs)
  OBVIOUS
<1> QED
  BY <1>1, <1>2 DEF TickFits, NoTick

\* An operator works while, in persistent mode, nobody ticks.
LEMMA OperatorsFit ==
  ASSUME NEW md, NEW lk, NEW tk, NEW pl, NEW m, NEW r, NEW ql, NEW n,
         md = "persistent" => lk = << >>,
         LockFits(md, lk, tk, pl, m), RunsFit(md, pl, lk, tk, r),
         \A q \in DOMAIN ql : ql[q].run = 0 \/ (q \in DOMAIN pl /\ ql[q].run = pl[q].run)
  PROVE  LockFits(md, lk, tk, ql, n) /\ RunsFit(md, ql, lk, tk, r)
<1>1. lk = << >>
  BY DEF LockFits
<1>2. md = "persistent" => \A p \in Tickers : tk[p].at = "idle"
  BY <1>1 DEF LockFits
<1>3. LockFits(md, lk, tk, ql, n)
  BY <1>1, <1>2 DEF LockFits
<1>4. \A q \in DOMAIN ql : ql[q].run <= r
  BY DEF RunsFit
<1>5. RunsFit(md, ql, lk, tk, r)
  BY <1>1, <1>2, <1>4 DEF RunsFit
<1> QED
  BY <1>3, <1>5

LEMMA ReportedSame ==
  ASSUME NEW pl, NEW ql, DOMAIN ql = DOMAIN pl,
         \A q \in DOMAIN pl : ql[q].totals = pl[q].totals, NEW x
  PROVE  Reported(ql, x) = Reported(pl, x)
<1> DEFINE f == [q \in DOMAIN pl |-> pl[q].totals[x]]
<1> DEFINE g == [q \in DOMAIN ql |-> ql[q].totals[x]]
<1>1. DOMAIN g = DOMAIN f /\ \A q \in DOMAIN f : g[q] = f[q]
  OBVIOUS
<1>2. Reported(pl, x) = SumOf(f) /\ Reported(ql, x) = SumOf(g)
  BY DEF Reported
<1> HIDE DEF f, g
<1> QED
  BY <1>1, <1>2, SumSame

LEMMA CreatedFits ==
  ASSUME NEW pl, NEW m, PlansFit(pl, m), NEW q \in PlanIds, q = m + 1,
         NEW plan, PlanFits(plan), plan.totals = None
  PROVE  /\ PlansFit(With(pl, q, plan), q)
         /\ \A x \in Counts : Reported(With(pl, q, plan), x) = Reported(pl, x)
<1> DEFINE ql == With(pl, q, plan)
<1>1. DOMAIN ql = DOMAIN pl \cup {q} /\ ql[q] = plan /\ \A k \in DOMAIN pl \ {q} : ql[k] = pl[k]
  BY DEF With
<1>2. q \notin DOMAIN pl /\ q \in Nat
  BY DEF PlansFit
<1> HIDE DEF ql
<1>3. PlansFit(ql, q)
  BY <1>1, <1>2 DEF PlansFit
<1>4. ASSUME NEW x \in Counts PROVE Reported(ql, x) = Reported(pl, x)
  <2>1. Reported(ql, x) = Reported(Without(ql, {q}), x) + ql[q].totals[x]
    BY <1>1, <1>3, ReportedWithout
  <2>2. DOMAIN Without(ql, {q}) = DOMAIN pl /\ \A k \in DOMAIN pl : Without(ql, {q})[k] = pl[k]
    BY <1>1, <1>2 DEF Without
  <2>3. Reported(Without(ql, {q}), x) = Reported(pl, x)
    BY <2>2, ReportedSame
  <2>4. ql[q].totals[x] = 0
    BY <1>1, NoneFits
  <2>5. Reported(pl, x) \in Nat
    BY ReportedIs
  <2> QED
    BY <2>1, <2>3, <2>4, <2>5
<1> QED
  BY <1>3, <1>4 DEF ql

\* A plan changes and keeps its totals and its run.
LEMMA ChangedFits ==
  ASSUME NEW pl, NEW m, PlansFit(pl, m), NEW q \in DOMAIN pl,
         NEW plan, PlanFits(plan), plan.totals = pl[q].totals
  PROVE  /\ PlansFit([pl EXCEPT ![q] = plan], m)
         /\ \A x \in Counts : Reported([pl EXCEPT ![q] = plan], x) = Reported(pl, x)
<1> DEFINE ql == [pl EXCEPT ![q] = plan]
<1>1. DOMAIN ql = DOMAIN pl /\ ql[q] = plan /\ \A k \in DOMAIN pl \ {q} : ql[k] = pl[k]
  OBVIOUS
<1> HIDE DEF ql
<1>2. PlansFit(ql, m)
  BY <1>1 DEF PlansFit
<1>3. \A k \in DOMAIN pl : ql[k].totals = pl[k].totals
  BY <1>1
<1>4. \A x \in Counts : Reported(ql, x) = Reported(pl, x)
  BY <1>1, <1>3, ReportedSame
<1> QED
  BY <1>2, <1>4 DEF ql

LEMMA CreateKeeps ==
  ASSUME BackfillInv, NEW q \in PlanIds, NEW on, CreateBackfillPlan(q, time, on)
  PROVE  BackfillInv'
<1> DEFINE plan == newBackfillPlan(time, on)
<1>1. /\ PlansFit(plans, made) /\ TicksFit(tick) /\ BooksFit(counters, gone, plans, tick)
      /\ LockFits(mode, rowLock, tick, plans, made) /\ RunsFit(mode, plans, rowLock, tick, run)
      /\ time \in Int
  BY BackfillIs
<1>2. /\ mode' = mode /\ counters' = counters /\ gone' = gone /\ rowLock' = rowLock
      /\ tick' = tick /\ run' = run /\ time' = time
      /\ mode = "persistent" => rowLock = << >>
      /\ q = made + 1 /\ made' = q /\ plans' = With(plans, q, plan)
  BY DEF CreateBackfillPlan, Operate, Free
<1>3. PlanFits(plan) /\ plan.totals = None /\ plan.run = 0
  BY <1>1, NewPlanFits
<1> HIDE DEF plan
<1>4. /\ PlansFit(plans', made')
      /\ \A x \in Counts : Reported(plans', x) = Reported(plans, x)
  BY <1>1, <1>2, <1>3, CreatedFits
<1>5. BooksFit(counters', gone', plans', tick')
  BY <1>1, <1>2, <1>4 DEF BooksFit
<1>6. \A k \in DOMAIN plans' : plans'[k].run = 0 \/ (k \in DOMAIN plans /\ plans'[k].run = plans[k].run)
  BY <1>2, <1>3 DEF With
<1>7. LockFits(mode, rowLock, tick, plans', made') /\ RunsFit(mode, plans', rowLock, tick, run)
  BY <1>1, <1>2, <1>6, OperatorsFit
<1> QED
  BY <1>1, <1>2, <1>4, <1>5, <1>7, BackfillNext

\* Pausing and resuming leave a plan its books.
LEMMA ChangeKeeps ==
  ASSUME BackfillInv, NEW q \in DOMAIN plans, Operate, made' = made, gone' = gone,
         NEW plan, PlanFits(plan), plan.totals = plans[q].totals, plan.run = plans[q].run,
         plans' = [plans EXCEPT ![q] = plan]
  PROVE  BackfillInv'
<1>1. /\ PlansFit(plans, made) /\ TicksFit(tick) /\ BooksFit(counters, gone, plans, tick)
      /\ LockFits(mode, rowLock, tick, plans, made) /\ RunsFit(mode, plans, rowLock, tick, run)
      /\ time \in Int
  BY BackfillIs
<1>2. /\ mode' = mode /\ counters' = counters /\ rowLock' = rowLock
      /\ tick' = tick /\ run' = run /\ time' = time
      /\ mode = "persistent" => rowLock = << >>
  BY DEF Operate, Free
<1>3. /\ PlansFit(plans', made')
      /\ \A x \in Counts : Reported(plans', x) = Reported(plans, x)
  BY <1>1, ChangedFits
<1>4. BooksFit(counters', gone', plans', tick')
  BY <1>1, <1>2, <1>3 DEF BooksFit
<1>5. \A k \in DOMAIN plans' : plans'[k].run = 0 \/ (k \in DOMAIN plans /\ plans'[k].run = plans[k].run)
  OBVIOUS
<1>6. LockFits(mode, rowLock, tick, plans', made') /\ RunsFit(mode, plans', rowLock, tick, run)
  BY <1>1, <1>2, <1>5, OperatorsFit
<1> QED
  BY <1>1, <1>2, <1>3, <1>4, <1>6, BackfillNext

LEMMA PlanPauseKeeps ==
  ASSUME BackfillInv, NEW q \in DOMAIN plans, PauseBackfillPlan(q)
  PROVE  BackfillInv'
<1> DEFINE plan == [plans[q] EXCEPT !.enabled = FALSE, !.next = 0]
<1>1. PlanFits(plans[q])
  BY BackfillIs DEF PlansFit
<1>2. /\ DOMAIN plan = DOMAIN plans[q]
      /\ ~plan.enabled /\ plan.next = 0 /\ plan.run = plans[q].run /\ plan.totals = plans[q].totals
  BY <1>1 DEF PlanFits
<1>3. /\ Operate /\ made' = made /\ gone' = gone
      /\ plans' = [plans EXCEPT ![q] = plan]
  BY DEF PauseBackfillPlan
<1> HIDE DEF plan
<1>4. PlanFits(plan)
  BY <1>1, <1>2 DEF PlanFits
<1> QED
  BY <1>2, <1>3, <1>4, ChangeKeeps

LEMMA PlanResumeKeeps ==
  ASSUME BackfillInv, NEW q \in DOMAIN plans, NEW now \in Recent, ResumeBackfillPlan(q, now)
  PROVE  BackfillInv'
<1> DEFINE plan == Resumed(plans[q], now)
<1>1. PlanFits(plans[q])
  BY BackfillIs DEF PlansFit
<1>2. now \in Int /\ NextSlot(now) \in Int
  <2>1. now \in Int
    BY DEF Recent
  <2> QED
    BY <2>1, SlotsAreTimes
<1>3. /\ DOMAIN plan = DOMAIN plans[q]
      /\ plan.resumed /\ plan.next = NextSlot(now)
      /\ plan.run = plans[q].run /\ plan.totals = plans[q].totals
  BY <1>1 DEF PlanFits, Resumed
<1>4. /\ Operate /\ made' = made /\ gone' = gone
      /\ plans' = [plans EXCEPT ![q] = plan]
  BY DEF ResumeBackfillPlan
<1> HIDE DEF plan
<1>5. PlanFits(plan)
  BY <1>1, <1>2, <1>3 DEF PlanFits
<1> QED
  BY <1>3, <1>4, <1>5, ChangeKeeps

\* What a deleted plan reported is accounted for.
LEMMA DeleteKeeps ==
  ASSUME BackfillInv, NEW q \in DOMAIN plans, DeleteBackfillPlan(q)
  PROVE  BackfillInv'
<1>1. /\ PlansFit(plans, made) /\ TicksFit(tick) /\ BooksFit(counters, gone, plans, tick)
      /\ LockFits(mode, rowLock, tick, plans, made) /\ RunsFit(mode, plans, rowLock, tick, run)
      /\ time \in Int
  BY BackfillIs
<1>2. /\ mode' = mode /\ counters' = counters /\ rowLock' = rowLock
      /\ tick' = tick /\ run' = run /\ time' = time /\ made' = made
      /\ mode = "persistent" => rowLock = << >>
      /\ plans' = Without(plans, {q}) /\ gone' = Sum(gone, plans[q].totals)
  BY DEF DeleteBackfillPlan, Operate, Free
<1>3. DOMAIN plans' = DOMAIN plans \ {q} /\ \A k \in DOMAIN plans' : plans'[k] = plans[k]
  BY <1>2 DEF Without
<1>4. PlansFit(plans', made')
  BY <1>1, <1>2, <1>3 DEF PlansFit
<1>5. CountsFit(plans[q].totals)
  BY <1>1 DEF PlansFit, PlanFits
<1>6. CountsFit(gone') /\ \A x \in Counts : gone'[x] = gone[x] + plans[q].totals[x]
  BY <1>1, <1>2, <1>5, SumFits DEF BooksFit
<1>7. ASSUME NEW x \in Counts
      PROVE  counters[x] + Unrecorded(tick, x) = gone'[x] + Reported(plans', x)
  <2>1. Reported(plans, x) = Reported(plans', x) + plans[q].totals[x]
    BY <1>1, <1>2, ReportedWithout
  <2>2. Reported(plans', x) \in Nat
    BY <1>4, ReportedIs
  <2>3. counters[x] + Unrecorded(tick, x) = gone[x] + Reported(plans, x)
    BY <1>1 DEF BooksFit
  <2>4. gone'[x] = gone[x] + plans[q].totals[x]
    BY <1>6
  <2>5. gone[x] \in Nat /\ plans[q].totals[x] \in Nat
    BY <1>1, <1>5 DEF BooksFit, CountsFit
  <2> QED
    BY <2>1, <2>2, <2>3, <2>4, <2>5
<1>8. BooksFit(counters', gone', plans', tick')
  BY <1>1, <1>2, <1>6, <1>7 DEF BooksFit
<1>9. \A k \in DOMAIN plans' : plans'[k].run = 0 \/ (k \in DOMAIN plans /\ plans'[k].run = plans[k].run)
  BY <1>3
<1>10. LockFits(mode, rowLock, tick, plans', made') /\ RunsFit(mode, plans', rowLock, tick, run)
  BY <1>1, <1>2, <1>9, OperatorsFit
<1> QED
  BY <1>1, <1>2, <1>4, <1>8, <1>10, BackfillNext

\* Jobs, limiter windows and the passing of time touch no books.
LEMMA OthersKeep ==
  ASSUME BackfillInv,
         UNCHANGED <<mode, plans, counters, rowLock, tick, gone, run, made>>, time' \in Int
  PROVE  BackfillInv'
BY BackfillIs, BackfillNext

LEMMA QuietStepsKeep ==
  ASSUME BackfillInv
  PROVE  /\ (\E q \in DOMAIN plans : CancelBackfillPlanJobs(q)) => BackfillInv'
         /\ (\E t \in UserTargets : UserEnqueuesSync(t, time)) => BackfillInv'
         /\ (\E k \in DOMAIN active : JobEnds(k)) => BackfillInv'
         /\ Tock => BackfillInv'
         /\ UNCHANGED planVars => BackfillInv'
<1>1. time \in Int
  BY BackfillIs
<1>2. ASSUME NEW q \in DOMAIN plans, CancelBackfillPlanJobs(q) PROVE BackfillInv'
  <2>1. UNCHANGED <<mode, plans, counters, rowLock, tick, gone, run, made>> /\ time' = time
    BY <1>2, Zenon DEF CancelBackfillPlanJobs, Operate
  <2> QED
    BY <1>1, <2>1, OthersKeep
<1>3. ASSUME NEW t \in UserTargets, UserEnqueuesSync(t, time) PROVE BackfillInv'
  <2>1. UNCHANGED <<mode, plans, counters, rowLock, tick, gone, run, made>> /\ time' = time
    BY <1>3, Zenon DEF UserEnqueuesSync
  <2> QED
    BY <1>1, <2>1, OthersKeep
<1>4. ASSUME NEW k \in DOMAIN active, JobEnds(k) PROVE BackfillInv'
  <2>1. UNCHANGED <<mode, plans, counters, rowLock, tick, gone, run, made>> /\ time' = time
    BY <1>4, Zenon DEF JobEnds
  <2> QED
    BY <1>1, <2>1, OthersKeep
<1>5. ASSUME Tock PROVE BackfillInv'
  <2>1. UNCHANGED <<mode, plans, counters, rowLock, tick, gone, run, made>> /\ time' = time + 1
    BY <1>5, Zenon DEF Tock
  <2> QED
    BY <1>1, <2>1, OthersKeep
<1>6. ASSUME UNCHANGED planVars PROVE BackfillInv'
  <2>1. UNCHANGED <<mode, plans, counters, rowLock, tick, gone, run, made>> /\ time' = time
    BY <1>6 DEF planVars
  <2> QED
    BY <1>1, <2>1, OthersKeep
<1> QED
  BY <1>2, <1>3, <1>4, <1>5, <1>6

\* In persistent mode who ticks holds the row lock, alone.
LEMMA Alone ==
  ASSUME NEW md, NEW lk, NEW tk, NEW pl, NEW m, LockFits(md, lk, tk, pl, m),
         NEW p \in Tickers, tk[p].at # "idle"
  PROVE  /\ md = "persistent" => lk # << >>
         /\ lk # << >> => /\ md = "persistent" /\ lk[1] = p
                          /\ \A k \in Tickers \ {p} : tk[k].at = "idle"
BY DEF LockFits

\* A tick goes on: the lock stays with it.
LEMMA LockStays ==
  ASSUME BackfillInv, NEW p \in Tickers, tick[p].at # "idle",
         mode' = mode, rowLock' = rowLock, made' = made,
         \A k \in Tickers \ {p} : tick'[k] = tick[k],
         mode = "persistent" /\ tick'[p].at \in {"plan", "target"} => DueFits(tick'[p], plans')
  PROVE  LockFits(mode', rowLock', tick', plans', made')
<1>1. LockFits(mode, rowLock, tick, plans, made)
  BY BackfillIs
<1>2. /\ mode = "persistent" => rowLock # << >>
      /\ rowLock # << >> => /\ mode = "persistent" /\ rowLock[1] = p
                            /\ \A k \in Tickers \ {p} : tick'[k].at = "idle"
  BY <1>1, Alone
<1>3. rowLock # << >> => FoundFits(rowLock[2], made)
  BY <1>1 DEF LockFits
<1>4. mode = "persistent" =>
         \A k \in Tickers : tick'[k].at \in {"plan", "target"} => DueFits(tick'[k], plans')
  BY <1>2
<1> QED
  BY <1>2, <1>3, <1>4 DEF LockFits

RunsGrow(md, pl, ql, t, s) ==
  /\ t.run <= s /\ \A q \in DOMAIN ql : ql[q].run <= s
  /\ md = "persistent" =>
        /\ \A q \in DOMAIN pl : pl[q].run <= ql[q].run
        /\ t.at = "target" => \A q \in DOMAIN ql : ql[q].run < t.run

LEMMA RunsGoOn ==
  ASSUME BackfillInv, NEW p \in Tickers, tick[p].at # "idle",
         mode' = mode, rowLock' = rowLock, \A k \in Tickers \ {p} : tick'[k] = tick[k],
         DOMAIN plans' = DOMAIN plans, PlansFit(plans', made),
         run' \in Nat, run <= run', RunsGrow(mode, plans, plans', tick'[p], run')
  PROVE  RunsFit(mode', plans', rowLock', tick', run')
<1>1. /\ PlansFit(plans, made) /\ TicksFit(tick)
      /\ LockFits(mode, rowLock, tick, plans, made) /\ RunsFit(mode, plans, rowLock, tick, run)
  BY BackfillIs
<1>2. run \in Nat
  BY <1>1 DEF RunsFit
<1>3. \A k \in Tickers : tick'[k].run <= run'
  <2> SUFFICES ASSUME NEW k \in Tickers, k # p PROVE tick'[k].run <= run'
    BY DEF RunsGrow
  <2>1. tick'[k].run <= run /\ tick'[k].run \in Nat
    BY <1>1 DEF RunsFit, TicksFit, TickFits
  <2> QED
    BY <1>2, <2>1
<1>4. mode = "persistent" =>
        \A k \in Tickers : tick'[k].at = "target" =>
           \A q \in DOMAIN plans' : plans'[q].run < tick'[k].run
  <2> SUFFICES ASSUME mode = "persistent", NEW k \in Tickers, tick'[k].at = "target"
               PROVE  \A q \in DOMAIN plans' : plans'[q].run < tick'[k].run
    OBVIOUS
  <2>1. k = p
    BY <1>1, Alone
  <2> QED
    BY <2>1 DEF RunsGrow
<1>5. ASSUME rowLock # << >>
      PROVE  /\ \A q \in DOMAIN rowLock[2][1] : rowLock[2][1][q].run <= run'
             /\ \A q \in DOMAIN rowLock[2][1] \cap DOMAIN plans' :
                   rowLock[2][1][q].run <= plans'[q].run
  <2>1. mode = "persistent"
    BY <1>1, <1>5, Alone
  <2>2. PlansFit(rowLock[2][1], made)
    BY <1>1, <1>5 DEF LockFits, FoundFits
  <2>3. \A q \in DOMAIN rowLock[2][1] : rowLock[2][1][q].run \in Nat
    BY <2>2 DEF PlansFit, PlanFits
  <2>4. \A q \in DOMAIN plans : plans[q].run \in Nat /\ plans'[q].run \in Nat
    BY <1>1 DEF PlansFit, PlanFits
  <2>5. \A q \in DOMAIN rowLock[2][1] : rowLock[2][1][q].run <= run
    BY <1>1, <1>5 DEF RunsFit
  <2>6. \A q \in DOMAIN rowLock[2][1] \cap DOMAIN plans : rowLock[2][1][q].run <= plans[q].run
    BY <1>1, <1>5 DEF RunsFit
  <2>7. \A q \in DOMAIN rowLock[2][1] : rowLock[2][1][q].run <= run'
    BY <1>2, <2>3, <2>5
  <2>8. \A q \in DOMAIN plans : plans[q].run <= plans'[q].run
    BY <2>1 DEF RunsGrow
  <2>9. \A q \in DOMAIN rowLock[2][1] \cap DOMAIN plans' : rowLock[2][1][q].run <= plans'[q].run
    BY <2>3, <2>4, <2>6, <2>8
  <2> QED
    BY <2>7, <2>9
<1> QED
  BY <1>3, <1>4, <1>5 DEF RunsFit, RunsGrow

\* One tick changes and leaves its total.
LEMMA UnrecordedSame ==
  ASSUME NEW tk, TicksFit(tk), NEW uk, TicksFit(uk), NEW p \in Tickers,
         \A k \in Tickers \ {p} : uk[k] = tk[k], uk[p].total = tk[p].total, NEW x \in Counts
  PROVE  Unrecorded(uk, x) = Unrecorded(tk, x)
<1>1. Unrecorded(uk, x) + tk[p].total[x] = Unrecorded(tk, x) + uk[p].total[x]
  BY UnrecordedWith
<1>2. Unrecorded(uk, x) \in Nat /\ Unrecorded(tk, x) \in Nat
  BY UnrecordedIs
<1>3. tk[p].total[x] \in Nat
  BY DEF TicksFit, TickFits, CountsFit
<1> QED
  BY <1>1, <1>2, <1>3

LEMMA TickChanges ==
  ASSUME NEW tk, TicksFit(tk), NEW p \in Tickers, NEW t, TickFits(t),
         NEW uk, uk = [tk EXCEPT ![p] = t]
  PROVE  /\ TicksFit(uk) /\ uk[p] = t
         /\ \A k \in Tickers \ {p} : uk[k] = tk[k]
BY DEF TicksFit

LEMMA StartPlanKeeps ==
  ASSUME BackfillInv, NEW p \in Tickers, StartPlan(p)
  PROVE  BackfillInv'
<1> DEFINE t == [tick[p] EXCEPT !.at = "target", !.run = run + 1, !.part = None,
                                !.left = Targets[Head(tick[p].due)]]
<1>1. /\ PlansFit(plans, made) /\ TicksFit(tick) /\ BooksFit(counters, gone, plans, tick)
      /\ LockFits(mode, rowLock, tick, plans, made) /\ RunsFit(mode, plans, rowLock, tick, run)
      /\ time \in Int
  BY BackfillIs
<1>2. /\ mode' = mode /\ plans' = plans /\ counters' = counters /\ rowLock' = rowLock
      /\ gone' = gone /\ made' = made /\ time' = time /\ run' = run + 1
      /\ tick[p].at = "plan" /\ tick[p].due # << >>
      /\ tick' = [tick EXCEPT ![p] = t]
  BY DEF StartPlan
<1>3. TickFits(tick[p])
  BY <1>1 DEF TicksFit
<1>4. /\ DOMAIN t = DOMAIN tick[p]
      /\ t.at = "target" /\ t.run = run + 1 /\ t.part = None
      /\ t.left = Targets[Head(tick[p].due)]
      /\ t.due = tick[p].due /\ t.now = tick[p].now /\ t.total = tick[p].total
  BY <1>3 DEF TickFits
<1> HIDE DEF t
<1>5. run \in Nat
  BY <1>1 DEF RunsFit
<1>6. TickFits(t)
  <2>1. Head(tick[p].due) \in PlanIds
    BY <1>2, <1>3 DEF TickFits
  <2>2. t.left \in Seq(DOMAIN Jobs)
    BY <1>4, <2>1, BackfillAssumption
  <2> QED
    BY <1>2, <1>3, <1>4, <1>5, <2>2, NoneFits DEF TickFits
<1>7. /\ TicksFit(tick') /\ tick'[p] = t
      /\ \A k \in Tickers \ {p} : tick'[k] = tick[k]
  BY <1>1, <1>2, <1>6 DEF TicksFit
<1>8. BooksFit(counters', gone', plans', tick')
  <2>1. \A x \in Counts : Unrecorded(tick', x) = Unrecorded(tick, x)
    BY <1>1, <1>4, <1>7, UnrecordedSame
  <2> QED
    BY <1>1, <1>2, <2>1 DEF BooksFit
<1>9. LockFits(mode', rowLock', tick', plans', made')
  <2>1. mode = "persistent" => DueFits(t, plans)
    BY <1>1, <1>2, <1>4 DEF LockFits, DueFits
  <2> QED
    BY <1>1, <1>2, <1>7, <2>1, LockStays
<1>10. RunsFit(mode', plans', rowLock', tick', run')
  <2>1. \A q \in DOMAIN plans : plans[q].run \in Nat /\ plans[q].run <= run
    BY <1>1 DEF RunsFit, PlansFit, PlanFits
  <2>2. /\ run + 1 \in Nat /\ run <= run + 1
        /\ RunsGrow(mode, plans, plans, tick'[p], run + 1)
    BY <1>4, <1>5, <1>7, <2>1 DEF RunsGrow
  <2> QED
    BY <1>1, <1>2, <1>7, <2>2, RunsGoOn
<1> QED
  BY <1>1, <1>2, <1>7, <1>8, <1>9, <1>10, BackfillNext

LEMMA EnqueueKeeps ==
  ASSUME BackfillInv, NEW p \in Tickers, EnqueueTarget(p)
  PROVE  BackfillInv'
<1> DEFINE part == enqueueSyncRequest(Head(tick[p].left), tick[p].now, tick[p].run).part
<1> DEFINE t == [tick[p] EXCEPT !.left = Tail(tick[p].left), !.part = Sum(tick[p].part, part)]
<1>1. /\ PlansFit(plans, made) /\ TicksFit(tick) /\ BooksFit(counters, gone, plans, tick)
      /\ LockFits(mode, rowLock, tick, plans, made) /\ RunsFit(mode, plans, rowLock, tick, run)
      /\ time \in Int
  BY BackfillIs
<1>2. /\ mode' = mode /\ plans' = plans /\ counters' = counters /\ rowLock' = rowLock
      /\ gone' = gone /\ made' = made /\ time' = time /\ run' = run
      /\ tick[p].at = "target" /\ tick[p].left # << >>
  BY Zenon DEF EnqueueTarget
<1>3. tick' = [tick EXCEPT ![p] = t]
  BY Zenon DEF EnqueueTarget
<1>4. TickFits(tick[p])
  BY <1>1 DEF TicksFit
<1>5. CountsFit(part)
  <2>1. Head(tick[p].left) \in DOMAIN Jobs
    BY <1>2, <1>4 DEF TickFits
  <2> QED
    BY <2>1, PartsFit
<1> HIDE DEF part
<1>6. /\ DOMAIN t = DOMAIN tick[p]
      /\ t.at = "target" /\ t.run = tick[p].run /\ t.part = Sum(tick[p].part, part)
      /\ t.left = Tail(tick[p].left)
      /\ t.due = tick[p].due /\ t.now = tick[p].now /\ t.total = tick[p].total
  BY <1>2, <1>4 DEF TickFits
<1> HIDE DEF t
<1>7. TickFits(t)
  <2>1. CountsFit(t.part)
    BY <1>4, <1>5, <1>6, SumFits DEF TickFits
  <2>2. t.left \in Seq(DOMAIN Jobs)
    <3>1. tick[p].left \in Seq(DOMAIN Jobs)
      BY <1>4 DEF TickFits
    <3> QED
      BY <1>2, <1>6, <3>1, HeadTailProperties
  <2> QED
    BY <1>2, <1>4, <1>6, <2>1, <2>2 DEF TickFits
<1>8. /\ TicksFit(tick') /\ tick'[p] = t
      /\ \A k \in Tickers \ {p} : tick'[k] = tick[k]
  BY <1>1, <1>7, <1>3 DEF TicksFit
<1>9. BooksFit(counters', gone', plans', tick')
  <2>1. \A x \in Counts : Unrecorded(tick', x) = Unrecorded(tick, x)
    BY <1>1, <1>6, <1>8, UnrecordedSame
  <2> QED
    BY <1>1, <1>2, <2>1 DEF BooksFit
<1>10. LockFits(mode', rowLock', tick', plans', made')
  <2>1. mode = "persistent" => DueFits(t, plans)
    BY <1>1, <1>2, <1>6 DEF LockFits, DueFits
  <2> QED
    BY <1>1, <1>2, <1>8, <2>1, LockStays
<1>11. RunsFit(mode', plans', rowLock', tick', run')
  <2>1. \A q \in DOMAIN plans : plans[q].run \in Nat /\ plans[q].run <= run
    BY <1>1 DEF RunsFit, PlansFit, PlanFits
  <2>2. run \in Nat /\ run <= run /\ RunsGrow(mode, plans, plans, tick'[p], run)
    BY <1>1, <1>2, <1>6, <1>8, <2>1 DEF RunsFit, RunsGrow
  <2> QED
    BY <1>1, <1>2, <1>8, <2>2, RunsGoOn
<1> QED
  BY <1>1, <1>2, <1>8, <1>9, <1>10, <1>11, BackfillNext

LEMMA RecordKeeps ==
  ASSUME BackfillInv, NEW p \in Tickers, recordTick(p)
  PROVE  BackfillInv'
<1> DEFINE t == [NoTick EXCEPT !.at = "commit"]
<1>1. /\ PlansFit(plans, made) /\ TicksFit(tick) /\ BooksFit(counters, gone, plans, tick)
      /\ LockFits(mode, rowLock, tick, plans, made) /\ RunsFit(mode, plans, rowLock, tick, run)
      /\ time \in Int
  BY BackfillIs
<1>2. /\ mode' = mode /\ plans' = plans /\ rowLock' = rowLock
      /\ gone' = gone /\ made' = made /\ time' = time /\ run' = run
      /\ tick[p].at = "plan" /\ counters' = Sum(counters, tick[p].total)
      /\ tick' = [tick EXCEPT ![p] = t]
  BY DEF recordTick
<1>3. TickFits(tick[p])
  BY <1>1 DEF TicksFit
<1>4. TickFits(t) /\ t.at = "commit" /\ t.run = 0 /\ t.total = None
  BY NoTickFits DEF NoTick
<1> HIDE DEF t
<1>5. /\ TicksFit(tick') /\ tick'[p] = t
      /\ \A k \in Tickers \ {p} : tick'[k] = tick[k]
  BY <1>1, <1>2, <1>4 DEF TicksFit
<1>6. CountsFit(counters') /\ \A x \in Counts : counters'[x] = counters[x] + tick[p].total[x]
  BY <1>1, <1>2, <1>3, SumFits DEF BooksFit, TickFits
<1>7. ASSUME NEW x \in Counts
      PROVE  counters'[x] + Unrecorded(tick', x) = gone[x] + Reported(plans, x)
  <2>1. Unrecorded(tick', x) + tick[p].total[x] = Unrecorded(tick, x) + tick'[p].total[x]
    BY <1>1, <1>5, UnrecordedWith
  <2>2. tick'[p].total[x] = 0
    BY <1>4, <1>5, NoneFits
  <2>3. counters[x] + Unrecorded(tick, x) = gone[x] + Reported(plans, x)
    BY <1>1 DEF BooksFit
  <2>4. Unrecorded(tick', x) \in Nat /\ Unrecorded(tick, x) \in Nat
    BY <1>1, <1>5, UnrecordedIs
  <2>5. tick[p].total[x] \in Nat /\ counters[x] \in Nat
    BY <1>1, <1>3 DEF BooksFit, TickFits, CountsFit
  <2> QED
    BY <1>6, <2>1, <2>2, <2>3, <2>4, <2>5
<1>8. BooksFit(counters', gone', plans', tick')
  BY <1>1, <1>2, <1>6, <1>7 DEF BooksFit
<1>9. LockFits(mode', rowLock', tick', plans', made')
  BY <1>1, <1>2, <1>4, <1>5, LockStays
<1>10. RunsFit(mode', plans', rowLock', tick', run')
  <2>1. \A q \in DOMAIN plans : plans[q].run \in Nat /\ plans[q].run <= run
    BY <1>1 DEF RunsFit, PlansFit, PlanFits
  <2>2. run \in Nat /\ run <= run /\ RunsGrow(mode, plans, plans, tick'[p], run)
    BY <1>1, <1>4, <1>5, <2>1 DEF RunsFit, RunsGrow
  <2> QED
    BY <1>1, <1>2, <1>5, <2>2, RunsGoOn
<1> QED
  BY <1>1, <1>2, <1>5, <1>8, <1>9, <1>10, BackfillNext

\* A run's jobs go to its plan, or, if that was deleted, to what deleted plans
\* reported.
LEMMA FinishedBooks ==
  ASSUME BackfillInv, NEW p \in Tickers, FinishPlan(p), NEW q, q = Head(tick[p].due)
  PROVE  /\ DOMAIN plans' = DOMAIN plans /\ \A k \in DOMAIN plans \ {q} : plans'[k] = plans[k]
         /\ q \in DOMAIN plans => /\ plans'[q].run = tick[p].run
                                  /\ plans'[q].last = tick[p].now
         /\ PlansFit(plans', made) /\ CountsFit(gone')
         /\ \A x \in Counts :
               gone'[x] + Reported(plans', x) = gone[x] + Reported(plans, x) + tick[p].part[x]
<1>1. /\ PlansFit(plans, made) /\ TicksFit(tick) /\ BooksFit(counters, gone, plans, tick)
  BY BackfillIs
<1>2. TickFits(tick[p]) /\ CountsFit(tick[p].part) /\ CountsFit(gone)
  BY <1>1 DEF TicksFit, TickFits, BooksFit
<1>3. \A x \in Counts : tick[p].part[x] \in Nat /\ gone[x] \in Nat
  BY <1>2 DEF CountsFit
<1>4. CASE q \in DOMAIN plans
  <2> DEFINE ran == Ran(plans[q], tick[p])
  <2>1. plans' = [plans EXCEPT ![q] = ran] /\ gone' = gone
    BY <1>4 DEF FinishPlan
  <2>2. PlanFits(plans[q])
    BY <1>1, <1>4 DEF PlansFit
  <2>3. /\ PlanFits(ran) /\ ran.run = tick[p].run /\ ran.last = tick[p].now
        /\ \A x \in Counts : ran.totals[x] = plans[q].totals[x] + tick[p].part[x]
    BY <1>2, <2>2, RanFits
  <2> HIDE DEF ran
  <2>4. /\ DOMAIN plans' = DOMAIN plans /\ plans'[q] = ran
        /\ \A k \in DOMAIN plans \ {q} : plans'[k] = plans[k]
    BY <1>4, <2>1
  <2>5. PlansFit(plans', made)
    BY <1>1, <2>3, <2>4 DEF PlansFit
  <2>6. ASSUME NEW x \in Counts
        PROVE  gone'[x] + Reported(plans', x) = gone[x] + Reported(plans, x) + tick[p].part[x]
    <3>1. Reported(plans', x) + plans[q].totals[x] = Reported(plans, x) + plans'[q].totals[x]
      BY <1>1, <1>4, <2>4, <2>5, ReportedWith
    <3>2. Reported(plans', x) \in Nat /\ Reported(plans, x) \in Nat
      BY <1>1, <2>5, ReportedIs
    <3>3. plans[q].totals[x] \in Nat
      BY <2>2 DEF PlanFits, CountsFit
    <3>4. plans'[q].totals[x] = plans[q].totals[x] + tick[p].part[x]
      BY <2>3, <2>4
    <3> QED
      BY <1>3, <2>1, <3>1, <3>2, <3>3, <3>4
  <2> QED
    BY <1>2, <1>4, <2>1, <2>3, <2>4, <2>5, <2>6
<1>5. CASE q \notin DOMAIN plans
  <2>1. plans' = plans /\ gone' = Sum(gone, tick[p].part)
    BY <1>5 DEF FinishPlan
  <2>2. CountsFit(gone') /\ \A x \in Counts : gone'[x] = gone[x] + tick[p].part[x]
    BY <1>2, <2>1, SumFits
  <2>3. ASSUME NEW x \in Counts
        PROVE  gone'[x] + Reported(plans', x) = gone[x] + Reported(plans, x) + tick[p].part[x]
    <3>1. Reported(plans, x) \in Nat
      BY <1>1, ReportedIs
    <3> QED
      BY <1>3, <2>1, <2>2, <3>1
  <2> QED
    BY <1>1, <1>5, <2>1, <2>2, <2>3
<1> QED
  BY <1>4, <1>5

LEMMA FinishKeeps ==
  ASSUME BackfillInv, NEW p \in Tickers, FinishPlan(p)
  PROVE  BackfillInv'
<1> DEFINE q == Head(tick[p].due)
<1> DEFINE t == [tick[p] EXCEPT !.at = "plan", !.due = Tail(tick[p].due),
                                !.total = Sum(tick[p].total, tick[p].part), !.part = None]
<1>1. /\ PlansFit(plans, made) /\ TicksFit(tick) /\ BooksFit(counters, gone, plans, tick)
      /\ LockFits(mode, rowLock, tick, plans, made) /\ RunsFit(mode, plans, rowLock, tick, run)
      /\ time \in Int
  BY BackfillIs
<1>2. /\ mode' = mode /\ counters' = counters /\ rowLock' = rowLock
      /\ made' = made /\ time' = time /\ run' = run /\ tick[p].at = "target"
  BY Zenon DEF FinishPlan
<1>3. tick' = [tick EXCEPT ![p] = t]
  BY Zenon DEF FinishPlan
<1>4. /\ DOMAIN plans' = DOMAIN plans /\ \A k \in DOMAIN plans \ {q} : plans'[k] = plans[k]
      /\ q \in DOMAIN plans => plans'[q].run = tick[p].run
      /\ PlansFit(plans', made) /\ CountsFit(gone')
      /\ \A x \in Counts :
            gone'[x] + Reported(plans', x) = gone[x] + Reported(plans, x) + tick[p].part[x]
  BY FinishedBooks
<1>5. TickFits(tick[p]) /\ CountsFit(tick[p].part) /\ CountsFit(tick[p].total)
  BY <1>1 DEF TicksFit, TickFits
<1>6. /\ DOMAIN t = DOMAIN tick[p]
      /\ t.at = "plan" /\ t.run = tick[p].run /\ t.part = None
      /\ t.due = Tail(tick[p].due) /\ t.now = tick[p].now /\ t.left = tick[p].left
      /\ t.total = Sum(tick[p].total, tick[p].part)
  BY <1>5 DEF TickFits
<1> HIDE DEF t
<1>7. tick[p].due \in Seq(PlanIds) /\ tick[p].due # << >>
  BY <1>2, <1>5 DEF TickFits
<1>8. /\ Tail(tick[p].due) \in Seq(PlanIds) /\ q = tick[p].due[1]
      /\ Len(Tail(tick[p].due)) = Len(tick[p].due) - 1 /\ Len(tick[p].due) \in Nat
      /\ \A i \in 1 .. Len(Tail(tick[p].due)) : Tail(tick[p].due)[i] = tick[p].due[i + 1]
  BY <1>7
<1> HIDE DEF q
<1>9. /\ CountsFit(t.total)
      /\ \A x \in Counts : t.total[x] = tick[p].total[x] + tick[p].part[x]
  BY <1>5, <1>6, SumFits
<1>10. TickFits(t)
  BY <1>5, <1>6, <1>8, <1>9, NoneFits DEF TickFits
<1>11. /\ TicksFit(tick') /\ tick'[p] = t
       /\ \A k \in Tickers \ {p} : tick'[k] = tick[k]
  BY <1>1, <1>3, <1>10 DEF TicksFit
<1>12. ASSUME NEW x \in Counts
       PROVE  counters[x] + Unrecorded(tick', x) = gone'[x] + Reported(plans', x)
  <2>1. Unrecorded(tick', x) + tick[p].total[x] = Unrecorded(tick, x) + t.total[x]
    BY <1>1, <1>11, UnrecordedWith
  <2>2. counters[x] + Unrecorded(tick, x) = gone[x] + Reported(plans, x)
    BY <1>1 DEF BooksFit
  <2>3. gone'[x] + Reported(plans', x) = gone[x] + Reported(plans, x) + tick[p].part[x]
    BY <1>4
  <2>4. t.total[x] = tick[p].total[x] + tick[p].part[x]
    BY <1>9
  <2>5. Unrecorded(tick', x) \in Nat /\ Unrecorded(tick, x) \in Nat
    BY <1>1, <1>11, UnrecordedIs
  <2>6. /\ tick[p].total[x] \in Nat /\ tick[p].part[x] \in Nat /\ counters[x] \in Nat
        /\ gone[x] \in Nat
    BY <1>1, <1>5 DEF BooksFit, CountsFit
  <2>7. Reported(plans, x) \in Nat
    BY <1>1, ReportedIs
  <2> QED
    BY <2>1, <2>2, <2>3, <2>4, <2>5, <2>6, <2>7
<1>13. BooksFit(counters', gone', plans', tick')
  BY <1>1, <1>2, <1>4, <1>12 DEF BooksFit
<1>14. LockFits(mode', rowLock', tick', plans', made')
  <2>1. ASSUME mode = "persistent" PROVE DueFits(t, plans')
    <3>1. DueFits(tick[p], plans)
      BY <1>1, <1>2, <2>1 DEF LockFits
    <3>2. \A i \in 1 .. Len(t.due) :
             /\ i + 1 \in 1 .. Len(tick[p].due) /\ 1 \in 1 .. Len(tick[p].due) /\ i + 1 # 1
             /\ t.due[i] = tick[p].due[i + 1]
      BY <1>6, <1>8
    <3>3. \A i \in 1 .. Len(t.due) : t.due[i] \in DOMAIN plans \ {q}
      BY <1>8, <3>1, <3>2 DEF DueFits
    <3>4. \A i \in 1 .. Len(t.due) :
             t.due[i] \in DOMAIN plans' /\ plans'[t.due[i]].enabled /\ plans'[t.due[i]].next <= t.now
      <4> TAKE i \in 1 .. Len(t.due)
      <4>1. plans'[t.due[i]] = plans[t.due[i]]
        BY <1>4, <3>3
      <4>2. plans[t.due[i]].enabled /\ plans[t.due[i]].next <= tick[p].now
        BY <3>1, <3>2 DEF DueFits
      <4> QED
        BY <1>4, <1>6, <3>3, <4>1, <4>2
    <3>5. \A i, k \in 1 .. Len(t.due) : t.due[i] = t.due[k] => i = k
      <4> TAKE i, k \in 1 .. Len(t.due)
      <4> HAVE t.due[i] = t.due[k]
      <4>1. i + 1 = k + 1
        BY <3>1, <3>2 DEF DueFits
      <4> QED
        BY <4>1
    <3> QED
      BY <3>4, <3>5 DEF DueFits
  <2> QED
    BY <1>1, <1>2, <1>11, <2>1, LockStays
<1>15. RunsFit(mode', plans', rowLock', tick', run')
  <2>1. \A k \in DOMAIN plans : plans[k].run \in Nat /\ plans[k].run <= run
    BY <1>1 DEF RunsFit, PlansFit, PlanFits
  <2>2. run \in Nat /\ run <= run /\ tick[p].run <= run
    BY <1>1 DEF RunsFit
  <2>3. mode = "persistent" => \A k \in DOMAIN plans : plans[k].run < tick[p].run
    BY <1>1, <1>2 DEF RunsFit
  <2>4. tick[p].run \in Nat
    BY <1>5 DEF TickFits
  <2>5. RunsGrow(mode, plans, plans', tick'[p], run)
    BY <1>4, <1>6, <1>11, <2>1, <2>2, <2>3, <2>4 DEF RunsGrow
  <2> QED
    BY <1>1, <1>2, <1>4, <1>11, <2>2, <2>5, RunsGoOn
<1> QED
  BY <1>1, <1>2, <1>4, <1>11, <1>13, <1>14, <1>15, BackfillNext

LEMMA CommitKeeps ==
  ASSUME BackfillInv, NEW p \in Tickers, CommitTick(p)
  PROVE  BackfillInv'
<1>1. /\ PlansFit(plans, made) /\ TicksFit(tick) /\ BooksFit(counters, gone, plans, tick)
      /\ LockFits(mode, rowLock, tick, plans, made) /\ RunsFit(mode, plans, rowLock, tick, run)
      /\ time \in Int
  BY BackfillIs
<1>2. /\ mode' = mode /\ plans' = plans /\ counters' = counters /\ gone' = gone
      /\ made' = made /\ time' = time /\ run' = run
      /\ tick[p].at = "commit" /\ rowLock' = << >> /\ tick' = [tick EXCEPT ![p] = NoTick]
  BY DEF CommitTick
<1>3. TickFits(NoTick) /\ NoTick.at = "idle" /\ NoTick.run = 0 /\ NoTick.total = None
  BY NoTickFits DEF NoTick
<1>4. /\ TicksFit(tick') /\ tick'[p] = NoTick
      /\ \A k \in Tickers \ {p} : tick'[k] = tick[k]
  BY <1>1, <1>2, <1>3 DEF TicksFit
<1>5. BooksFit(counters', gone', plans', tick')
  <2>1. tick[p].total = None
    BY <1>1, <1>2 DEF TicksFit, TickFits
  <2>2. \A x \in Counts : Unrecorded(tick', x) = Unrecorded(tick, x)
    BY <1>1, <1>3, <1>4, <2>1, UnrecordedSame
  <2> QED
    BY <1>1, <1>2, <2>2 DEF BooksFit
<1>6. mode = "persistent" => \A k \in Tickers : tick'[k].at = "idle"
  <2>1. mode = "persistent" => \A k \in Tickers \ {p} : tick[k].at = "idle"
    BY <1>1, <1>2, Alone
  <2> QED
    BY <1>3, <1>4, <2>1
<1>7. LockFits(mode, << >>, tick', plans, made)
  BY <1>6 DEF LockFits
<1>8. RunsFit(mode, plans, << >>, tick', run)
  <2>1. \A k \in Tickers : tick'[k].run <= run
    BY <1>1, <1>3, <1>4 DEF RunsFit
  <2> QED
    BY <1>1, <1>6, <2>1 DEF RunsFit
<1> QED
  BY <1>1, <1>2, <1>4, <1>5, <1>7, <1>8, BackfillNext

\* What is restored had no tick under way, and balanced.
LEMMA PlanRollBackKeeps ==
  ASSUME BackfillInv, NEW p \in Tickers, TickRollsBack(p)
  PROVE  BackfillInv'
<1>1. /\ PlansFit(plans, made) /\ TicksFit(tick) /\ BooksFit(counters, gone, plans, tick)
      /\ LockFits(mode, rowLock, tick, plans, made) /\ RunsFit(mode, plans, rowLock, tick, run)
      /\ time \in Int
  BY BackfillIs
<1>2. /\ mode' = mode /\ made' = made /\ time' = time /\ run' = run
      /\ plans' = rowLock[2][1] /\ counters' = rowLock[2][4] /\ gone' = rowLock[2][5]
      /\ rowLock # << >> /\ rowLock[1] = p
      /\ rowLock' = << >> /\ tick' = [tick EXCEPT ![p] = NoTick]
  BY DEF TickRollsBack, restoreDurableState
<1>3. TickFits(NoTick) /\ NoTick.at = "idle" /\ NoTick.run = 0
  BY NoTickFits
<1>4. /\ TicksFit(tick') /\ tick'[p] = NoTick
      /\ \A k \in Tickers \ {p} : tick'[k] = tick[k]
  BY <1>1, <1>2, <1>3 DEF TicksFit
<1>5. \A k \in Tickers : tick'[k].at = "idle"
  BY <1>1, <1>2, <1>3, <1>4 DEF LockFits
<1>6. /\ PlansFit(plans', made) /\ CountsFit(counters') /\ CountsFit(gone')
      /\ \A x \in Counts : counters'[x] = gone'[x] + Reported(plans', x)
  BY <1>1, <1>2 DEF LockFits, FoundFits
<1>7. BooksFit(counters', gone', plans', tick')
  <2>1. ASSUME NEW x \in Counts
        PROVE  counters'[x] + Unrecorded(tick', x) = gone'[x] + Reported(plans', x)
    <3>1. Unrecorded(tick', x) = 0
      BY <1>4, <1>5, AllRecorded
    <3>2. counters'[x] \in Nat /\ counters'[x] = gone'[x] + Reported(plans', x)
      BY <1>6 DEF CountsFit
    <3> QED
      BY <3>1, <3>2
  <2> QED
    BY <1>6, <2>1 DEF BooksFit
<1>8. LockFits(mode, << >>, tick', plans', made)
  BY <1>5 DEF LockFits
<1>9. RunsFit(mode, plans', << >>, tick', run)
  <2>1. \A k \in Tickers : tick'[k].run <= run
    BY <1>1, <1>3, <1>4 DEF RunsFit
  <2>2. run \in Nat /\ \A q \in DOMAIN plans' : plans'[q].run <= run
    BY <1>1, <1>2 DEF RunsFit
  <2> QED
    BY <1>5, <2>1, <2>2 DEF RunsFit
<1> QED
  BY <1>1, <1>2, <1>4, <1>6, <1>7, <1>8, <1>9, BackfillNext

LEMMA StartTickKeeps ==
  ASSUME BackfillInv, NEW p \in Tickers, NEW now \in Recent, StartTick(p, now)
  PROVE  BackfillInv'
<1> DEFINE t == [NoTick EXCEPT !.at = "plan", !.now = now, !.due = InOrder(Due(now))]
<1>1. /\ PlansFit(plans, made) /\ TicksFit(tick) /\ BooksFit(counters, gone, plans, tick)
      /\ LockFits(mode, rowLock, tick, plans, made) /\ RunsFit(mode, plans, rowLock, tick, run)
      /\ time \in Int
  BY BackfillIs
<1>2. /\ mode' = mode /\ plans' = plans /\ counters' = counters /\ gone' = gone
      /\ made' = made /\ time' = time /\ run' = run
      /\ tick[p].at = "idle" /\ tick' = [tick EXCEPT ![p] = t]
  BY Zenon DEF StartTick
<1>3. IF mode = "persistent" THEN rowLock = << >> /\ rowLock' = <<p, state>> ELSE rowLock' = rowLock
  BY Zenon DEF StartTick, TakesLock, Free
<1>4. /\ DOMAIN t = DOMAIN NoTick
      /\ t.at = "plan" /\ t.run = 0 /\ t.part = None /\ t.total = None /\ t.left = << >>
      /\ t.due = InOrder(Due(now)) /\ t.now = now
  BY DEF NoTick
<1> HIDE DEF t
<1>5. /\ t.due \in Seq(Due(now))
      /\ \A i, k \in 1 .. Len(t.due) : t.due[i] = t.due[k] => i = k
  <2>1. Due(now) \subseteq DOMAIN plans
    BY DEF Due
  <2> QED
    BY <1>1, <1>4, <2>1, InOrderLists
<1>6. \A i \in 1 .. Len(t.due) : t.due[i] \in Due(now)
  BY <1>5
<1>7. TickFits(t)
  <2>1. Due(now) \subseteq PlanIds
    BY <1>1 DEF Due, PlansFit
  <2>2. t.due \in Seq(PlanIds)
    BY <1>5, <2>1
  <2>3. now \in Int
    BY DEF Recent
  <2>4. TickFits(NoTick)
    BY NoTickFits
  <2>5. CountsFit(None) /\ << >> \in Seq(DOMAIN Jobs) /\ 0 \in Nat
    BY NoneFits
  <2> QED
    BY <1>4, <2>2, <2>3, <2>4, <2>5 DEF TickFits
<1>8. /\ TicksFit(tick') /\ tick'[p] = t
      /\ \A k \in Tickers \ {p} : tick'[k] = tick[k]
  BY <1>1, <1>2, <1>7 DEF TicksFit
<1>9. BooksFit(counters', gone', plans', tick')
  <2>1. tick[p].total = None
    BY <1>1, <1>2 DEF TicksFit, TickFits
  <2>2. \A x \in Counts : Unrecorded(tick', x) = Unrecorded(tick, x)
    BY <1>1, <1>4, <1>8, <2>1, UnrecordedSame
  <2> QED
    BY <1>1, <1>2, <2>2 DEF BooksFit
<1>10. DueFits(t, plans)
  BY <1>4, <1>5, <1>6 DEF DueFits, Due
<1>11. \A k \in Tickers : tick'[k].run <= run /\ run \in Nat
  BY <1>1, <1>4, <1>8 DEF RunsFit
<1>12. CASE mode = "persistent"
  <2>1. rowLock = << >> /\ rowLock' = <<p, state>> /\ rowLock' # << >>
    BY <1>3, <1>12
  <2>2. \A k \in Tickers : tick[k].at = "idle"
    BY <1>1, <1>12, <2>1 DEF LockFits
  <2>3. rowLock'[1] = p /\ rowLock'[2] = state
        /\ state[1] = plans /\ state[4] = counters /\ state[5] = gone
    BY <2>1 DEF state
  <2>4. FoundFits(state, made)
    <3>1. ASSUME NEW x \in Counts PROVE counters[x] = gone[x] + Reported(plans, x)
      <4>1. Unrecorded(tick, x) = 0
        BY <1>1, <2>2, AllRecorded
      <4>2. counters[x] \in Nat /\ counters[x] + Unrecorded(tick, x) = gone[x] + Reported(plans, x)
        BY <1>1 DEF BooksFit, CountsFit
      <4> QED
        BY <4>1, <4>2
    <3> QED
      BY <1>1, <2>3, <3>1 DEF FoundFits, BooksFit
  <2>5. LockFits(mode', rowLock', tick', plans', made')
    <3>1. \A k \in Tickers : k # p => tick'[k].at = "idle"
      BY <1>8, <2>2
    <3>2. \A k \in Tickers : tick'[k].at \in {"plan", "target"} => DueFits(tick'[k], plans)
      BY <1>8, <1>10, <3>1
    <3> QED
      BY <1>2, <1>12, <2>1, <2>3, <2>4, <3>1, <3>2 DEF LockFits
  <2>6. RunsFit(mode', plans', rowLock', tick', run')
    <3>1. \A k \in Tickers : tick'[k].at # "target"
      BY <1>4, <1>8, <2>2
    <3>2. \A q \in DOMAIN plans : plans[q].run <= run /\ plans[q].run <= plans[q].run
      BY <1>1 DEF RunsFit, PlansFit, PlanFits
    <3> QED
      BY <1>1, <1>2, <1>11, <2>3, <3>1, <3>2 DEF RunsFit
  <2> QED
    BY <1>1, <1>2, <1>8, <1>9, <2>5, <2>6, BackfillNext
<1>13. CASE mode # "persistent"
  <2>1. rowLock = << >> /\ rowLock' = << >>
    BY <1>1, <1>3, <1>13 DEF LockFits
  <2>2. LockFits(mode', rowLock', tick', plans', made')
    BY <1>2, <1>13, <2>1 DEF LockFits
  <2>3. RunsFit(mode', plans', rowLock', tick', run')
    BY <1>1, <1>2, <1>11, <1>13, <2>1 DEF RunsFit
  <2> QED
    BY <1>1, <1>2, <1>8, <1>9, <2>2, <2>3, BackfillNext
<1> QED
  BY <1>12, <1>13

LEMMA BackfillStarts ==
  ASSUME PlansInit
  PROVE  BackfillInv
<1>1. /\ made = Existing /\ plans = [q \in 1 .. made |-> newBackfillPlan(1, TRUE)]
      /\ counters = None /\ gone = None /\ rowLock = << >> /\ run = 0 /\ time = 1
      /\ tick = [p \in Tickers |-> NoTick]
  BY DEF PlansInit
<1>2. \A q \in DOMAIN plans :
         PlanFits(plans[q]) /\ plans[q].run = 0 /\ plans[q].totals = None
  <2> DEFINE plan == newBackfillPlan(1, TRUE)
  <2>1. 1 \in Int
    OBVIOUS
  <2>2. PlanFits(plan) /\ plan.run = 0 /\ plan.totals = None
    BY <2>1, Zenon, NewPlanFits
  <2>3. \A q \in DOMAIN plans : plans[q] = plan
    BY <1>1
  <2> HIDE DEF plan
  <2> QED
    BY <2>2, <2>3
<1>3. PlansFit(plans, made)
  BY <1>1, <1>2, BackfillAssumption DEF PlansFit
<1>4. TicksFit(tick) /\ \A p \in Tickers : tick[p].at = "idle" /\ tick[p].run = 0
  BY <1>1, NoTickFits DEF TicksFit
<1>5. BooksFit(counters, gone, plans, tick)
  <2>1. ASSUME NEW x \in Counts
        PROVE  counters[x] + Unrecorded(tick, x) = gone[x] + Reported(plans, x)
    <3> DEFINE f == [q \in DOMAIN plans |-> plans[q].totals[x]]
    <3>1. \A q \in DOMAIN f : f[q] = 0
      BY <1>2, NoneFits
    <3>2. Reported(plans, x) = SumOf(f)
      BY DEF Reported
    <3> HIDE DEF f
    <3>3. Reported(plans, x) = 0
      BY <3>1, <3>2, SumZero
    <3>4. Unrecorded(tick, x) = 0
      BY <1>4, AllRecorded
    <3>5. counters[x] = 0 /\ gone[x] = 0
      BY <1>1, NoneFits
    <3> QED
      BY <3>3, <3>4, <3>5
  <2> QED
    BY <1>1, <2>1, NoneFits DEF BooksFit
<1>6. LockFits(mode, rowLock, tick, plans, made)
  BY <1>1, <1>4 DEF LockFits
<1>7. RunsFit(mode, plans, rowLock, tick, run)
  <2>1. run = 0 /\ rowLock = << >>
    BY <1>1
  <2>2. \A q \in DOMAIN plans : plans[q].run <= run
    BY <1>2, <2>1
  <2>3. \A p \in Tickers : tick[p].run <= run /\ tick[p].at # "target"
    BY <1>1, <1>4
  <2> QED
    BY <2>1, <2>2, <2>3 DEF RunsFit
<1>8. time \in Int
  BY <1>1
<1> QED
  BY <1>3, <1>4, <1>5, <1>6, <1>7, <1>8 DEF BackfillInv, BackfillFits

LEMMA TickerKeeps ==
  ASSUME BackfillInv, NEW p \in Tickers,
         (\E now \in Recent : StartTick(p, now)) \/ Step(p) \/ TickRollsBack(p)
  PROVE  BackfillInv'
<1>1. ASSUME NEW now \in Recent, StartTick(p, now) PROVE BackfillInv'
  BY <1>1, StartTickKeeps
<1>2. ASSUME Step(p) PROVE BackfillInv'
  BY <1>2, StartPlanKeeps, EnqueueKeeps, FinishKeeps, RecordKeeps, CommitKeeps DEF Step
<1>3. ASSUME TickRollsBack(p) PROVE BackfillInv'
  BY <1>3, PlanRollBackKeeps
<1> QED
  BY <1>1, <1>2, <1>3

LEMMA BackfillSteps ==
  ASSUME BackfillInv, [PlansNext]_planVars
  PROVE  BackfillInv'
<1>1. ASSUME NEW p \in Tickers,
             (\E now \in Recent : StartTick(p, now)) \/ Step(p) \/ TickRollsBack(p)
      PROVE  BackfillInv'
  BY <1>1, TickerKeeps
<1>2. ASSUME NEW q \in PlanIds, NEW on \in BOOLEAN, CreateBackfillPlan(q, time, on)
      PROVE  BackfillInv'
  BY <1>2, CreateKeeps
<1>3. ASSUME NEW q \in DOMAIN plans,
             \/ PauseBackfillPlan(q) \/ DeleteBackfillPlan(q)
             \/ \E now \in Recent : ResumeBackfillPlan(q, now)
      PROVE  BackfillInv'
  BY <1>3, PlanPauseKeeps, DeleteKeeps, PlanResumeKeeps
<1>4. ASSUME \/ \E q \in DOMAIN plans : CancelBackfillPlanJobs(q)
             \/ \E t \in UserTargets : UserEnqueuesSync(t, time)
             \/ \E k \in DOMAIN active : JobEnds(k)
             \/ Tock \/ UNCHANGED planVars
      PROVE  BackfillInv'
  BY <1>4, QuietStepsKeep
<1> QED
  BY <1>1, <1>2, <1>3, <1>4 DEF PlansNext

\* The invariant of the backfill plans: the books balance, counting what ticks
\* under way have yet to record; a plan that ran and was not resumed since waits
\* for the slot after its run; what a persistent tick has listed exists and is
\* enabled; and what a rollback would restore balances too.
THEOREM PlansKeepBooks == PlansSpec => []BackfillInv
<1>1. PlansInit => BackfillInv
  BY BackfillStarts
<1>2. BackfillInv /\ [PlansNext]_planVars => BackfillInv'
  BY BackfillSteps
<1> QED
  BY <1>1, <1>2, PTL DEF PlansSpec

\* The scheduler's tick counters are what its plans report (tick.go, backfill.go,
\* durable.go), however many replicas tick and whatever fails, is deleted or is
\* rolled back.
THEOREM PlansSumUp == PlansSpec => []CountersAgree
<1>1. ASSUME BackfillInv PROVE CountersAgree
  <2> SUFFICES ASSUME \A p \in Tickers : tick[p].at = "idle", NEW x \in DOMAIN counters
               PROVE  counters[x] = Total(x)
    BY DEF CountersAgree
  <2>1. TicksFit(tick) /\ BooksFit(counters, gone, plans, tick)
    BY <1>1, BackfillIs
  <2>2. x \in Counts /\ counters[x] \in Nat
    BY <2>1 DEF BooksFit, CountsFit
  <2>3. counters[x] + Unrecorded(tick, x) = gone[x] + Reported(plans, x)
    BY <2>1, <2>2 DEF BooksFit
  <2>4. Unrecorded(tick, x) = 0
    BY <2>1, <2>2, AllRecorded
  <2>5. Total(x) = gone[x] + Reported(plans, x)
    BY DEF Total, Reported
  <2> QED
    BY <2>2, <2>3, <2>4, <2>5
<1> QED
  BY <1>1, PlansKeepBooks, PTL

\* A pause or a deletion that was answered stops a plan at once, whichever
\* replica is ticking (tick.go, backfill.go under withDurableMutation).
THEOREM PlansFallSilent == PlansSpec => PausedPlansAreSilent
<1>1. ASSUME BackfillInv
      PROVE  \A p \in Tickers :
                mode = "persistent" /\ tick[p].at = "target" /\ tick[p].left # tick'[p].left =>
                   Head(tick[p].due) \in DOMAIN plans /\ plans[Head(tick[p].due)].enabled
  <2> TAKE p \in Tickers
  <2> HAVE mode = "persistent" /\ tick[p].at = "target" /\ tick[p].left # tick'[p].left
  <2>1. TicksFit(tick) /\ LockFits(mode, rowLock, tick, plans, made)
    BY <1>1, BackfillIs
  <2>2. DueFits(tick[p], plans)
    BY <2>1 DEF LockFits
  <2>3. tick[p].due \in Seq(PlanIds) /\ tick[p].due # << >>
    BY <2>1 DEF TicksFit, TickFits
  <2>4. 1 \in 1 .. Len(tick[p].due) /\ Head(tick[p].due) = tick[p].due[1]
    BY <2>3
  <2> QED
    BY <2>2, <2>4 DEF DueFits
<1>2. BackfillInv =>
         [\A p \in Tickers :
            mode = "persistent" /\ tick[p].at = "target" /\ tick[p].left # tick'[p].left =>
              /\ Head(tick[p].due) \in DOMAIN plans
              /\ plans[Head(tick[p].due)].enabled]_planVars
  BY <1>1
<1> QED
  BY <1>2, PlansKeepBooks, PTL DEF PausedPlansAreSilent

\* Only the end of a run numbers its plan anew.
LEMMA OnlyRunsRise ==
  ASSUME BackfillInv, [PlansNext]_planVars,
         NEW q \in DOMAIN plans \cap DOMAIN plans', plans'[q].run > plans[q].run
  PROVE  \E p \in Tickers : FinishPlan(p) /\ q = Head(tick[p].due)
<1>1. PlansFit(plans, made) /\ TicksFit(tick)
      /\ LockFits(mode, rowLock, tick, plans, made) /\ RunsFit(mode, plans, rowLock, tick, run)
  BY BackfillIs
<1>2. plans[q].run \in Nat /\ plans[q] # plans'[q]
  BY <1>1 DEF PlansFit, PlanFits
<1>3. plans'[q].run # plans[q].run
  BY <1>2
<1>4. ASSUME NEW p \in Tickers, FinishPlan(p)
      PROVE  q = Head(tick[p].due)
  BY <1>2, <1>4, FinishedBooks
<1>5. ASSUME NEW p \in Tickers, TickRollsBack(p) PROVE FALSE
  <2>1. plans' = rowLock[2][1] /\ rowLock # << >>
    BY <1>5 DEF TickRollsBack, restoreDurableState
  <2>2. plans'[q].run \in Nat
    BY <1>1, <2>1 DEF LockFits, FoundFits, PlansFit, PlanFits
  <2>3. plans'[q].run <= plans[q].run
    BY <1>1, <2>1 DEF RunsFit
  <2> QED
    BY <1>2, <2>2, <2>3
<1>6. ASSUME NEW p \in Tickers, (\E now \in Recent : StartTick(p, now)) \/ StartPlan(p)
             \/ EnqueueTarget(p) \/ recordTick(p) \/ CommitTick(p)
      PROVE  FALSE
  <2>1. plans' = plans
    BY <1>6, Zenon DEF StartTick, StartPlan, EnqueueTarget, recordTick, CommitTick
  <2> QED
    BY <1>2, <2>1
<1>7. ASSUME NEW k \in PlanIds, NEW on \in BOOLEAN, CreateBackfillPlan(k, time, on) PROVE FALSE
  <2>1. k = made + 1 /\ plans' = With(plans, k, newBackfillPlan(time, on))
    BY <1>7, Zenon DEF CreateBackfillPlan
  <2>2. k \notin DOMAIN plans
    BY <1>1, <2>1 DEF PlansFit
  <2>3. plans'[q] = plans[q]
    BY <2>1, <2>2 DEF With
  <2> QED
    BY <1>2, <2>3
<1>8. ASSUME NEW k \in DOMAIN plans, PauseBackfillPlan(k) PROVE FALSE
  <2>1. plans' = [plans EXCEPT ![k] = [plans[k] EXCEPT !.enabled = FALSE, !.next = 0]]
    BY <1>8, Zenon DEF PauseBackfillPlan
  <2>2. plans'[q].run = plans[q].run
    BY <1>1, <2>1 DEF PlansFit, PlanFits
  <2> QED
    BY <1>3, <2>2
<1>9. ASSUME NEW k \in DOMAIN plans, NEW now \in Recent, ResumeBackfillPlan(k, now) PROVE FALSE
  <2>1. plans' = [plans EXCEPT ![k] = Resumed(plans[k], now)]
    BY <1>9, Zenon DEF ResumeBackfillPlan
  <2>2. plans'[q].run = plans[q].run
    BY <1>1, <2>1 DEF PlansFit, PlanFits, Resumed
  <2> QED
    BY <1>3, <2>2
<1>10. ASSUME NEW k \in DOMAIN plans, DeleteBackfillPlan(k) PROVE FALSE
  <2>1. plans' = Without(plans, {k})
    BY <1>10, Zenon DEF DeleteBackfillPlan
  <2> QED
    BY <1>2, <2>1 DEF Without
<1>11. ASSUME \/ \E k \in DOMAIN plans : CancelBackfillPlanJobs(k)
              \/ \E t \in UserTargets : UserEnqueuesSync(t, time)
              \/ \E k \in DOMAIN active : JobEnds(k)
              \/ Tock \/ UNCHANGED planVars
       PROVE  FALSE
  <2>1. plans' = plans
    BY <1>11, Zenon DEF CancelBackfillPlanJobs, UserEnqueuesSync, JobEnds, Tock, planVars
  <2> QED
    BY <1>2, <2>1
<1>12. PICK p \in Tickers : FinishPlan(p)
  BY <1>5, <1>6, <1>7, <1>8, <1>9, <1>10, <1>11 DEF PlansNext, Step
<1> QED
  BY <1>4, <1>12

\* A plan that was not resumed does not run again before the slot after its run
\* (tick.go's dueBackfillPlans and finishRun), however many replicas tick, with
\* however old a clock, and however many slots were missed.
THEOREM PlansRunOncePerSlot == PlansSpec => SlotRunsOnce
<1>1. ASSUME BackfillInv, [PlansNext]_planVars
      PROVE  \A q \in DOMAIN plans \cap DOMAIN plans' :
                /\ mode = "persistent" /\ plans[q].last # 0 /\ ~plans[q].resumed
                /\ plans'[q].run > plans[q].run
                => plans'[q].last >= NextSlot(plans[q].last)
  <2> SUFFICES ASSUME NEW q \in DOMAIN plans \cap DOMAIN plans',
                      mode = "persistent", plans[q].last # 0, ~plans[q].resumed,
                      plans'[q].run > plans[q].run
               PROVE  plans'[q].last >= NextSlot(plans[q].last)
    OBVIOUS
  <2>1. PICK p \in Tickers : FinishPlan(p) /\ q = Head(tick[p].due)
    BY <1>1, OnlyRunsRise
  <2>2. PlansFit(plans, made) /\ TicksFit(tick) /\ LockFits(mode, rowLock, tick, plans, made)
    BY <1>1, BackfillIs
  <2>3. tick[p].at = "target"
    BY <2>1 DEF FinishPlan
  <2>4. DueFits(tick[p], plans)
    BY <2>2, <2>3 DEF LockFits
  <2>5. tick[p].due \in Seq(PlanIds) /\ tick[p].due # << >> /\ tick[p].now \in Int
    BY <2>2, <2>3 DEF TicksFit, TickFits
  <2>6. 1 \in 1 .. Len(tick[p].due) /\ q = tick[p].due[1]
    BY <2>1, <2>5
  <2>7. plans[q].enabled /\ plans[q].next <= tick[p].now
    BY <2>4, <2>6 DEF DueFits
  <2>8. plans[q].next = NextSlot(plans[q].last) /\ plans[q].next \in Int
    BY <2>2, <2>7 DEF PlansFit, PlanFits
  <2>9. plans'[q].last = tick[p].now
    BY <1>1, <2>1, FinishedBooks
  <2> QED
    BY <2>5, <2>7, <2>8, <2>9
<1>2. BackfillInv /\ [PlansNext]_planVars =>
        [\A q \in DOMAIN plans \cap DOMAIN plans' :
            /\ mode = "persistent" /\ plans[q].last # 0 /\ ~plans[q].resumed
            /\ plans'[q].run > plans[q].run
            => plans'[q].last >= NextSlot(plans[q].last)]_planVars
  BY <1>1
<1> QED
  BY <1>2, PlansKeepBooks, PTL DEF PlansSpec, SlotRunsOnce
=============================================================================
