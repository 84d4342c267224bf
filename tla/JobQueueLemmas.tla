--------------------------- MODULE JobQueueLemmas ---------------------------
(***************************************************************************)
(* What the operations of JobQueue do to a queue, for every setting of the *)
(* constants and any number of jobs.  Every operation is one of three      *)
(* kinds of step - it rewrites jobs in place, appends a job under a free   *)
(* key, or dead-letters one job - possibly with a record stamped.  The     *)
(* invariants are shown for the kinds, and each operation is shown to be   *)
(* of its kind.                                                            *)
(***************************************************************************)
EXTENDS JobQueue, TLAPS, FiniteSetTheorems

Finished == {"succeeded", "dead_letter", "canceled"}

\* The inductive invariant.  No operation sets the statuses "running" and
\* "failed": without that, resuming a failed job could clash with another.
QueueInv(q) ==
  /\ q \in JobQueueState
  /\ \A j \in DOMAIN q.jobs : q.jobs[j].status \notin {"running", "failed"}
  /\ UniqueActiveKeyIn(q)
  /\ AttemptBudgetIn(q)
  /\ DeadLetterLedgerIn(q)

\* Job a becomes job b without being dead-lettered.
JobStep(a, b) ==
  /\ b \in QueueJob
  /\ b.key = a.key
  /\ b.status \notin {"running", "failed"}
  /\ a.attempts <= b.attempts
  /\ a.status \in Finished => b.status = a.status
  /\ b.status = "dead_letter" => a.status = "dead_letter"
  /\ b.attempts = MaxAttempts => a.attempts = MaxAttempts

\* Jobs are rewritten in place; nothing is appended and no job dead-lettered.
Rewrites(q, p) ==
  /\ p \in JobQueueState
  /\ DOMAIN p.jobs = DOMAIN q.jobs
  /\ \A j \in DOMAIN q.jobs : JobStep(q.jobs[j], p.jobs[j])
  /\ p.deadLetters = q.deadLetters
  /\ p.failureCount = q.failureCount

\* What every operation is shown to do.
Keeps(q, p) ==
  /\ QueueInv(p)
  /\ HistoryKept(q, p)
  /\ LeaseBoundIn(q) => LeaseBoundIn(p)

----------------------------------------------------------------------------
(* Jobs.                                                                   *)

\* A job of a well-typed queue is a QueueJob with its fields.
LEMMA JobAt ==
  ASSUME NEW q \in JobQueueState, NEW j \in DOMAIN q.jobs
  PROVE  /\ q.jobs[j] \in QueueJob
         /\ j \in Nat \ {0}
         /\ q.jobs \in Seq(QueueJob)
  BY DEF JobQueueState

\* Changing the status of a job gives a job, its other fields unchanged.
LEMMA WithStatusJob ==
  ASSUME NEW job \in QueueJob, NEW s \in SyncJobStatus
  PROVE  /\ WithStatus(job, s) \in QueueJob
         /\ WithStatus(job, s).status = s
         /\ WithStatus(job, s).key = job.key
         /\ WithStatus(job, s).corr = job.corr
         /\ WithStatus(job, s).attempts = job.attempts
         /\ WithStatus(job, s).delay = job.delay
         /\ WithStatus(job, s).lease = job.lease
  BY DEF WithStatus, QueueJob

\* Changing NotBefore gives a job, its other fields unchanged.
LEMMA WithDelayJob ==
  ASSUME NEW job \in QueueJob, NEW t \in Int
  PROVE  /\ WithDelay(job, t) \in QueueJob
         /\ WithDelay(job, t).status = job.status
         /\ WithDelay(job, t).key = job.key
         /\ WithDelay(job, t).corr = job.corr
         /\ WithDelay(job, t).attempts = job.attempts
         /\ WithDelay(job, t).delay = t
         /\ WithDelay(job, t).lease = job.lease
  BY DEF WithDelay, QueueJob

\* Changing LeaseExpiresAt gives a job, its other fields unchanged.
LEMMA WithLeaseJob ==
  ASSUME NEW job \in QueueJob, NEW t \in Int
  PROVE  /\ WithLease(job, t) \in QueueJob
         /\ WithLease(job, t).status = job.status
         /\ WithLease(job, t).key = job.key
         /\ WithLease(job, t).corr = job.corr
         /\ WithLease(job, t).attempts = job.attempts
         /\ WithLease(job, t).delay = job.delay
         /\ WithLease(job, t).lease = t
  BY DEF WithLease, QueueJob

\* A clipped time is a time.
LEMMA ClipInt ==
  ASSUME NEW t \in Int
  PROVE  Clip(t) \in Int
  BY SettingsAssumption DEF Clip

\* A job stripped of its lease under a new status is a job.
LEMMA SettledJob ==
  ASSUME NEW job \in QueueJob, NEW s \in SyncJobStatus
  PROVE  /\ Settled(job, s) \in QueueJob
         /\ Settled(job, s).status = s
         /\ Settled(job, s).key = job.key
         /\ Settled(job, s).corr = job.corr
         /\ Settled(job, s).attempts = job.attempts
  BY WithStatusJob, WithLeaseJob DEF Settled

\* A failed job is a job with the attempts it was given.
LEMMA FailedJob ==
  ASSUME NEW job \in QueueJob, NEW s \in SyncJobStatus, NEW n \in 0 .. MaxAttempts
  PROVE  /\ Failed(job, s, n) \in QueueJob
         /\ Failed(job, s, n).status = s
         /\ Failed(job, s, n).key = job.key
         /\ Failed(job, s, n).corr = job.corr
         /\ Failed(job, s, n).attempts = n
  <1>1. Settled(job, s) \in QueueJob
    BY SettledJob
  <1> QED
    BY <1>1, SettledJob DEF Failed, QueueJob

\* A leased job is a job; leasing changes neither key nor attempts.
LEMMA LeasedJob ==
  ASSUME NEW job \in QueueJob, NEW lag \in 0 .. MaxLag
  PROVE  /\ Leased(job, lag) \in QueueJob
         /\ Leased(job, lag).status = "leased"
         /\ Leased(job, lag).key = job.key
         /\ Leased(job, lag).corr = job.corr
         /\ Leased(job, lag).attempts = job.attempts
  <1>1. Clip(LeaseTTL - lag) \in Int
    BY SettingsAssumption, ClipInt
  <1>2. "leased" \in SyncJobStatus
    BY DEF SyncJobStatus
  <1> DEFINE held == WithLease(job, Clip(LeaseTTL - lag))
  <1>3. /\ held \in QueueJob /\ held.key = job.key
        /\ held.corr = job.corr /\ held.attempts = job.attempts
    BY <1>1, WithLeaseJob
  <1>4. Leased(job, lag) = WithStatus(held, "leased")
    BY DEF Leased
  <1> HIDE DEF held
  <1> QED
    BY <1>2, <1>3, <1>4, WithStatusJob

\* A job one time unit later is a job that only its times tell apart.
LEMMA OlderJob ==
  ASSUME NEW job \in QueueJob
  PROVE  /\ Older(job) \in QueueJob
         /\ Older(job).status = job.status
         /\ Older(job).key = job.key
         /\ Older(job).corr = job.corr
         /\ Older(job).attempts = job.attempts
  <1>1. Clip(job.delay - 1) \in Int /\ Clip(job.lease - 1) \in Int
    BY ClipInt DEF QueueJob
  <1> DEFINE base == IF job.status = "leased"
                     THEN WithLease(job, Clip(job.lease - 1)) ELSE job
  <1>2. /\ base \in QueueJob
        /\ base.status = job.status
        /\ base.key = job.key
        /\ base.corr = job.corr
        /\ base.attempts = job.attempts
    BY <1>1, WithLeaseJob
  <1>3. Older(job) = WithDelay(base, Clip(job.delay - 1))
    BY DEF Older
  <1> HIDE DEF base
  <1> DEFINE t == Clip(job.delay - 1)
  <1>4. t \in Int
    BY <1>1
  <1> HIDE DEF t
  <1>5. /\ WithDelay(base, t) \in QueueJob
        /\ WithDelay(base, t).status = base.status
        /\ WithDelay(base, t).key = base.key
        /\ WithDelay(base, t).corr = base.corr
        /\ WithDelay(base, t).attempts = base.attempts
    BY <1>2, <1>4, WithDelayJob
  <1>6. Older(job) = WithDelay(base, t)
    BY <1>3 DEF t
  <1> QED
    BY <1>2, <1>5, <1>6

----------------------------------------------------------------------------
(* Queues.                                                                 *)

\* Replacing the jobs of a queue by jobs gives a queue.
LEMMA SetJobsQueue ==
  ASSUME NEW q \in JobQueueState, NEW jobs \in Seq(QueueJob)
  PROVE  /\ SetJobs(q, jobs) \in JobQueueState
         /\ SetJobs(q, jobs).jobs = jobs
         /\ SetJobs(q, jobs).deadLetters = q.deadLetters
         /\ SetJobs(q, jobs).retryCount = q.retryCount
         /\ SetJobs(q, jobs).failureCount = q.failureCount
         /\ SetJobs(q, jobs).replayCount = q.replayCount
  BY DEF SetJobs, JobQueueState

\* A function over the jobs of a queue, of jobs, is the jobs of a queue.
LEMMA MapJobs ==
  ASSUME NEW q \in JobQueueState, NEW f,
         f = [j \in DOMAIN q.jobs |-> f[j]],
         \A j \in DOMAIN q.jobs : f[j] \in QueueJob
  PROVE  f \in Seq(QueueJob) /\ DOMAIN f = DOMAIN q.jobs
  BY DEF JobQueueState

\* Rewriting every job by a JobStep rewrites the queue.
LEMMA MapRewrites ==
  ASSUME NEW q \in JobQueueState, NEW f,
         f = [j \in DOMAIN q.jobs |-> f[j]],
         \A j \in DOMAIN q.jobs : JobStep(q.jobs[j], f[j])
  PROVE  Rewrites(q, SetJobs(q, f))
  <1>1. f \in Seq(QueueJob) /\ DOMAIN f = DOMAIN q.jobs
    BY MapJobs DEF JobStep
  <1> QED
    BY <1>1, SetJobsQueue DEF Rewrites

\* Rewriting one job by a JobStep, the others being live, does too.
LEMMA SetJobRewrites ==
  ASSUME NEW q, QueueInv(q), NEW i \in DOMAIN q.jobs, NEW job,
         JobStep(q.jobs[i], job)
  PROVE  /\ Rewrites(q, SetJob(q, i, job))
         /\ SetJob(q, i, job).jobs = [q.jobs EXCEPT ![i] = job]
  <1> DEFINE f == [q.jobs EXCEPT ![i] = job]
  <1>0. q \in JobQueueState
    BY DEF QueueInv
  <1>1. f = [j \in DOMAIN q.jobs |-> f[j]]
    BY <1>0 DEF JobQueueState
  <1>2. ASSUME NEW j \in DOMAIN q.jobs
        PROVE  JobStep(q.jobs[j], f[j])
    <2>1. CASE j = i
      BY <2>1, <1>0, JobAt
    <2>2. CASE j # i
      <3>1. f[j] = q.jobs[j] /\ q.jobs[j] \in QueueJob
        BY <2>2, <1>0, JobAt DEF JobQueueState
      <3> QED
        BY <3>1 DEF JobStep, QueueInv, QueueJob
    <2> QED
      BY <2>1, <2>2
  <1>3. f \in Seq(QueueJob)
    BY <1>0, <1>1, <1>2, MapJobs DEF JobStep
  <1>4. SetJob(q, i, job) = SetJobs(q, f)
    BY DEF SetJob
  <1> HIDE DEF f
  <1>5. Rewrites(q, SetJobs(q, f))
    BY <1>0, <1>1, <1>2, MapRewrites
  <1>6. SetJobs(q, f).jobs = f
    BY <1>0, <1>3, SetJobsQueue
  <1> QED
    BY <1>4, <1>5, <1>6 DEF f

\* Rewriting the jobs keeps the type, the keys, the budget, the ledger and the
\* history.
LEMMA RewritesInv ==
  ASSUME NEW q, NEW p, QueueInv(q), Rewrites(q, p)
  PROVE  QueueInv(p) /\ HistoryKept(q, p)
  <1>1. \A j \in DOMAIN q.jobs : q.jobs[j] \in QueueJob
    BY JobAt DEF QueueInv
  <1>2. p \in JobQueueState /\ \A j \in DOMAIN p.jobs : p.jobs[j].status \notin {"running", "failed"}
    BY DEF Rewrites, JobStep
  <1>3. UniqueActiveKeyIn(p)
    BY <1>1 DEF QueueInv, UniqueActiveKeyIn, Rewrites, JobStep, Unfinished, Finished, QueueJob, SyncJobStatus
  <1>4. AttemptBudgetIn(p)
    BY <1>1 DEF QueueInv, AttemptBudgetIn, Rewrites, JobStep, Finished, QueueJob
  <1>5. DeadLetterLedgerIn(p)
    BY <1>1 DEF QueueInv, DeadLetterLedgerIn, Rewrites, JobStep, Finished
  <1>6. HistoryKept(q, p)
    BY <1>1 DEF HistoryKept, Rewrites, JobStep, Finished
  <1> QED
    BY <1>2, <1>3, <1>4, <1>5, <1>6 DEF QueueInv

\* Appending a pending job under a free key keeps the invariant.
LEMMA AppendInv ==
  ASSUME NEW q, NEW p, QueueInv(q), NEW job \in QueueJob,
         p \in JobQueueState, p.jobs = Append(q.jobs, job),
         p.deadLetters = q.deadLetters, p.failureCount = q.failureCount,
         job.status = "pending", job.attempts = 0,
         ~Duplicate(q, job.key)
  PROVE  QueueInv(p) /\ HistoryKept(q, p)
  <1> DEFINE n == Len(q.jobs)
  <1>1. /\ q.jobs \in Seq(QueueJob)
        /\ n \in Nat
        /\ DOMAIN q.jobs = 1 .. n
        /\ DOMAIN p.jobs = 1 .. n + 1
        /\ p.jobs[n + 1] = job
        /\ \A j \in 1 .. n : p.jobs[j] = q.jobs[j]
    BY DEF QueueInv, JobQueueState
  <1> HIDE DEF n
  <1>2. \A j \in 1 .. n : q.jobs[j] \in QueueJob
    BY <1>1
  <1>3. \A j \in DOMAIN p.jobs : p.jobs[j].status \notin {"running", "failed"}
    BY <1>1 DEF QueueInv
  <1>4. UniqueActiveKeyIn(p)
    BY <1>1 DEF QueueInv, UniqueActiveKeyIn, Duplicate, isActiveJobStatus, Unfinished
  <1>5. AttemptBudgetIn(p)
    BY <1>1, SettingsAssumption DEF QueueInv, AttemptBudgetIn
  <1>6. DeadLetterLedgerIn(p)
    BY <1>1 DEF QueueInv, DeadLetterLedgerIn
  <1>7. HistoryKept(q, p)
    <2>1. \A j \in DOMAIN q.jobs : j \in DOMAIN p.jobs /\ p.jobs[j] = q.jobs[j]
      BY <1>1
    <2>2. ASSUME NEW j \in DOMAIN q.jobs
          PROVE  q.jobs[j].attempts \in Int
      <3>1. q.jobs[j] \in QueueJob
        BY <1>1, <1>2
      <3>2. q.jobs[j].attempts \in 0 .. MaxAttempts
        BY <3>1 DEF QueueJob
      <3> QED
        BY <3>2, SettingsAssumption
    <2> QED
      BY <2>1, <2>2 DEF HistoryKept
  <1> QED
    BY <1>3, <1>4, <1>5, <1>6, <1>7 DEF QueueInv

\* Dead-lettering an unfinished job keeps the invariant.
LEMMA DeadLetterInv ==
  ASSUME NEW q, QueueInv(q), NEW i \in DOMAIN q.jobs, NEW job \in QueueJob,
         ~Terminal(q, i),
         job.key = q.jobs[i].key, job.status = "dead_letter", job.attempts = MaxAttempts
  PROVE  /\ QueueInv(AddDeadLetter(q, i, job))
         /\ HistoryKept(q, AddDeadLetter(q, i, job))
  <1> DEFINE p   == AddDeadLetter(q, i, job)
             rec == deadLetterRecordForJob(i, job)
             m   == Len(q.deadLetters)
  <1>0. q \in JobQueueState /\ q.jobs[i] \in QueueJob /\ i \in Nat \ {0}
    BY JobAt DEF QueueInv
  <1>1. /\ DOMAIN p.jobs = DOMAIN q.jobs
        /\ p.jobs \in Seq(QueueJob)
        /\ p.jobs[i] = job
        /\ \A j \in DOMAIN q.jobs : j # i => p.jobs[j] = q.jobs[j]
    BY <1>0 DEF AddDeadLetter, JobQueueState
  <1>2. rec \in DeadLetterRecord /\ rec.job = i
    BY <1>0 DEF deadLetterRecordForJob, DeadLetterRecord, QueueJob
  <1>3. /\ m \in Nat
        /\ DOMAIN q.deadLetters = 1 .. m
        /\ DOMAIN p.deadLetters = 1 .. m + 1
        /\ Len(p.deadLetters) = m + 1
        /\ p.deadLetters \in Seq(DeadLetterRecord)
        /\ p.deadLetters[m + 1] = rec
        /\ \A r \in 1 .. m : p.deadLetters[r] = q.deadLetters[r]
    BY <1>0, <1>2 DEF AddDeadLetter, JobQueueState
  <1>4. p.failureCount = q.failureCount + 1 /\ q.failureCount = m
    BY DEF AddDeadLetter, QueueInv, DeadLetterLedgerIn
  <1>5. p \in JobQueueState
    BY <1>0, <1>1, <1>3 DEF AddDeadLetter, JobQueueState
  <1>6. \A j \in DOMAIN q.jobs : q.jobs[j] \in QueueJob
    BY <1>0, JobAt
  <1>7. /\ q.jobs[i].status # "dead_letter"
        /\ q.jobs[i].status \notin Finished
    BY DEF Terminal, isTerminalJobStatus, Finished
  <1> HIDE DEF p, rec, m
  <1>8. UniqueActiveKeyIn(p)
    BY <1>1, <1>6 DEF QueueInv, UniqueActiveKeyIn, Unfinished
  <1>9. AttemptBudgetIn(p)
    BY <1>1, <1>6 DEF QueueInv, AttemptBudgetIn
  <1>10. \A r \in 1 .. m : q.deadLetters[r].job # i
    BY <1>3, <1>7 DEF QueueInv, DeadLetterLedgerIn
  <1>11. DeadLetterLedgerIn(p)
    <2>1. \A r \in DOMAIN p.deadLetters :
            /\ p.deadLetters[r].job \in DOMAIN p.jobs
            /\ p.jobs[p.deadLetters[r].job].status = "dead_letter"
      <3> SUFFICES ASSUME NEW r \in 1 .. m + 1
                   PROVE  /\ p.deadLetters[r].job \in DOMAIN p.jobs
                          /\ p.jobs[p.deadLetters[r].job].status = "dead_letter"
        BY <1>3
      <3>1. CASE r = m + 1
        BY <3>1, <1>1, <1>2, <1>3
      <3>2. CASE r # m + 1
        <4>1. r \in 1 .. m
          BY <3>2, <1>3
        <4>2. p.deadLetters[r] = q.deadLetters[r] /\ q.deadLetters[r].job # i
          BY <4>1, <1>3, <1>10
        <4>3. /\ q.deadLetters[r].job \in DOMAIN q.jobs
              /\ q.jobs[q.deadLetters[r].job].status = "dead_letter"
          BY <4>1, <1>3 DEF QueueInv, DeadLetterLedgerIn
        <4> QED
          BY <4>2, <4>3, <1>1
      <3> QED
        BY <3>1, <3>2
    <2>2. ASSUME NEW j \in DOMAIN p.jobs, p.jobs[j].status = "dead_letter"
          PROVE  \E r \in DOMAIN p.deadLetters : p.deadLetters[r].job = j
      <3>1. CASE j = i
        <4>1. m + 1 \in DOMAIN p.deadLetters /\ p.deadLetters[m + 1].job = i
          BY <1>2, <1>3
        <4> QED
          BY <3>1, <4>1
      <3>2. CASE j # i
        <4>1. j \in DOMAIN q.jobs /\ q.jobs[j].status = "dead_letter"
          BY <3>2, <2>2, <1>1
        <4>2. PICK r \in 1 .. m : q.deadLetters[r].job = j
          BY <4>1, <1>3 DEF QueueInv, DeadLetterLedgerIn
        <4>3. r \in DOMAIN p.deadLetters /\ p.deadLetters[r].job = j
          BY <4>2, <1>3
        <4> QED
          BY <4>3
      <3> QED
        BY <3>1, <3>2
    <2>3. \A r, s \in DOMAIN p.deadLetters :
            p.deadLetters[r].job = p.deadLetters[s].job => r = s
      BY <1>2, <1>3, <1>10 DEF QueueInv, DeadLetterLedgerIn
    <2>4. p.failureCount = Len(p.deadLetters)
      BY <1>3, <1>4
    <2> QED
      BY <2>1, <2>2, <2>3, <2>4 DEF DeadLetterLedgerIn
  <1>12. HistoryKept(q, p)
    <2>1. ASSUME NEW j \in DOMAIN q.jobs
          PROVE  /\ j \in DOMAIN p.jobs
                 /\ q.jobs[j].status \in Finished => p.jobs[j].status = q.jobs[j].status
                 /\ q.jobs[j].attempts <= p.jobs[j].attempts
      <3>1. CASE j = i
        <4>1. q.jobs[i].attempts \in 0 .. MaxAttempts
          BY <1>0 DEF QueueJob
        <4>2. q.jobs[i].attempts <= MaxAttempts
          BY <4>1, SettingsAssumption
        <4> QED
          BY <3>1, <4>2, <1>1, <1>7
      <3>2. CASE j # i
        <4>1. q.jobs[j].attempts \in Int
          BY <1>6, SettingsAssumption DEF QueueJob
        <4>2. p.jobs[j] = q.jobs[j]
          BY <3>2, <1>1
        <4> QED
          BY <4>1, <4>2, <1>1
      <3> QED
        BY <3>1, <3>2
    <2>2. \A r \in DOMAIN q.deadLetters :
            r \in DOMAIN p.deadLetters /\ p.deadLetters[r] = q.deadLetters[r]
      BY <1>3
    <2> QED
      BY <2>1, <2>2 DEF HistoryKept, Finished
  <1>13. \A j \in DOMAIN p.jobs : p.jobs[j].status \notin {"running", "failed"}
    BY <1>1 DEF QueueInv
  <1>14. QueueInv(p) /\ HistoryKept(q, p)
    BY <1>5, <1>8, <1>9, <1>11, <1>12, <1>13 DEF QueueInv
  <1> QED
    BY <1>14 DEF p

----------------------------------------------------------------------------
(* The operations.                                                         *)

\* Nothing is lost when nothing changes.
LEMMA Unchanged ==
  ASSUME NEW q, QueueInv(q)
  PROVE  HistoryKept(q, q)
  <1>1. \A j \in DOMAIN q.jobs : q.jobs[j] \in QueueJob
    BY JobAt DEF QueueInv
  <1> QED
    BY <1>1 DEF HistoryKept, QueueJob

\* The string constants of jobs.go are statuses.
LEMMA StatusNames ==
  /\ {"pending", "leased", "succeeded", "dead_letter", "paused", "canceled"}
       \subseteq SyncJobStatus
  BY DEF SyncJobStatus

\* A job that is settled, or leased, or older, has made a JobStep.
LEMMA SettledStep ==
  ASSUME NEW job \in QueueJob, job.status \notin Finished,
         NEW s \in {"pending", "leased", "succeeded", "paused", "canceled"}
  PROVE  JobStep(job, Settled(job, s))
  <1>1. s \in SyncJobStatus
    BY StatusNames
  <1> QED
    BY <1>1, SettledJob DEF JobStep, QueueJob

\* The passing of time rewrites the jobs and changes no status.
LEMMA PassTimeInv ==
  ASSUME NEW q, QueueInv(q)
  PROVE  Rewrites(q, PassTime(q))
  <1> DEFINE f == [j \in DOMAIN q.jobs |-> Older(q.jobs[j])]
  <1>1. q \in JobQueueState
    BY DEF QueueInv
  <1>2. ASSUME NEW j \in DOMAIN q.jobs
        PROVE  JobStep(q.jobs[j], f[j])
    <2>1. q.jobs[j] \in QueueJob /\ q.jobs[j].status \notin {"running", "failed"}
      BY JobAt DEF QueueInv
    <2>2. f[j] = Older(q.jobs[j])
      OBVIOUS
    <2> QED
      BY <2>1, <2>2, OlderJob DEF JobStep, QueueJob
  <1>3. f = [j \in DOMAIN q.jobs |-> f[j]]
    OBVIOUS
  <1> HIDE DEF f
  <1>4. Rewrites(q, SetJobs(q, f))
    BY <1>1, <1>2, <1>3, MapRewrites
  <1> QED
    BY <1>4 DEF PassTime, f

\* reapExpiredLeasesLocked rewrites the jobs and only frees leases.
LEMMA ReapInv ==
  ASSUME NEW q, QueueInv(q), NEW lag
  PROVE  /\ Rewrites(q, reapExpiredLeases(q, lag))
         /\ activeLeases(reapExpiredLeases(q, lag)) \subseteq activeLeases(q)
  <1> DEFINE f == [j \in DOMAIN q.jobs |->
                     IF Expired(q.jobs[j], lag)
                     THEN Settled(q.jobs[j], "pending") ELSE q.jobs[j]]
  <1>1. q \in JobQueueState
    BY DEF QueueInv
  <1>2. ASSUME NEW j \in DOMAIN q.jobs
        PROVE  /\ JobStep(q.jobs[j], f[j])
               /\ HasLease(f[j]) => HasLease(q.jobs[j])
    <2>1. q.jobs[j] \in QueueJob /\ q.jobs[j].status \notin {"running", "failed"}
      BY JobAt DEF QueueInv
    <2>2. CASE Expired(q.jobs[j], lag)
      <3>1. f[j] = Settled(q.jobs[j], "pending")
        BY <2>2
      <3>2. q.jobs[j].status \notin Finished
        BY <2>2 DEF Expired, Finished
      <3>3. Settled(q.jobs[j], "pending").status = "pending"
        BY <2>1, SettledJob, StatusNames
      <3> HIDE DEF f
      <3> QED
        BY <2>1, <3>1, <3>2, <3>3, SettledStep DEF HasLease
    <2>3. CASE ~Expired(q.jobs[j], lag)
      <3>1. f[j] = q.jobs[j]
        BY <2>3
      <3> HIDE DEF f
      <3> QED
        BY <2>1, <3>1 DEF JobStep, QueueJob
    <2> QED
      BY <2>2, <2>3
  <1>3. f = [j \in DOMAIN q.jobs |-> f[j]] /\ DOMAIN f = DOMAIN q.jobs
    OBVIOUS
  <1>4. reapExpiredLeases(q, lag) = SetJobs(q, f)
    BY DEF reapExpiredLeases
  <1> HIDE DEF f
  <1>5. Rewrites(q, SetJobs(q, f))
    BY <1>1, <1>2, <1>3, MapRewrites
  <1>6. SetJobs(q, f).jobs = f
    <2>1. f \in Seq(QueueJob)
      BY <1>1, <1>2, <1>3, MapJobs DEF JobStep
    <2> QED
      BY <1>1, <2>1, SetJobsQueue
  <1>7. activeLeases(SetJobs(q, f)) \subseteq activeLeases(q)
    BY <1>2, <1>3, <1>6 DEF activeLeases
  <1> QED
    BY <1>4, <1>5, <1>7

----------------------------------------------------------------------------
(* Leases.                                                                 *)

\* The active leases are a finite set of indices.
LEMMA LeasesFinite ==
  ASSUME NEW q \in JobQueueState
  PROVE  /\ IsFiniteSet(activeLeases(q))
         /\ IsFiniteSet(DOMAIN q.jobs)
         /\ Cardinality(activeLeases(q)) \in Nat
  <1>1. DOMAIN q.jobs = 1 .. Len(q.jobs) /\ Len(q.jobs) \in Nat
    BY DEF JobQueueState
  <1>2. IsFiniteSet(DOMAIN q.jobs)
    BY <1>1, FS_Interval
  <1>3. IsFiniteSet(activeLeases(q))
    BY <1>2, FS_Subset DEF activeLeases
  <1> QED
    BY <1>2, <1>3, FS_CardinalityType

\* A step that leases nothing keeps the bound.
LEMMA FewerLeases ==
  ASSUME NEW q, NEW p, q \in JobQueueState, p \in JobQueueState,
         activeLeases(p) \subseteq activeLeases(q)
  PROVE  LeaseBoundIn(q) => LeaseBoundIn(p)
  <1>1. Cardinality(activeLeases(p)) <= Cardinality(activeLeases(q))
    BY LeasesFinite, FS_Subset
  <1>2. Cardinality(activeLeases(p)) \in Nat /\ Cardinality(activeLeases(q)) \in Nat
    BY LeasesFinite
  <1> QED
    BY <1>1, <1>2, SettingsAssumption DEF LeaseBoundIn

\* A set of at most n job indices is all that FirstOf(S, n) returns: ranking
\* its members by their place in S is an injection into 0 .. n - 1.
LEMMA FirstOfBound ==
  ASSUME NEW S \in SUBSET Nat, IsFiniteSet(S), NEW n \in Int
  PROVE  /\ FirstOf(S, n) \subseteq S
         /\ IsFiniteSet(FirstOf(S, n))
         /\ Cardinality(FirstOf(S, n)) <= IF n > 0 THEN n ELSE 0
  <1> DEFINE below(j) == {i \in S : i < j}
             F == FirstOf(S, n)
             rank == [j \in F |-> Cardinality(below(j))]
  <1>1. F \subseteq S /\ IsFiniteSet(F)
    BY FS_Subset DEF FirstOf
  <1>2. ASSUME NEW j \in S
        PROVE  IsFiniteSet(below(j)) /\ Cardinality(below(j)) \in Nat
    BY FS_Subset, FS_CardinalityType
  <1>5. ASSUME NEW j \in F
        PROVE  Cardinality(below(j)) < n
    BY DEF FirstOf
  <1>3. CASE n <= 0
    <2>1. ASSUME NEW j \in F
          PROVE  FALSE
      <3>1. Cardinality(below(j)) \in Nat /\ Cardinality(below(j)) < n
        BY <1>1, <1>2, <1>5
      <3> HIDE DEF below
      <3> QED
        BY <1>3, <3>1
    <2> QED
      BY <1>1, <1>3, <2>1, FS_EmptySet
  <1>4. CASE n > 0
    <2>1. rank \in [F -> 0 .. n - 1]
      <3>1. ASSUME NEW j \in F
            PROVE  Cardinality(below(j)) \in 0 .. n - 1
        <4>1. Cardinality(below(j)) \in Nat /\ Cardinality(below(j)) < n
          BY <1>1, <1>2, <1>5
        <4> HIDE DEF below
        <4> QED
          BY <1>4, <4>1
      <3> HIDE DEF below, F
      <3> QED
        BY <3>1
    <2>2. ASSUME NEW i \in F, NEW j \in F, i < j
          PROVE  rank[i] # rank[j]
      <3>1. i \in S /\ j \in S
        BY <1>1
      <3>2. below(i) \subseteq below(j) /\ i \in below(j) /\ i \notin below(i)
        <4>1. i \in Nat /\ j \in Nat /\ \A x \in S : x \in Nat
          BY <3>1
        <4>2. \A x \in S : x < i => x < j
          BY <2>2, <4>1
        <4>3. ~(i < i)
          BY <4>1
        <4> QED
          BY <2>2, <3>1, <4>2, <4>3, Zenon
      <3>3. below(i) # below(j)
        BY <3>2
      <3>4. Cardinality(below(i)) < Cardinality(below(j))
        BY <1>2, <3>1, <3>2, <3>3, FS_Subset
      <3> QED
        BY <1>2, <3>1, <3>4
    <2>3. ASSUME NEW i \in F, NEW j \in F, rank[i] = rank[j]
          PROVE  i = j
      <3>1. i \in Nat /\ j \in Nat
        BY <1>1
      <3> QED
        BY <2>2, <2>3, <3>1
    <2>4. IsFiniteSet(0 .. n - 1) /\ Cardinality(0 .. n - 1) = n
      BY <1>4, FS_Interval
    <2>5. rank \in Injection(F, 0 .. n - 1)
      BY <2>1, <2>3 DEF Injection, IsInjective
    <2>6. Cardinality(F) <= Cardinality(0 .. n - 1)
      BY <2>4, <2>5, FS_Injection
    <2> QED
      BY <1>1, <1>4, <2>4, <2>6
  <1> QED
    BY <1>3, <1>4

----------------------------------------------------------------------------
(* Each operation keeps the queue.                                         *)

\* A rewrite that leases nothing keeps the queue.
LEMMA RewritesKeeps ==
  ASSUME NEW q, NEW p, QueueInv(q), Rewrites(q, p),
         activeLeases(p) \subseteq activeLeases(q)
  PROVE  Keeps(q, p)
  BY RewritesInv, FewerLeases DEF Keeps, QueueInv

\* Doing nothing keeps the queue.
LEMMA UnchangedKeeps ==
  ASSUME NEW q, QueueInv(q)
  PROVE  Keeps(q, q)
  BY Unchanged DEF Keeps

\* Two operations that keep the queue keep it one after the other.
LEMMA KeepsTrans ==
  ASSUME NEW q, NEW r, NEW p, QueueInv(q), Keeps(q, r), Keeps(r, p)
  PROVE  Keeps(q, p)
  <1>1. /\ \A j \in DOMAIN q.jobs : q.jobs[j].attempts \in Int
        /\ \A j \in DOMAIN r.jobs : r.jobs[j].attempts \in Int
        /\ \A j \in DOMAIN p.jobs : p.jobs[j].attempts \in Int
    BY JobAt, SettingsAssumption DEF Keeps, QueueInv, QueueJob
  <1>2. HistoryKept(q, p)
    <2>1. ASSUME NEW j \in DOMAIN q.jobs
          PROVE  /\ j \in DOMAIN p.jobs
                 /\ q.jobs[j].status \in Finished => p.jobs[j].status = q.jobs[j].status
                 /\ q.jobs[j].attempts <= p.jobs[j].attempts
      <3>1. j \in DOMAIN r.jobs /\ q.jobs[j].attempts <= r.jobs[j].attempts
        BY DEF Keeps, HistoryKept
      <3>2. j \in DOMAIN p.jobs /\ r.jobs[j].attempts <= p.jobs[j].attempts
        BY <3>1 DEF Keeps, HistoryKept
      <3>3. q.jobs[j].attempts <= p.jobs[j].attempts
        BY <3>1, <3>2, <1>1
      <3> QED
        BY <3>1, <3>2, <3>3 DEF Keeps, HistoryKept, Finished
    <2>2. ASSUME NEW x \in DOMAIN q.deadLetters
          PROVE  /\ x \in DOMAIN p.deadLetters
                 /\ p.deadLetters[x].job = q.deadLetters[x].job
                 /\ q.deadLetters[x].replayed => p.deadLetters[x].replayed
      BY DEF Keeps, HistoryKept
    <2> QED
      BY <2>1, <2>2 DEF HistoryKept, Finished
  <1> QED
    BY <1>2 DEF Keeps

\* Rewriting one job to a status without a lease.
LEMMA SetJobKeeps ==
  ASSUME NEW q, QueueInv(q), NEW i \in DOMAIN q.jobs, NEW job,
         JobStep(q.jobs[i], job), ~HasLease(job)
  PROVE  Keeps(q, SetJob(q, i, job))
  <1>1. /\ Rewrites(q, SetJob(q, i, job))
        /\ SetJob(q, i, job).jobs = [q.jobs EXCEPT ![i] = job]
    BY SetJobRewrites
  <1>2. activeLeases(SetJob(q, i, job)) \subseteq activeLeases(q)
    BY <1>1 DEF activeLeases
  <1> QED
    BY <1>1, <1>2, RewritesKeeps

\* isTerminalJobStatus is the definition of a finished job.
LEMMA TerminalStatus ==
  ASSUME NEW q, NEW j \in DOMAIN q.jobs
  PROVE  Terminal(q, j) <=> q.jobs[j].status \in Finished
  BY DEF Terminal, isTerminalJobStatus, Finished

\* Settling an unfinished job keeps the queue.
LEMMA SettleKeeps ==
  ASSUME NEW q, QueueInv(q), NEW j \in DOMAIN q.jobs, ~Terminal(q, j),
         NEW s \in {"pending", "succeeded", "paused", "canceled"}
  PROVE  Keeps(q, SetJob(q, j, Settled(q.jobs[j], s)))
  <1>1. q.jobs[j] \in QueueJob /\ q.jobs[j].status \notin Finished
    BY JobAt, TerminalStatus DEF QueueInv
  <1>2. JobStep(q.jobs[j], Settled(q.jobs[j], s))
    BY <1>1, SettledStep
  <1>3. Settled(q.jobs[j], s).status = s
    <2>1. s \in SyncJobStatus
      BY StatusNames
    <2> QED
      BY <1>1, <2>1, SettledJob
  <1> QED
    BY <1>2, <1>3, SetJobKeeps DEF HasLease

\* Complete keeps the queue.
LEMMA CompleteKeeps ==
  ASSUME NEW q, QueueInv(q), NEW j \in DOMAIN q.jobs
  PROVE  Keeps(q, Complete(q, j))
  BY SettleKeeps, UnchangedKeeps DEF Complete

\* Pause keeps the queue.
LEMMA PauseKeeps ==
  ASSUME NEW q, QueueInv(q), NEW j \in DOMAIN q.jobs
  PROVE  Keeps(q, Pause(q, j))
  BY SettleKeeps, UnchangedKeeps DEF Pause

\* Cancel keeps the queue.
LEMMA CancelKeeps ==
  ASSUME NEW q, QueueInv(q), NEW j \in DOMAIN q.jobs
  PROVE  Keeps(q, Cancel(q, j))
  BY SettleKeeps, UnchangedKeeps DEF Cancel

\* Reading the queue, which reaps it, keeps it.
LEMMA ExportKeeps ==
  ASSUME NEW q, QueueInv(q)
  PROVE  Keeps(q, ExportState(q))
  BY ReapInv, RewritesKeeps DEF ExportState

\* The passing of time keeps the queue.
LEMMA PassTimeKeeps ==
  ASSUME NEW q, QueueInv(q)
  PROVE  Keeps(q, PassTime(q))
  <1> DEFINE f == [j \in DOMAIN q.jobs |-> Older(q.jobs[j])]
  <1>1. ASSUME NEW j \in DOMAIN q.jobs
        PROVE  q.jobs[j] \in QueueJob /\ f[j] = Older(q.jobs[j])
    BY JobAt DEF QueueInv
  <1>2. ASSUME NEW j \in DOMAIN q.jobs
        PROVE  f[j] \in QueueJob /\ f[j].status = q.jobs[j].status
    BY <1>1, OlderJob
  <1>3. f = [j \in DOMAIN q.jobs |-> f[j]] /\ DOMAIN f = DOMAIN q.jobs
    OBVIOUS
  <1>4. PassTime(q) = SetJobs(q, f)
    BY DEF PassTime
  <1> HIDE DEF f
  <1>5. f \in Seq(QueueJob)
    BY <1>2, <1>3, MapJobs DEF QueueInv
  <1>6. SetJobs(q, f).jobs = f
    BY <1>5, SetJobsQueue DEF QueueInv
  <1>7. activeLeases(PassTime(q)) \subseteq activeLeases(q)
    BY <1>2, <1>3, <1>4, <1>6 DEF activeLeases, HasLease
  <1> QED
    BY <1>7, PassTimeInv, RewritesKeeps

\* Resume keeps the queue.
LEMMA ResumeKeeps ==
  ASSUME NEW q, QueueInv(q), NEW j \in DOMAIN q.jobs, NEW lag \in 0 .. MaxLag
  PROVE  Keeps(q, Resume(q, j, lag))
  <1>1. CASE q.jobs[j].status # "paused"
    BY <1>1, UnchangedKeeps DEF Resume
  <1>2. CASE q.jobs[j].status = "paused"
    <2> DEFINE s == Settled(q.jobs[j], "pending")
    <2>1. q.jobs[j] \in QueueJob /\ "pending" \in SyncJobStatus
      BY JobAt DEF QueueInv, SyncJobStatus
    <2>2. /\ s \in QueueJob
          /\ s.status = "pending"
          /\ s.key = q.jobs[j].key
          /\ s.attempts = q.jobs[j].attempts
      BY <2>1, SettledJob
    <2> HIDE DEF s
    <2>3. -lag \in Int
      BY SettingsAssumption
    <2>4. /\ WithDelay(s, -lag) \in QueueJob
          /\ WithDelay(s, -lag).status = "pending"
          /\ WithDelay(s, -lag).key = q.jobs[j].key
          /\ WithDelay(s, -lag).attempts = q.jobs[j].attempts
      BY <2>2, <2>3, WithDelayJob
    <2>5. q.jobs[j].attempts \in Int
      BY <2>1, SettingsAssumption DEF QueueJob
    <2>6. JobStep(q.jobs[j], WithDelay(s, -lag)) /\ ~HasLease(WithDelay(s, -lag))
      BY <1>2, <2>4, <2>5 DEF JobStep, HasLease, Finished
    <2>7. Keeps(q, SetJob(q, j, WithDelay(s, -lag)))
      BY <2>6, SetJobKeeps
    <2> QED
      BY <1>2, <2>7 DEF Resume, s
  <1> QED
    BY <1>1, <1>2

\* CancelByCorrelation keeps the queue.
LEMMA CancelByCorrelationKeeps ==
  ASSUME NEW q, QueueInv(q), NEW corr
  PROVE  Keeps(q, CancelByCorrelation(q, corr))
  <1> DEFINE hit(j) == corr # NoCorrelation /\ q.jobs[j].corr = corr /\ ~Terminal(q, j)
             f == [j \in DOMAIN q.jobs |->
                     IF hit(j) THEN Settled(q.jobs[j], "canceled") ELSE q.jobs[j]]
  <1>1. q \in JobQueueState
    BY DEF QueueInv
  <1>2. ASSUME NEW j \in DOMAIN q.jobs
        PROVE  /\ JobStep(q.jobs[j], f[j])
               /\ HasLease(f[j]) => HasLease(q.jobs[j])
    <2>1. q.jobs[j] \in QueueJob /\ q.jobs[j].status \notin {"running", "failed"}
      BY JobAt DEF QueueInv
    <2>2. CASE hit(j)
      <3>1. f[j] = Settled(q.jobs[j], "canceled")
        BY <2>2
      <3>2. q.jobs[j].status \notin Finished
        BY <2>2, TerminalStatus
      <3>3. Settled(q.jobs[j], "canceled").status = "canceled"
        BY <2>1, SettledJob, StatusNames
      <3> HIDE DEF f
      <3> QED
        BY <2>1, <3>1, <3>2, <3>3, SettledStep DEF HasLease
    <2>3. CASE ~hit(j)
      <3>1. f[j] = q.jobs[j]
        BY <2>3
      <3> HIDE DEF f
      <3> QED
        BY <2>1, <3>1 DEF JobStep, QueueJob
    <2> QED
      BY <2>2, <2>3
  <1>3. f = [j \in DOMAIN q.jobs |-> f[j]] /\ DOMAIN f = DOMAIN q.jobs
    OBVIOUS
  <1>4. CancelByCorrelation(q, corr) = SetJobs(q, f)
    BY DEF CancelByCorrelation
  <1> HIDE DEF f
  <1>5. Rewrites(q, SetJobs(q, f))
    BY <1>1, <1>2, <1>3, MapRewrites
  <1>6. SetJobs(q, f).jobs = f
    <2>1. f \in Seq(QueueJob)
      BY <1>1, <1>2, <1>3, MapJobs DEF JobStep
    <2> QED
      BY <1>1, <2>1, SetJobsQueue
  <1>7. activeLeases(SetJobs(q, f)) \subseteq activeLeases(q)
    BY <1>2, <1>3, <1>6 DEF activeLeases
  <1> QED
    BY <1>4, <1>5, <1>7, RewritesKeeps

\* NewQueueJob returns a pending job with no attempts used.
LEMMA NewJob ==
  ASSUME NEW key \in Keys \cup {NoKey}, NEW corr \in Correlations \cup {NoCorrelation}
  PROVE  /\ NewQueueJob(key, corr) \in QueueJob
         /\ NewQueueJob(key, corr).key = key
         /\ NewQueueJob(key, corr).status = "pending"
         /\ NewQueueJob(key, corr).attempts = 0
  BY SettingsAssumption DEF NewQueueJob, QueueJob, SyncJobStatus

\* Appending a pending job leases nothing.
LEMMA AppendKeeps ==
  ASSUME NEW q, NEW p, QueueInv(q), NEW job \in QueueJob,
         p \in JobQueueState, p.jobs = Append(q.jobs, job),
         p.deadLetters = q.deadLetters, p.failureCount = q.failureCount,
         job.status = "pending", job.attempts = 0,
         ~Duplicate(q, job.key)
  PROVE  Keeps(q, p)
  <1>1. QueueInv(p) /\ HistoryKept(q, p)
    BY AppendInv
  <1>2. activeLeases(p) \subseteq activeLeases(q)
    BY DEF activeLeases, HasLease, QueueInv, JobQueueState
  <1> QED
    BY <1>1, <1>2, FewerLeases DEF Keeps, QueueInv

\* EnqueueUnique keeps the queue: it appends under a free key only.
LEMMA EnqueueUniqueKeeps ==
  ASSUME NEW q, QueueInv(q), NEW key \in Keys \cup {NoKey},
         NEW corr \in Correlations \cup {NoCorrelation}
  PROVE  Keeps(q, EnqueueUnique(q, key, corr))
  <1>1. CASE Duplicate(q, key)
    BY <1>1, UnchangedKeeps DEF EnqueueUnique
  <1>2. CASE ~Duplicate(q, key)
    <2> DEFINE job == NewQueueJob(key, corr)
               jobs == Append(q.jobs, job)
    <2>1. job \in QueueJob /\ job.key = key /\ job.status = "pending" /\ job.attempts = 0
      BY NewJob
    <2>2. q \in JobQueueState /\ q.jobs \in Seq(QueueJob)
      BY DEF QueueInv, JobQueueState
    <2> HIDE DEF job
    <2>3. jobs \in Seq(QueueJob)
      BY <2>1, <2>2
    <2>4. /\ SetJobs(q, jobs) \in JobQueueState
          /\ SetJobs(q, jobs).jobs = jobs
          /\ SetJobs(q, jobs).deadLetters = q.deadLetters
          /\ SetJobs(q, jobs).failureCount = q.failureCount
      BY <2>2, <2>3, SetJobsQueue
    <2>5. Keeps(q, SetJobs(q, jobs))
      BY <1>2, <2>1, <2>4, AppendKeeps
    <2> QED
      BY <1>2, <2>5 DEF EnqueueUnique, job
  <1> QED
    BY <1>1, <1>2

\* LeaseJob keeps the queue: it reaps, and leases one job below the limit.
LEMMA LeaseJobKeeps ==
  ASSUME NEW q, QueueInv(q), NEW j \in DOMAIN q.jobs, NEW lag \in 0 .. MaxLag
  PROVE  Keeps(q, LeaseJob(q, j, lag))
  <1> DEFINE r == reapExpiredLeases(q, lag)
             job == Leased(r.jobs[j], lag)
  <1>1. Keeps(q, r)
    BY ReapInv, RewritesKeeps
  <1>2. QueueInv(r) /\ j \in DOMAIN r.jobs
    BY <1>1, ReapInv DEF Keeps, Rewrites
  <1>0. LeaseJob(q, j, lag) = IF CanLease(r, j, lag) THEN SetJob(r, j, job) ELSE r
    BY DEF LeaseJob
  <1> HIDE DEF r
  <1>3. CASE ~CanLease(r, j, lag)
    BY <1>0, <1>1, <1>3
  <1>4. CASE CanLease(r, j, lag)
    <2>1. /\ r.jobs[j] \in QueueJob
          /\ r.jobs[j].status = "pending"
          /\ r \in JobQueueState
      BY <1>2, <1>4, JobAt DEF QueueInv, CanLease, Ready
    <2>2. /\ job \in QueueJob
          /\ job.status = "leased"
          /\ job.key = r.jobs[j].key
          /\ job.attempts = r.jobs[j].attempts
      BY <2>1, LeasedJob
    <2> HIDE DEF job
    <2>3. JobStep(r.jobs[j], job)
      BY <2>1, <2>2, SettingsAssumption DEF JobStep, QueueJob, Finished
    <2> DEFINE p == SetJob(r, j, job)
    <2>4. Rewrites(r, p) /\ p.jobs = [r.jobs EXCEPT ![j] = job]
      BY <1>2, <2>3, SetJobRewrites
    <2>5. QueueInv(p) /\ HistoryKept(r, p)
      BY <1>2, <2>4, RewritesInv
    <2>6. activeLeases(p) \subseteq activeLeases(r) \cup {j}
      BY <2>4 DEF activeLeases
    <2>7. LeaseBoundIn(p)
      <3> DEFINE S == activeLeases(r)
                 T == activeLeases(p)
      <3>1. IsFiniteSet(S) /\ Cardinality(S) \in Nat /\ Cardinality(S) < MaxConcurrency
        BY <1>4, <2>1, LeasesFinite DEF CanLease
      <3>2. IsFiniteSet(S \cup {j}) /\ Cardinality(S \cup {j}) <= Cardinality(S) + 1
        BY <3>1, FS_AddElement
      <3>3. Cardinality(T) <= Cardinality(S \cup {j}) /\ Cardinality(T) \in Nat
        BY <2>5, <2>6, <3>2, FS_Subset, LeasesFinite DEF QueueInv
      <3>4. Cardinality(S \cup {j}) \in Nat
        BY <3>2, FS_CardinalityType
      <3>5. Cardinality(T) <= MaxConcurrency
        BY <3>1, <3>2, <3>3, <3>4, SettingsAssumption
      <3> QED
        BY <3>5 DEF LeaseBoundIn
    <2>8. Keeps(r, p)
      BY <2>5, <2>7 DEF Keeps
    <2>9. Keeps(q, p)
      BY <1>1, <2>8, KeepsTrans
    <2> QED
      BY <1>0, <1>4, <2>9
  <1> QED
    BY <1>3, <1>4

\* Leasing a set of ready jobs that fits under the concurrency.
LEMMA LeaseAllKeeps ==
  ASSUME NEW r, QueueInv(r), NEW lag \in 0 .. MaxLag, NEW pick,
         pick \subseteq readyJobs(r, lag), IsFiniteSet(pick),
         LeaseBoundIn(r) =>
           Cardinality(activeLeases(r)) + Cardinality(pick) <= MaxConcurrency
  PROVE  Keeps(r, LeaseAll(r, pick, lag))
  <1> DEFINE f == [j \in DOMAIN r.jobs |->
                     IF j \in pick THEN Leased(r.jobs[j], lag) ELSE r.jobs[j]]
             p == SetJobs(r, f)
  <1>1. r \in JobQueueState
    BY DEF QueueInv
  <1>2. ASSUME NEW j \in DOMAIN r.jobs
        PROVE  /\ JobStep(r.jobs[j], f[j])
               /\ j \notin pick => f[j] = r.jobs[j]
    <2>1. /\ r.jobs[j] \in QueueJob
          /\ r.jobs[j].status \notin {"running", "failed"}
          /\ r.jobs[j].attempts \in Int
      BY JobAt, SettingsAssumption DEF QueueInv, QueueJob
    <2>2. CASE j \in pick
      <3>1. f[j] = Leased(r.jobs[j], lag)
        BY <2>2
      <3>2. r.jobs[j].status = "pending"
        BY <2>2 DEF readyJobs, Ready
      <3> HIDE DEF f
      <3> QED
        BY <2>1, <2>2, <3>1, <3>2, LeasedJob DEF JobStep, Finished
    <2>3. CASE j \notin pick
      <3>1. f[j] = r.jobs[j]
        BY <2>3
      <3> HIDE DEF f
      <3> QED
        BY <2>1, <3>1 DEF JobStep
    <2> QED
      BY <2>2, <2>3
  <1>3. f = [j \in DOMAIN r.jobs |-> f[j]] /\ DOMAIN f = DOMAIN r.jobs
    OBVIOUS
  <1>4. LeaseAll(r, pick, lag) = p
    BY DEF LeaseAll
  <1> HIDE DEF f
  <1>5. Rewrites(r, p)
    BY <1>1, <1>2, <1>3, MapRewrites
  <1>6. p.jobs = f
    <2>1. f \in Seq(QueueJob)
      BY <1>1, <1>2, <1>3, MapJobs DEF JobStep
    <2> QED
      BY <1>1, <2>1, SetJobsQueue
  <1> HIDE DEF p
  <1>7. QueueInv(p) /\ HistoryKept(r, p)
    BY <1>5, RewritesInv
  <1>8. activeLeases(p) \subseteq activeLeases(r) \cup pick
    BY <1>2, <1>3, <1>6 DEF activeLeases
  <1>9. ASSUME LeaseBoundIn(r)
        PROVE  LeaseBoundIn(p)
    <2> DEFINE S == activeLeases(r)
               T == activeLeases(p)
    <2>1. /\ IsFiniteSet(S) /\ Cardinality(S) \in Nat
          /\ IsFiniteSet(T) /\ Cardinality(T) \in Nat
          /\ Cardinality(pick) \in Nat
      BY <1>1, <1>7, LeasesFinite, FS_CardinalityType DEF QueueInv
    <2>2. Cardinality(S) + Cardinality(pick) <= MaxConcurrency
      BY <1>9
    <2>3. T \subseteq S \cup pick
      BY <1>8
    <2> HIDE DEF S, T
    <2>4. /\ IsFiniteSet(S \cup pick)
          /\ Cardinality(S \cup pick) = Cardinality(S) + Cardinality(pick) - Cardinality(S \cap pick)
      BY <2>1, FS_Union
    <2>5. Cardinality(S \cap pick) \in Nat /\ Cardinality(S \cup pick) \in Nat
      <3>1. IsFiniteSet(S \cap pick)
        BY <2>1, FS_Intersection
      <3> QED
        BY <3>1, <2>4, FS_CardinalityType
    <2>6. Cardinality(T) <= Cardinality(S \cup pick)
      BY <2>3, <2>4, FS_Subset
    <2>7. Cardinality(T) <= MaxConcurrency
      BY <2>1, <2>2, <2>4, <2>5, <2>6, SettingsAssumption
    <2> QED
      BY <2>7 DEF LeaseBoundIn, T
  <1> QED
    BY <1>4, <1>7, <1>9 DEF Keeps

\* LeaseReady leases no more than the concurrency leaves, whatever the limit.
LEMMA LeaseReadyKeeps ==
  ASSUME NEW q, QueueInv(q), NEW limit \in Int, NEW lag \in 0 .. MaxLag
  PROVE  Keeps(q, LeaseReady(q, limit, lag))
  <1> DEFINE r         == reapExpiredLeases(q, lag)
             S         == readyJobs(r, lag)
             remaining == MaxConcurrency - Cardinality(activeLeases(r))
             n         == IF limit <= 0 \/ limit > remaining THEN remaining ELSE limit
             pick      == FirstOf(S, n)
  <1>1. Keeps(q, r)
    BY ReapInv, RewritesKeeps
  <1>2. LeaseReady(q, limit, lag) = LeaseAll(r, pick, lag)
    BY DEF LeaseReady
  <1> HIDE DEF r
  <1>3. QueueInv(r) /\ r \in JobQueueState
    BY <1>1 DEF Keeps, QueueInv
  <1>4. Cardinality(activeLeases(r)) \in Nat
    BY <1>3, LeasesFinite
  <1>5. S \in SUBSET Nat /\ IsFiniteSet(S)
    BY <1>3, JobAt, LeasesFinite, FS_Subset DEF readyJobs
  <1>6. /\ remaining \in Int
        /\ n \in Int
        /\ n <= remaining
    BY <1>4, SettingsAssumption
  <1>7. LeaseBoundIn(r) => remaining >= 0
    BY <1>4, SettingsAssumption DEF LeaseBoundIn
  <1> HIDE DEF S, n
  <1>8. /\ pick \subseteq S
        /\ IsFiniteSet(pick)
        /\ Cardinality(pick) <= IF n > 0 THEN n ELSE 0
    BY <1>5, <1>6, FirstOfBound
  <1> HIDE DEF pick
  <1>9. Cardinality(pick) \in Nat
    BY <1>8, FS_CardinalityType
  <1>10. LeaseBoundIn(r) =>
           Cardinality(activeLeases(r)) + Cardinality(pick) <= MaxConcurrency
    BY <1>4, <1>6, <1>7, <1>8, <1>9, SettingsAssumption
  <1>11. pick \subseteq readyJobs(r, lag)
    BY <1>8 DEF S
  <1>12. Keeps(r, LeaseAll(r, pick, lag))
    BY <1>3, <1>8, <1>10, <1>11, LeaseAllKeeps
  <1> QED
    BY <1>1, <1>2, <1>12, KeepsTrans

\* Dead-lettering an unfinished job frees its lease.
LEMMA DeadLetterKeeps ==
  ASSUME NEW q, QueueInv(q), NEW i \in DOMAIN q.jobs, NEW job \in QueueJob,
         ~Terminal(q, i),
         job.key = q.jobs[i].key, job.status = "dead_letter", job.attempts = MaxAttempts
  PROVE  Keeps(q, AddDeadLetter(q, i, job))
  <1> DEFINE p == AddDeadLetter(q, i, job)
  <1>1. QueueInv(p) /\ HistoryKept(q, p)
    BY DeadLetterInv
  <1>2. p.jobs = [q.jobs EXCEPT ![i] = job]
    BY DEF AddDeadLetter
  <1> HIDE DEF p
  <1>3. activeLeases(p) \subseteq activeLeases(q)
    BY <1>2 DEF activeLeases, HasLease
  <1>4. Keeps(q, p)
    BY <1>1, <1>3, FewerLeases DEF Keeps, QueueInv
  <1> QED
    BY <1>4 DEF p

\* An unfinished job has attempts left.
LEMMA AttemptsLeft ==
  ASSUME NEW q, QueueInv(q), NEW j \in DOMAIN q.jobs, ~Terminal(q, j)
  PROVE  /\ q.jobs[j] \in QueueJob
         /\ q.jobs[j].attempts \in Nat
         /\ q.jobs[j].attempts < MaxAttempts
         /\ q.jobs[j].attempts + 1 \in 1 .. MaxAttempts
  <1>1. q.jobs[j] \in QueueJob /\ q.jobs[j].attempts \in 0 .. MaxAttempts
    BY JobAt DEF QueueInv, QueueJob
  <1>2. q.jobs[j].attempts # MaxAttempts
    BY TerminalStatus DEF QueueInv, AttemptBudgetIn, Finished
  <1> QED
    BY <1>1, <1>2, SettingsAssumption

\* FailNonRetryable uses up the attempts and dead-letters the job at once.
LEMMA FailNonRetryableKeeps ==
  ASSUME NEW q, QueueInv(q), NEW j \in DOMAIN q.jobs, NEW lag \in 0 .. MaxLag
  PROVE  Keeps(q, FailNonRetryable(q, j, lag))
  <1>1. CASE Terminal(q, j)
    BY <1>1, UnchangedKeeps DEF FailNonRetryable
  <1>2. CASE ~Terminal(q, j)
    <2> DEFINE n   == q.jobs[j].attempts + 1
               m   == IF n < MaxAttempts THEN MaxAttempts ELSE n
               bad == Failed(q.jobs[j], "dead_letter", m)
               job == WithDelay(bad, -lag)
    <2>1. q.jobs[j] \in QueueJob /\ m = MaxAttempts /\ m \in 0 .. MaxAttempts
      BY <1>2, AttemptsLeft, SettingsAssumption
    <2>2. FailNonRetryable(q, j, lag) = AddDeadLetter(q, j, job)
      BY <1>2 DEF FailNonRetryable
    <2> HIDE DEF m
    <2>3. /\ bad \in QueueJob /\ bad.status = "dead_letter"
          /\ bad.key = q.jobs[j].key /\ bad.attempts = MaxAttempts
      <3>1. "dead_letter" \in SyncJobStatus
        BY StatusNames
      <3>2. /\ Failed(q.jobs[j], "dead_letter", m) \in QueueJob
            /\ Failed(q.jobs[j], "dead_letter", m).status = "dead_letter"
            /\ Failed(q.jobs[j], "dead_letter", m).key = q.jobs[j].key
            /\ Failed(q.jobs[j], "dead_letter", m).attempts = m
        BY <2>1, <3>1, FailedJob
      <3> QED
        BY <2>1, <3>2
    <2> HIDE DEF bad
    <2>4. -lag \in Int
      BY SettingsAssumption
    <2>5. /\ job \in QueueJob /\ job.status = "dead_letter"
          /\ job.key = q.jobs[j].key /\ job.attempts = MaxAttempts
      BY <2>3, <2>4, WithDelayJob
    <2> HIDE DEF job
    <2> QED
      BY <1>2, <2>2, <2>5, DeadLetterKeeps
  <1> QED
    BY <1>1, <1>2

\* A retry rewrites one job and counts it.
LEMMA RetryKeeps ==
  ASSUME NEW q, QueueInv(q), NEW j \in DOMAIN q.jobs, NEW job,
         JobStep(q.jobs[j], job), ~HasLease(job)
  PROVE  Keeps(q, Retry(q, j, job))
  <1> DEFINE s == SetJob(q, j, job)
             p == Retry(q, j, job)
  <1>1. Rewrites(q, s) /\ s.jobs = [q.jobs EXCEPT ![j] = job]
    BY SetJobRewrites
  <1>2. q.retryCount + 1 \in Nat
    BY DEF QueueInv, JobQueueState
  <1>3. p = [s EXCEPT !.retryCount = q.retryCount + 1]
    BY DEF Retry
  <1>4. s \in JobQueueState
    BY <1>1 DEF Rewrites
  <1> HIDE DEF s, p
  <1>5. /\ p \in JobQueueState
        /\ p.jobs = s.jobs
        /\ p.deadLetters = s.deadLetters
        /\ p.failureCount = s.failureCount
    BY <1>2, <1>3, <1>4 DEF JobQueueState
  <1>6. Rewrites(q, p)
    BY <1>1, <1>5 DEF Rewrites
  <1>7. activeLeases(p) \subseteq activeLeases(q)
    BY <1>1, <1>5 DEF activeLeases
  <1>8. Keeps(q, p)
    BY <1>6, <1>7, RewritesKeeps
  <1> QED
    BY <1>8 DEF p

\* Fail retries while attempts are left and dead-letters the job after.
LEMMA FailKeeps ==
  ASSUME NEW q, QueueInv(q), NEW j \in DOMAIN q.jobs, NEW lag \in 0 .. MaxLag
  PROVE  Keeps(q, Fail(q, j, lag))
  <1> DEFINE n == q.jobs[j].attempts + 1
  <1>1. CASE Terminal(q, j)
    BY <1>1, UnchangedKeeps DEF Fail
  <1>2. CASE ~Terminal(q, j)
    <2>1. /\ q.jobs[j] \in QueueJob /\ q.jobs[j].attempts \in Nat
          /\ n \in 1 .. MaxAttempts /\ n \in 0 .. MaxAttempts
      BY <1>2, AttemptsLeft, SettingsAssumption
    <2>2. CASE n >= MaxAttempts
      <3> DEFINE job == Failed(q.jobs[j], "dead_letter", n)
      <3>1. n = MaxAttempts
        BY <2>1, <2>2, SettingsAssumption
      <3>2. Fail(q, j, lag) = AddDeadLetter(q, j, job)
        BY <1>2, <2>2 DEF Fail
      <3> HIDE DEF n
      <3>3. /\ job \in QueueJob /\ job.status = "dead_letter"
            /\ job.key = q.jobs[j].key /\ job.attempts = MaxAttempts
        <4>1. "dead_letter" \in SyncJobStatus
          BY StatusNames
        <4>2. /\ Failed(q.jobs[j], "dead_letter", n) \in QueueJob
              /\ Failed(q.jobs[j], "dead_letter", n).status = "dead_letter"
              /\ Failed(q.jobs[j], "dead_letter", n).key = q.jobs[j].key
              /\ Failed(q.jobs[j], "dead_letter", n).attempts = n
          BY <2>1, <4>1, FailedJob
        <4> QED
          BY <3>1, <4>2
      <3> HIDE DEF job
      <3> QED
        BY <1>2, <3>2, <3>3, DeadLetterKeeps
    <2>3. CASE ~(n >= MaxAttempts)
      <3> DEFINE bad == Failed(q.jobs[j], "pending", n)
                 t   == Clip(Backoff(n) - lag)
                 job == WithDelay(bad, t)
      <3>1. Fail(q, j, lag) = Retry(q, j, job)
        BY <1>2, <2>3 DEF Fail
      <3>2. q.jobs[j].attempts <= n /\ n # MaxAttempts
        BY <2>1, <2>3, SettingsAssumption
      <3> HIDE DEF n
      <3>3. t \in Int
        <4>1. n - 1 \in 0 .. MaxAttempts
          BY <2>1, SettingsAssumption
        <4>2. 2^(n - 1) \in Nat
          BY <4>1, PowersAssumption
        <4>3. Backoff(n) \in Int
          BY <4>2, SettingsAssumption DEF Backoff
        <4>4. Backoff(n) - lag \in Int
          BY <4>3, SettingsAssumption
        <4> QED
          BY <4>4, ClipInt
      <3>4. /\ bad \in QueueJob /\ bad.status = "pending"
            /\ bad.key = q.jobs[j].key /\ bad.attempts = n
        <4>1. "pending" \in SyncJobStatus
          BY StatusNames
        <4> QED
          BY <2>1, <4>1, FailedJob
      <3> HIDE DEF bad, t
      <3>5. /\ job \in QueueJob /\ job.status = "pending"
            /\ job.key = q.jobs[j].key /\ job.attempts = n
        BY <3>3, <3>4, WithDelayJob
      <3> HIDE DEF job
      <3>6. JobStep(q.jobs[j], job) /\ ~HasLease(job)
        BY <1>2, <3>2, <3>5, TerminalStatus DEF JobStep, HasLease
      <3> QED
        BY <3>1, <3>6, RetryKeeps
    <2> QED
      BY <2>2, <2>3
  <1> QED
    BY <1>1, <1>2

\* Stamping a record as replayed leaves the jobs and the ledger alone.
LEMMA StampQueue ==
  ASSUME NEW q, QueueInv(q), NEW r \in DOMAIN q.deadLetters
  PROVE  /\ Keeps(q, Stamp(q, r))
         /\ Stamp(q, r) \in JobQueueState
         /\ Stamp(q, r).jobs = q.jobs
  <1> DEFINE d == [q.deadLetters EXCEPT ![r] = Stamped(q.deadLetters[r])]
             p == Stamp(q, r)
  <1>1. q \in JobQueueState /\ q.deadLetters \in Seq(DeadLetterRecord)
    BY DEF QueueInv, JobQueueState
  <1>2. q.deadLetters[r] \in DeadLetterRecord
    BY <1>1
  <1>3. /\ Stamped(q.deadLetters[r]) \in DeadLetterRecord
        /\ Stamped(q.deadLetters[r]).job = q.deadLetters[r].job
        /\ Stamped(q.deadLetters[r]).replayed
    BY <1>2 DEF Stamped, DeadLetterRecord
  <1>4. /\ d \in Seq(DeadLetterRecord)
        /\ Len(d) = Len(q.deadLetters)
        /\ DOMAIN d = DOMAIN q.deadLetters
        /\ d[r] = Stamped(q.deadLetters[r])
        /\ \A x \in DOMAIN q.deadLetters : x # r => d[x] = q.deadLetters[x]
    BY <1>1, <1>3
  <1>5. p = [q EXCEPT !.deadLetters = d]
    BY DEF Stamp
  <1> HIDE DEF d, p
  <1>6. /\ p \in JobQueueState
        /\ p.jobs = q.jobs
        /\ p.deadLetters = d
        /\ p.failureCount = q.failureCount
    BY <1>1, <1>4, <1>5 DEF JobQueueState
  <1>7. \A x \in DOMAIN q.deadLetters : d[x].job = q.deadLetters[x].job
    BY <1>3, <1>4
  <1>8. DeadLetterLedgerIn(p)
    BY <1>4, <1>6, <1>7 DEF QueueInv, DeadLetterLedgerIn
  <1>9. QueueInv(p)
    BY <1>6, <1>8 DEF QueueInv, UniqueActiveKeyIn, AttemptBudgetIn
  <1>10. HistoryKept(q, p)
    <2>1. HistoryKept(q, q)
      BY Unchanged
    <2>2. \A x \in DOMAIN q.deadLetters : q.deadLetters[x].replayed => d[x].replayed
      BY <1>3, <1>4
    <2> QED
      BY <1>4, <1>6, <1>7, <2>1, <2>2 DEF HistoryKept
  <1>11. activeLeases(p) = activeLeases(q)
    BY <1>6 DEF activeLeases
  <1>12. Keeps(q, p) /\ p \in JobQueueState /\ p.jobs = q.jobs
    BY <1>6, <1>9, <1>10, <1>11 DEF Keeps, LeaseBoundIn
  <1> QED
    BY <1>12 DEF p

\* ReplayDeadLetter stamps the record and appends a job if the key is free.
LEMMA ReplayDeadLetterKeeps ==
  ASSUME NEW q, QueueInv(q), NEW r \in DOMAIN q.deadLetters,
         NEW corr \in Correlations \cup {NoCorrelation}
  PROVE  Keeps(q, ReplayDeadLetter(q, r, corr))
  <1> DEFINE rec  == q.deadLetters[r]
             c    == IF corr = NoCorrelation THEN rec.corr ELSE corr
             job  == NewQueueJob(rec.key, c)
             s    == Stamp(q, r)
             jobs == Append(q.jobs, job)
             t    == SetJobs(s, jobs)
             p    == [t EXCEPT !.replayCount = q.replayCount + 1]
  <1>1. Keeps(q, s) /\ s \in JobQueueState /\ s.jobs = q.jobs /\ QueueInv(s)
    BY StampQueue DEF Keeps
  <1>2. CASE Duplicate(q, rec.key)
    BY <1>1, <1>2 DEF ReplayDeadLetter
  <1>3. CASE ~Duplicate(q, rec.key)
    <2>0. ReplayDeadLetter(q, r, corr) = p
      BY <1>3 DEF ReplayDeadLetter
    <2>1. rec \in DeadLetterRecord /\ q.replayCount + 1 \in Nat /\ q.jobs \in Seq(QueueJob)
      BY DEF QueueInv, JobQueueState
    <2>2. rec.key \in Keys \cup {NoKey} /\ c \in Correlations \cup {NoCorrelation}
      BY <2>1 DEF DeadLetterRecord
    <2> HIDE DEF rec, c, s
    <2>3. /\ job \in QueueJob /\ job.key = rec.key
          /\ job.status = "pending" /\ job.attempts = 0
      BY <2>2, NewJob
    <2> HIDE DEF job
    <2>4. jobs \in Seq(QueueJob)
      BY <2>1, <2>3
    <2> HIDE DEF jobs
    <2>5. /\ t \in JobQueueState
          /\ t.jobs = jobs
          /\ t.deadLetters = s.deadLetters
          /\ t.failureCount = s.failureCount
      BY <1>1, <2>4, SetJobsQueue
    <2> HIDE DEF t
    <2>6. /\ p \in JobQueueState
          /\ p.jobs = jobs
          /\ p.deadLetters = s.deadLetters
          /\ p.failureCount = s.failureCount
      BY <2>1, <2>5 DEF JobQueueState
    <2> HIDE DEF p
    <2>7. p.jobs = Append(s.jobs, job)
      BY <1>1, <2>6 DEF jobs
    <2>8. ~Duplicate(s, job.key)
      BY <1>1, <1>3, <2>3 DEF Duplicate
    <2>9. Keeps(s, p)
      BY <1>1, <2>3, <2>6, <2>7, <2>8, AppendKeeps
    <2> QED
      BY <1>1, <2>0, <2>9, KeepsTrans
  <1> QED
    BY <1>2, <1>3
=============================================================================
