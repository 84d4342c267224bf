----------------------- MODULE InMemoryJobQueueProofs -----------------------
(***************************************************************************)
(* InMemoryJobQueue for any number of jobs, any concurrency, any attempt   *)
(* budget and any clock lag: the invariants and the action property that   *)
(* the runs check on small instances.                                      *)
(***************************************************************************)
EXTENDS InMemoryJobQueue, JobQueueLemmas

\* The inductive invariant.
Inv == QueueInv(queue) /\ LeaseBound

\* A new queue satisfies the invariant.
LEMMA InitInv == Init => Inv
  <1> SUFFICES ASSUME Init PROVE Inv
    OBVIOUS
  <1>1. /\ queue.jobs = << >>
        /\ queue.deadLetters = << >>
        /\ queue.failureCount = 0
        /\ queue \in JobQueueState
    BY DEF Init, NewInMemoryJobQueue, JobQueueState
  <1>2. QueueInv(queue)
    BY <1>1 DEF QueueInv, UniqueActiveKeyIn, AttemptBudgetIn, DeadLetterLedgerIn
  <1>3. activeLeases(queue) = {}
    BY <1>1 DEF activeLeases
  <1>4. LeaseBound
    BY <1>3, FS_EmptySet, SettingsAssumption DEF LeaseBound, LeaseBoundIn
  <1> QED
    BY <1>2, <1>4 DEF Inv

\* Every call to the queue, and the passing of time, keeps the invariant and
\* the history.
LEMMA NextKeeps ==
  ASSUME Inv, Next
  PROVE  Keeps(queue, queue')
  <1>0. QueueInv(queue)
    BY DEF Inv
  <1>1. ASSUME NEW key \in Keys \cup {NoKey}, NEW corr \in Correlations \cup {NoCorrelation},
               CallEnqueueUnique(key, corr)
        PROVE  Keeps(queue, queue')
    BY <1>0, <1>1, EnqueueUniqueKeeps DEF CallEnqueueUnique
  <1>2. ASSUME NEW limit \in 0 .. MaxConcurrency + 1, NEW lag \in Lags,
               CallLeaseReady(limit, lag)
        PROVE  Keeps(queue, queue')
    <2>1. limit \in Int
      BY SettingsAssumption
    <2> QED
      BY <1>0, <1>2, <2>1, LeaseReadyKeeps DEF CallLeaseReady, Lags
  <1>3. ASSUME NEW j \in DOMAIN queue.jobs, NEW lag \in Lags, CallLeaseJob(j, lag)
        PROVE  Keeps(queue, queue')
    BY <1>0, <1>3, LeaseJobKeeps DEF CallLeaseJob, Lags
  <1>4. ASSUME NEW j \in DOMAIN queue.jobs, CallComplete(j)
        PROVE  Keeps(queue, queue')
    BY <1>0, <1>4, CompleteKeeps DEF CallComplete
  <1>5. ASSUME NEW j \in DOMAIN queue.jobs, CallPause(j)
        PROVE  Keeps(queue, queue')
    BY <1>0, <1>5, PauseKeeps DEF CallPause
  <1>6. ASSUME NEW j \in DOMAIN queue.jobs, NEW lag \in Lags, CallResume(j, lag)
        PROVE  Keeps(queue, queue')
    BY <1>0, <1>6, ResumeKeeps DEF CallResume, Lags
  <1>7. ASSUME NEW j \in DOMAIN queue.jobs, CallCancel(j)
        PROVE  Keeps(queue, queue')
    BY <1>0, <1>7, CancelKeeps DEF CallCancel
  <1>8. ASSUME NEW corr \in Correlations \cup {NoCorrelation}, CallCancelByCorrelation(corr)
        PROVE  Keeps(queue, queue')
    BY <1>0, <1>8, CancelByCorrelationKeeps DEF CallCancelByCorrelation
  <1>9. ASSUME NEW j \in DOMAIN queue.jobs, NEW lag \in Lags, CallFail(j, lag)
        PROVE  Keeps(queue, queue')
    BY <1>0, <1>9, FailKeeps DEF CallFail, Lags
  <1>10. ASSUME NEW j \in DOMAIN queue.jobs, NEW lag \in Lags, CallFailNonRetryable(j, lag)
         PROVE  Keeps(queue, queue')
    BY <1>0, <1>10, FailNonRetryableKeeps DEF CallFailNonRetryable, Lags
  <1>11. ASSUME NEW r \in DOMAIN queue.deadLetters, NEW corr \in Correlations \cup {NoCorrelation},
                CallReplayDeadLetter(r, corr)
         PROVE  Keeps(queue, queue')
    BY <1>0, <1>11, ReplayDeadLetterKeeps DEF CallReplayDeadLetter
  <1>12. CASE Read
    BY <1>0, <1>12, ExportKeeps DEF Read
  <1>13. CASE Tick
    BY <1>0, <1>13, PassTimeKeeps DEF Tick
  <1> QED
    BY <1>1, <1>2, <1>3, <1>4, <1>5, <1>6, <1>7, <1>8, <1>9, <1>10, <1>11, <1>12, <1>13
    DEF Next

\* The invariant holds in every state of every run of the queue.
THEOREM Invariance == Spec => []Inv
  <1>1. Init => Inv
    BY InitInv
  <1>2. Inv /\ [Next]_queue => Inv'
    <2> SUFFICES ASSUME Inv, [Next]_queue PROVE Inv'
      OBVIOUS
    <2>1. CASE Next
      <3>1. Keeps(queue, queue')
        BY <2>1, NextKeeps
      <3> QED
        BY <3>1 DEF Keeps, Inv, LeaseBound
    <2>2. CASE UNCHANGED queue
      BY <2>2 DEF Inv, LeaseBound
    <2> QED
      BY <2>1, <2>2
  <1> QED
    BY <1>1, <1>2, PTL DEF Spec

\* The queue always has its Go type; no report pushes attempts past the budget.
THEOREM TypeCorrect == Spec => []TypeOK
  <1>1. Inv => TypeOK
    BY DEF Inv, QueueInv, TypeOK
  <1> QED
    BY <1>1, Invariance, PTL

\* EnqueueUnique and ReplayDeadLetter deduplicate: two unfinished jobs never
\* share a dedupe key.
THEOREM KeysAreUnique == Spec => []UniqueActiveKey
  <1>1. Inv => UniqueActiveKey
    BY DEF Inv, QueueInv, UniqueActiveKey
  <1> QED
    BY <1>1, Invariance, PTL

\* LeaseReady and LeaseJob never exceed the worker concurrency.
THEOREM LeasesAreBounded == Spec => []LeaseBound
  <1>1. Inv => LeaseBound
    BY DEF Inv
  <1> QED
    BY <1>1, Invariance, PTL

\* A job is dead-lettered exactly when its attempts run out.
THEOREM AttemptsAreBudgeted == Spec => []AttemptBudget
  <1>1. Inv => AttemptBudget
    BY DEF Inv, QueueInv, AttemptBudget
  <1> QED
    BY <1>1, Invariance, PTL

\* The dead-letter records and the failure counter agree with the jobs.
THEOREM LedgerIsExact == Spec => []DeadLetterLedger
  <1>1. Inv => DeadLetterLedger
    BY DEF Inv, QueueInv, DeadLetterLedger
  <1> QED
    BY <1>1, Invariance, PTL

\* No operation reopens a finished job, gives an attempt back or drops a
\* dead-letter record.
THEOREM FinishedStaysFinished == Spec => TerminalIsFinal
  <1>1. Inv /\ [Next]_queue => [HistoryKept(queue, queue')]_queue
    BY NextKeeps DEF Keeps
  <1> QED
    BY <1>1, Invariance, PTL DEF Spec, TerminalIsFinal
=============================================================================
