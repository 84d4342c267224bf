------------------------------ MODULE SyncRuns ------------------------------
(***************************************************************************)
(* The ingestor's executions and the table github_sync_runs they report    *)
(* to (executor.go, store.go, service.go): requests are queued as rows,    *)
(* executions mark their row running, take the locks of a user sync, fetch *)
(* from GitHub, and finish their row or insert one; a listing first marks  *)
(* overdue rows failed.                                                    *)
(*                                                                         *)
(* An execution is a handler goroutine of a pod.  The caller may give up   *)
(* at any time, which cancels its context; pods crash; the session that    *)
(* holds a user's advisory lock may be lost while the sync goes on, which  *)
(* never looks at it again.  The statements that mark a row running or     *)
(* finish it read their candidate without a lock and then write by its     *)
(* id, so they are two steps.  The rows of child syncs (one per pull       *)
(* request or repository) have correlations of their own and are left out. *)
(* Times are ages: of a finished row since it finished, of another since   *)
(* started_at.                                                             *)
(***************************************************************************)
EXTENDS Integers, Sequences, FiniteSets

CONSTANTS
  Requests,      \* records [corr, mode, subject]
  Execs, Pod,    \* execution slots and the pod each one runs on
  ActiveWindow, QueuedWindow,
  MaxRows, MaxFaults   \* bounds

Modes == {"installation", "user", "repository", "pull_request", "review", "issue", "commit"}

ASSUME SyncRunsAssumption ==
  /\ Requests # {} /\ \A r \in Requests : r.mode \in Modes
  /\ {"free", "orphan"} \cap Execs = {}
  /\ {ActiveWindow, QueuedWindow} \subseteq Nat
  /\ 0 < ActiveWindow /\ ActiveWindow <= QueuedWindow
  /\ MaxRows \in Nat /\ MaxFaults \in Nat

VARIABLES
  runs,      \* rows [corr, mode, subject, status, finished, age]
  exec,      \* exec[e]: the state of an execution
  lease,     \* lease[s]: session that holds the advisory lock of user s
  answered,  \* history: rows [row, end, contested] of the answers
             \* "completed" and "partial" given to callers
  faults

vars == <<runs, exec, lease, answered, faults>>

Free == "free"
Orphan == "orphan"      \* a lost session PostgreSQL has not noticed yet

Subjects == {r.subject : r \in Requests}
OpenStatus == {"queued", "running"}
isTerminalSyncRunStatus(status) == status \in {"completed", "partial", "failed"}

\* row: the candidate of the statement under way, NoRow when the statement
\* found none, Unread when there is no such statement.
Unread == -1
NoRow == 0
NoExec == [pc |-> "idle", req |-> CHOOSE r \in Requests : TRUE, outcome |-> "none",
           row |-> Unread, cancelled |-> FALSE, lost |-> FALSE]

Init ==
  /\ runs = <<>>
  /\ exec = [e \in Execs |-> NoExec]
  /\ lease = [s \in Subjects |-> Free]
  /\ answered = {}
  /\ faults = 0

Fault == faults < MaxFaults /\ faults' = faults + 1

----------------------------------------------------------------------------
(* The table.                                                              *)

Row(req, status) ==
  [corr |-> req.corr, mode |-> req.mode, subject |-> req.subject,
   status |-> status, finished |-> isTerminalSyncRunStatus(status), age |-> 0]

\* Mutant: finished rows are finished again.
CandidatesOfAnyAge(rows, req, states) ==
  {i \in DOMAIN rows : rows[i].corr = req.corr /\ rows[i].mode = req.mode
                       /\ rows[i].subject = req.subject}

\* Unfinished rows of the request in one of the given states; the statement
\* takes the one that started last.
Candidates(rows, req, states) ==
  {i \in DOMAIN rows : /\ rows[i].corr = req.corr /\ rows[i].mode = req.mode
                       /\ rows[i].subject = req.subject
                       /\ ~rows[i].finished /\ rows[i].status \in states}
Newest(rows, I) == {i \in I : \A k \in I : rows[i].age <= rows[k].age}

RecordQueuedSyncRequest(req) ==
  /\ Len(runs) < MaxRows
  /\ runs' = Append(runs, Row(req, "queued"))
  /\ UNCHANGED <<exec, lease, answered, faults>>

Picked(rows, req, states) ==
  LET open == Candidates(rows, req, states)
  IN IF open = {} THEN {NoRow} ELSE Newest(rows, open)

\* The second half of MarkSyncRunRunning: finished_at stays as it is, also
\* when the row was finished since it was picked.
Running(row) ==
  [row EXCEPT !.status = "running", !.age = IF row.finished THEN @ ELSE 0]

\* Mutant: an outcome without an open row is not recorded.
InsertSyncRunFinalizesOnly(i, req, status) ==
  runs' = IF i = NoRow THEN runs ELSE [runs EXCEPT ![i] = Row(req, status)]

\* The second half of InsertSyncRun with a terminal status: the picked row is
\* finished, whatever it has become, or a row is inserted when none was found.
InsertSyncRun(i, req, status) ==
  IF i = NoRow
  THEN Len(runs) < MaxRows /\ runs' = Append(runs, Row(req, status))
  ELSE runs' = [runs EXCEPT ![i] = Row(req, status)]

\* Mutant: only running rows are reaped.
OverdueIfRunning(row) ==
  ~row.finished /\ row.status = "running" /\ row.age >= ActiveWindow

Overdue(row) ==
  /\ ~row.finished
  /\ \/ row.status = "running" /\ row.age >= ActiveWindow
     \/ row.status = "queued" /\ row.age >= QueuedWindow

\* MarkStaleSyncRunsFailed, the first statement of every listing.
MarkStaleSyncRunsFailed ==
  /\ \E i \in DOMAIN runs : Overdue(runs[i])
  /\ runs' = [i \in DOMAIN runs |->
                IF Overdue(runs[i]) THEN Row(runs[i], "failed") ELSE runs[i]]
  /\ UNCHANGED <<exec, lease, answered, faults>>

\* An open status of a row that is finished or overdue is shown as a failure.
ShownAlone(row) ==
  IF row.status \in OpenStatus /\ (row.finished \/ Overdue(row)) THEN "failed" ELSE row.status

\* supersedeInProgressRunsWithTerminalCorrelation: a terminal run of the same
\* correlation, or else of the same subject, that ended after the row started.
Superseded(rows, i) ==
  LET terminal == {k \in DOMAIN rows : isTerminalSyncRunStatus(ShownAlone(rows[k]))
                                        /\ rows[k].mode = rows[i].mode}
      same     == {k \in terminal : rows[k].corr = rows[i].corr}
      logical  == {k \in terminal : rows[k].subject = rows[i].subject}
  IN \E k \in IF same # {} THEN same ELSE logical : rows[k].age <= rows[i].age

\* What a listing shows: normalizeSyncRunViews after the reaping.
normalizeSyncRunViews(rows) ==
  [i \in DOMAIN rows |->
     IF ShownAlone(rows[i]) \in OpenStatus /\ Superseded(rows, i)
     THEN "failed" ELSE ShownAlone(rows[i])]

----------------------------------------------------------------------------
(* The outcome of fetching: "ok", an error that may be skipped (timeout,   *)
(* 403, 404, 409, 410, 451), or another error.                             *)

Fetches == {"ok", "skippable", "error"}

\* Repository first, then pull requests, issues and commits.
SyncRepository(repository, lists) ==
  IF repository # "ok" \/ "error" \in lists THEN "failed"
  ELSE IF "skippable" \in lists THEN "partial" ELSE "completed"

\* SyncPullRequest and SyncReview: reviews, comments and files may be missing.
syncPullRequestSurface(entity, details) ==
  IF entity # "ok" THEN "failed"
  ELSE IF details # {"ok"} THEN "partial" ELSE "completed"

\* SyncIssue and SyncCommit.
SyncItem(entity) == IF entity = "ok" THEN "completed" ELSE "failed"

\* The repositories of an installation one by one; the first failure ends it.
SyncInstallation(inventory, children) ==
  IF inventory # "ok" \/ "failed" \in children THEN "failed"
  ELSE IF "partial" \in children THEN "partial" ELSE "completed"

\* SyncUser: only the search can fail.  It is partial when pull requests failed
\* or were skipped, and when the history is not whole: an incomplete or
\* overflowing search, a backfill that goes on, nothing found, nothing merged,
\* or a cursor that could not be saved.
SyncUser(search, whole, children) ==
  IF search # "ok" THEN "failed"
  ELSE IF whole /\ "failed" \notin children THEN "completed" ELSE "partial"

Outcomes(mode) ==
  LET SomeOf(S) == SUBSET S \ {{}}
      children  == {SyncRepository(f, l) : f \in Fetches, l \in SomeOf(Fetches)}
      pulls     == {syncPullRequestSurface(f, d) : f \in Fetches, d \in SomeOf(Fetches)}
  IN CASE mode = "repository"   -> children
       [] mode \in {"pull_request", "review"} -> pulls
       [] mode \in {"issue", "commit"} -> {SyncItem(f) : f \in Fetches}
       [] mode = "installation" -> {SyncInstallation(f, c) : f \in Fetches,
                                                             c \in SomeOf(children)}
       [] mode = "user"         -> {SyncUser(f, w, c) : f \in Fetches, w \in BOOLEAN,
                                                          c \in SomeOf(pulls)}

----------------------------------------------------------------------------
(* An execution.                                                           *)

Moved(x, pc, i) == [x EXCEPT !.pc = pc, !.row = i]
Set(e, pc) ==
  exec' = [exec EXCEPT ![e] = IF pc = "idle" THEN NoExec ELSE Moved(@, pc, Unread)]
IsUser(e) == exec[e].req.mode = "user"
Subject(e) == exec[e].req.subject

\* A statement fails when its context is cancelled, or for a reason of its own.
Fails(cancelled) == IF cancelled THEN UNCHANGED faults ELSE Fault

\* The handler is called; its statement picks the queued row of the request.
Begin(e, req) ==
  /\ exec[e].pc = "idle"
  /\ \E i \in Picked(runs, req, {"queued"}) :
       exec' = [exec EXCEPT ![e] = [Moved(NoExec, "mark", i) EXCEPT !.req = req]]
  /\ UNCHANGED <<runs, lease, answered, faults>>

\* The row is marked running; an error of the statement is ignored.  A caller
\* that is not the user is refused with a failed row.
MarkSyncRunRunning(e) ==
  /\ exec[e].pc = "mark"
  /\ \/ /\ runs' = IF exec[e].row = NoRow THEN runs
                     ELSE [runs EXCEPT ![exec[e].row] = Running(@)]
        /\ UNCHANGED faults
     \/ UNCHANGED runs /\ Fails(exec[e].cancelled)
  /\ \E pc \in IF IsUser(e) THEN {"lock", "refused"} ELSE {"work"} : Set(e, pc)
  /\ UNCHANGED <<lease, answered>>

InUserSync == {"lease", "work", "report", "unlock"}
LocallyLocked(e) ==
  \E o \in Execs : /\ o # e /\ Pod[o] = Pod[e] /\ IsUser(o)
                   /\ Subject(o) = Subject(e) /\ exec[o].pc \in InUserSync

\* tryAcquireUserSync: the map of this pod.
tryAcquireUserSync(e) ==
  /\ exec[e].pc = "lock"
  /\ exec' = [exec EXCEPT ![e].pc = IF LocallyLocked(e) THEN "refused" ELSE "lease"]
  /\ UNCHANGED <<runs, lease, answered, faults>>

\* Mutant: the advisory lock is not looked at.
TryAcquireWithoutLock(e) ==
  /\ exec[e].pc = "lease"
  /\ Set(e, "work") /\ lease' = [lease EXCEPT ![Subject(e)] = e]
  /\ UNCHANGED <<runs, answered, faults>>

\* pg_try_advisory_lock in a session of its own; refused when another session
\* holds it, be it a lost one, and when the statement fails.
TryAcquireUserSyncLease(e) ==
  /\ exec[e].pc = "lease"
  /\ \/ /\ lease[Subject(e)] = Free
        /\ lease' = [lease EXCEPT ![Subject(e)] = e]
        /\ Set(e, "work") /\ UNCHANGED faults
     \/ /\ lease[Subject(e)] # Free
        /\ Set(e, "refused") /\ UNCHANGED <<lease, faults>>
     \/ Set(e, "refused") /\ UNCHANGED lease /\ Fault
  /\ UNCHANGED <<runs, answered>>

Work(e) ==
  /\ exec[e].pc = "work"
  /\ \E outcome \in Outcomes(exec[e].req.mode) :
       /\ exec[e].cancelled /\ ~IsUser(e) => outcome = "failed"
       /\ exec' = [exec EXCEPT ![e].pc = "report", ![e].outcome = outcome]
  /\ UNCHANGED <<runs, lease, answered, faults>>

Leave(e) == IF IsUser(e) /\ exec[e].pc = "report" THEN "unlock" ELSE "idle"

\* What is recorded: an outcome, in the transaction that stores the data, or a
\* failure (recordFailedSyncRun and its siblings).  A user sync detaches the
\* first from the caller's context; all else needs a caller that is there.
Succeeded(e) == exec[e].pc = "report" /\ exec[e].outcome # "failed"
Cancelled(e) == exec[e].cancelled /\ ~(IsUser(e) /\ Succeeded(e))

\* The first half of the statement: it picks the open row.
PickOpenRow(e) ==
  /\ exec[e].pc \in {"report", "refused"} /\ exec[e].row = Unread /\ ~Cancelled(e)
  /\ \E i \in Picked(runs, exec[e].req, OpenStatus) : exec' = [exec EXCEPT ![e].row = i]
  /\ UNCHANGED <<runs, lease, answered, faults>>

\* contested: another statement has picked the row as well.
Contested(e) ==
  exec[e].row # NoRow /\ \E o \in Execs \ {e} : exec[o].row = exec[e].row

ReportOutcome(e) ==
  /\ Succeeded(e) /\ exec[e].row # Unread /\ ~Cancelled(e)
  /\ InsertSyncRun(exec[e].row, exec[e].req, exec[e].outcome)
  /\ answered' = answered \cup
       {[row |-> IF exec[e].row = NoRow THEN Len(runs) + 1 ELSE exec[e].row,
         end |-> exec[e].outcome, contested |-> Contested(e)]}
  /\ Set(e, Leave(e))
  /\ UNCHANGED <<lease, faults>>

\* The transaction fails and its caller is told so, after a failure is recorded.
OutcomeFails(e) ==
  /\ Succeeded(e) /\ Fails(Cancelled(e))
  /\ exec' = [exec EXCEPT ![e].outcome = "failed", ![e].row = Unread]
  /\ UNCHANGED <<runs, lease, answered>>

\* An error of this statement is ignored.
ReportFailure(e) ==
  /\ exec[e].pc \in {"report", "refused"} /\ ~Succeeded(e)
  /\ \/ /\ exec[e].row # Unread /\ ~Cancelled(e)
        /\ InsertSyncRun(exec[e].row, exec[e].req, "failed")
        /\ UNCHANGED faults
     \/ UNCHANGED runs /\ Fails(Cancelled(e))
  /\ Set(e, Leave(e))
  /\ UNCHANGED <<lease, answered>>

\* pg_advisory_unlock within two seconds, or the connection is closed and the
\* lock goes when the server notices; nothing to do for a session that was
\* lost before.  Then releaseUserSync.
Unlock(e) ==
  /\ exec[e].pc = "unlock"
  /\ \/ exec[e].lost /\ UNCHANGED <<lease, faults>>
     \/ ~exec[e].lost /\ lease' = [lease EXCEPT ![Subject(e)] = Free] /\ UNCHANGED faults
     \/ ~exec[e].lost /\ lease' = [lease EXCEPT ![Subject(e)] = Orphan] /\ Fault
  /\ Set(e, "idle")
  /\ UNCHANGED <<runs, answered>>

CallerGone(e) ==
  /\ exec[e].pc \in {"mark", "lock", "lease", "work", "report", "refused"}
  /\ ~exec[e].cancelled
  /\ Fault
  /\ exec' = [exec EXCEPT ![e].cancelled = TRUE]
  /\ UNCHANGED <<runs, lease, answered>>

\* The session that holds a user's lock breaks; the sync goes on without it.
LoseSession(e) ==
  /\ \E s \in Subjects : lease[s] = e /\ lease' = [lease EXCEPT ![s] = Orphan]
  /\ Fault
  /\ exec' = [exec EXCEPT ![e].lost = TRUE]
  /\ UNCHANGED <<runs, answered>>

\* A pod dies with its goroutines and its map; its sessions are orphans.
Crash(p) ==
  /\ Fault
  /\ exec' = [e \in Execs |-> IF Pod[e] = p THEN NoExec ELSE exec[e]]
  /\ lease' = [s \in Subjects |->
                 IF lease[s] \in {e \in Execs : Pod[e] = p} THEN Orphan ELSE lease[s]]
  /\ UNCHANGED <<runs, answered>>

\* PostgreSQL ends a lost session.
EndSession(s) ==
  /\ lease[s] = Orphan
  /\ lease' = [lease EXCEPT ![s] = Free]
  /\ UNCHANGED <<runs, exec, answered, faults>>

Tick ==
  /\ \E i \in DOMAIN runs : runs[i].age < QueuedWindow
  /\ runs' = [i \in DOMAIN runs |->
                [runs[i] EXCEPT !.age = IF @ < QueuedWindow THEN @ + 1 ELSE @]]
  /\ UNCHANGED <<exec, lease, answered, faults>>

Step(e) ==
  \/ MarkSyncRunRunning(e) \/ tryAcquireUserSync(e) \/ TryAcquireUserSyncLease(e)
  \/ Work(e) \/ PickOpenRow(e) \/ ReportOutcome(e) \/ OutcomeFails(e)
  \/ ReportFailure(e) \/ Unlock(e)

Next ==
  \/ \E r \in Requests : RecordQueuedSyncRequest(r)
  \/ \E e \in Execs, r \in Requests : Begin(e, r)
  \/ \E e \in Execs : Step(e) \/ CallerGone(e) \/ LoseSession(e)
  \/ \E p \in {Pod[e] : e \in Execs} : Crash(p)
  \/ \E s \in Subjects : EndSession(s)
  \/ MarkStaleSyncRunsFailed
  \/ Tick

\* Time passes and somebody lists the runs again and again.
Fairness == WF_vars(Tick) /\ WF_vars(MarkStaleSyncRunsFailed)

Spec == Init /\ [][Next]_vars /\ Fairness

----------------------------------------------------------------------------
Syncing(e) == IsUser(e) /\ exec[e].pc \in {"work", "report"}

\* Two executions sync the same user at a time only on different pods, and
\* only when one of them has lost the session of its lock: crashes, failed
\* unlocks and sessions the server still keeps do not lead to it.  A lease is
\* held by an execution inside that user's sync.
OneSyncPerUser ==
  /\ \A s \in Subjects :
       lease[s] \in Execs => exec[lease[s]].pc \in InUserSync /\ Subject(lease[s]) = s
  /\ \A e, o \in Execs :
       (e # o /\ Syncing(e) /\ Syncing(o) /\ Subject(e) = Subject(o)) =>
         Pod[e] # Pod[o] /\ (exec[e].lost \/ exec[o].lost)

\* A caller that was told how its sync ended finds that outcome in the
\* listing, although a reaper, a refused second request of the same
\* correlation or a repeated request may have closed its row before; unless
\* another statement had picked the row by then, which may overwrite it with
\* another end but never opens it again.
AnsweredIsShown ==
  \A a \in answered :
    /\ a.row \in DOMAIN runs
    /\ LET shown == normalizeSyncRunViews(runs)[a.row]
       IN isTerminalSyncRunStatus(shown) /\ (a.contested \/ shown = a.end)

\* Finished, and no statement under way has picked it.
Settled(i) == runs[i].finished /\ \A e \in Execs : exec[e].row # i

\* How a settled run ended is never rewritten, nobody picks it again, no
\* finished row loses its end, and no row disappears.
FinishedRunsAreFinal ==
  [][\A i \in DOMAIN runs :
        /\ i \in DOMAIN runs'
        /\ runs[i].finished => runs'[i].finished
        /\ Settled(i) => Settled(i)' /\ runs'[i].status = runs[i].status]_vars

\* No run stays queued or running for ever: its execution finishes it, or a
\* listing finds it overdue, also when its pod died or its caller left.
EveryRunEnds ==
  \A i \in 1 .. MaxRows :
     (i \in DOMAIN runs /\ ~runs[i].finished)
        ~> (i \in DOMAIN runs /\ runs[i].finished)
============================================================================
