--------------------------- MODULE IngestorProofs ---------------------------
(***************************************************************************)
(* For any number of users, requests, executions and pods, and whatever    *)
(* crashes, failed unlocks, lost sessions and callers that leave: two      *)
(* executions sync one user only on different pods and when one has lost   *)
(* its session, and finished runs that no statement has picked stay as     *)
(* they are.                                                               *)
(*                                                                         *)
(* The lease and the executions name each other: an execution inside a     *)
(* user's sync that has not lost its session holds that user's lease, and  *)
(* a lease held by an execution is that of the user it is syncing.  What   *)
(* the lease no longer excludes, the map of the pod still does.            *)
(*                                                                         *)
(* For any number of deliveries, request handlers and faults: a delivery   *)
(* passes the duplicate check once, and one that is marked enqueued was    *)
(* stored.  The row of the delivery store decides the first: no delivery   *)
(* passed the check without one, and rows are never deleted.  For the      *)
(* second, the status "enqueued" is written by a handler that comes from   *)
(* a committed transaction; nothing takes a payload out of the database    *)
(* again, so statuses that later requests overwrite do no harm.            *)
(*                                                                         *)
(* For any pull requests, limits, lookbacks, crashes and lost cursors: the *)
(* history of a user has no gap but those known to be missed, and every    *)
(* sync that counts brings its backfill nearer to the epoch.  A search     *)
(* that stops at a limit has found all that is newer than its oldest       *)
(* result, so the boundary behind that result passes nothing unseen; what  *)
(* lies between the boundary and the last sync is therefore in the         *)
(* database, in the selection of the running sync, or recorded as missed.  *)
(***************************************************************************)
EXTENDS SyncRuns, WebhookIntake, AuthoredHistory, TLAPS, SequenceTheorems,
        FiniteSetTheorems, WellFoundedInduction

Steps == {"idle", "mark", "lock", "lease", "work", "report", "refused", "unlock"}

\* Where only a user sync comes to, and where it holds its lease
UserSteps == {"lock", "lease", "refused", "unlock"}
Holding == {"work", "report", "unlock"}

Results == {"none", "failed"} \cup UNION {Outcomes(r.mode) : r \in Requests}

Executions ==
  [pc : Steps, req : Requests, outcome : Results, row : Int, cancelled : BOOLEAN,
   lost : BOOLEAN]

TypeOK ==
  /\ exec \in [Execs -> Executions]
  /\ lease \in [Subjects -> Execs \cup {Free, Orphan}]

OnlyUsersLock == \A e \in Execs : exec[e].pc \in UserSteps => IsUser(e)

HoldersAreNamed ==
  \A e \in Execs : (IsUser(e) /\ exec[e].pc \in Holding /\ ~exec[e].lost) => lease[Subject(e)] = e

NamedAreHolders ==
  \A s \in Subjects : lease[s] \in Execs =>
    /\ exec[lease[s]].pc \in Holding /\ ~exec[lease[s]].lost
    /\ IsUser(lease[s]) /\ Subject(lease[s]) = s

\* Only who held a lease can have lost it.
OnlyHoldersLose == \A e \in Execs : exec[e].lost => IsUser(e) /\ exec[e].pc \in Holding

\* The map of a pod lets one execution of a user pass.
Inside(e) == IsUser(e) /\ exec[e].pc \in InUserSync
OnePerPod ==
  \A e, o \in Execs :
    ~(e # o /\ Pod[e] = Pod[o] /\ Inside(e) /\ Inside(o) /\ Subject(e) = Subject(o))

Inv == TypeOK /\ OnlyUsersLock /\ HoldersAreNamed /\ NamedAreHolders /\ OnlyHoldersLose
       /\ OnePerPod

\* An execution that waits for a request.
LEMMA NoExecType ==
  NoExec \in Executions /\ NoExec.pc = "idle" /\ NoExec.row = Unread /\ ~NoExec.lost
<1>1. (CHOOSE r \in Requests : TRUE) \in Requests
  BY SyncRunsAssumption
<1>2. "none" \in Results
  BY DEF Results
<1> QED
  BY <1>1, <1>2 DEF NoExec, Executions, Steps, Unread

\* Nobody is inside anything at the beginning.
LEMMA InitInv == Init => Inv
<1> SUFFICES ASSUME Init PROVE Inv
  OBVIOUS
<1>1. NoExec \in Executions /\ NoExec.pc = "idle" /\ ~NoExec.lost
  BY NoExecType
<1>2. TypeOK
  BY <1>1 DEF Init, TypeOK
<1>3. \A e \in Execs : exec[e].pc = "idle" /\ ~exec[e].lost
  BY <1>1 DEF Init
<1>4. \A s \in Subjects : lease[s] \notin Execs
  BY SyncRunsAssumption DEF Init, Free
<1> QED
  BY <1>2, <1>3, <1>4 DEF Inv, OnlyUsersLock, HoldersAreNamed, NamedAreHolders, UserSteps,
                          Holding, OnlyHoldersLose, OnePerPod, Inside, InUserSync

\* A user that asks has a lease.
LEMMA SubjectType == TypeOK => \A e \in Execs : Subject(e) \in Subjects
  BY DEF TypeOK, Executions, Subject, Subjects

\* An execution moves on, with a candidate or without.
LEMMA MovedType ==
  ASSUME NEW x \in Executions, NEW pc \in Steps, NEW i \in Int
  PROVE  /\ Moved(x, pc, i) \in Executions
         /\ Moved(x, pc, i).pc = pc /\ Moved(x, pc, i).row = i
         /\ Moved(x, pc, i).req = x.req /\ Moved(x, pc, i).outcome = x.outcome
         /\ Moved(x, pc, i).lost = x.lost
<1> DEFINE y == [x EXCEPT !.pc = pc]
<1>1. y \in Executions /\ y.pc = pc /\ y.req = x.req /\ y.outcome = x.outcome /\ y.lost = x.lost
  BY DEF Executions
<1> HIDE DEF y
<1>2. /\ [y EXCEPT !.row = i] \in Executions
      /\ [y EXCEPT !.row = i].pc = pc /\ [y EXCEPT !.row = i].row = i
      /\ [y EXCEPT !.row = i].req = x.req /\ [y EXCEPT !.row = i].outcome = x.outcome
      /\ [y EXCEPT !.row = i].lost = x.lost
  BY <1>1 DEF Executions
<1> QED
  BY <1>2 DEF y, Moved

\* What Set does to an execution.
LEMMA SetMoves ==
  ASSUME TypeOK, NEW e \in Execs, NEW pc \in Steps, Set(e, pc)
  PROVE  /\ exec' \in [Execs -> Executions]
         /\ \A o \in Execs \ {e} : exec'[o] = exec[o]
         /\ exec'[e].pc = pc /\ exec'[e].row = Unread /\ (exec'[e].lost => exec[e].lost)
         /\ pc # "idle" => /\ exec'[e].req = exec[e].req /\ exec'[e].lost = exec[e].lost
                           /\ exec'[e].outcome = exec[e].outcome
<1>1. NoExec \in Executions /\ NoExec.pc = "idle" /\ NoExec.row = Unread /\ ~NoExec.lost
  BY NoExecType
<1>2. CASE pc = "idle"
  <2>1. exec' = [exec EXCEPT ![e] = NoExec]
    BY <1>2 DEF Set
  <2> QED
    BY <1>1, <1>2, <2>1 DEF TypeOK
<1>3. CASE pc # "idle"
  <2>1. exec' = [exec EXCEPT ![e] = Moved(exec[e], pc, Unread)]
    BY <1>3 DEF Set
  <2>2. Unread \in Int /\ exec[e] \in Executions
    BY DEF Unread, TypeOK
  <2> QED
    BY <1>3, <2>1, <2>2, MovedType DEF TypeOK
<1> QED
  BY <1>2, <1>3

\* Whoever was inside stays there or leaves; only the pod's map lets others in.
LEMMA PodKeeps ==
  ASSUME Inv, NEW e \in Execs, \A o \in Execs \ {e} : exec'[o] = exec[o],
         Inside(e)' => /\ Subject(e)' = Subject(e)
                       /\ Inside(e) \/ ~LocallyLocked(e)
  PROVE  OnePerPod'
<1>1. ASSUME NEW o \in Execs \ {e}, Pod[o] = Pod[e], Inside(e)', Inside(o)',
             Subject(o)' = Subject(e)'
      PROVE  FALSE
  <2>1. Inside(o) /\ Subject(o) = Subject(e)
    BY <1>1 DEF Inside, IsUser, Subject
  <2>2. LocallyLocked(e)
    BY <1>1, <2>1 DEF LocallyLocked, Inside
  <2> QED
    BY <1>1, <2>1, <2>2 DEF Inv, OnePerPod
<1>2. \A o \in Execs \ {e} : (Inside(o)' <=> Inside(o)) /\ Subject(o)' = Subject(o)
  BY DEF Inside, IsUser, Subject
<1> QED
  BY <1>1, <1>2 DEF Inv, OnePerPod

\* A step outside the critical section that takes no lease.
LEMMA OutsideKeeps ==
  ASSUME Inv, NEW e \in Execs,
         exec' \in [Execs -> Executions],
         \A o \in Execs \ {e} : exec'[o] = exec[o],
         ~(IsUser(e) /\ exec[e].pc \in Holding),
         exec'[e].pc \in UserSteps => exec'[e].req.mode = "user",
         exec'[e].pc \in Holding => exec'[e].req.mode # "user",
         exec'[e].lost => exec[e].lost,
         exec'[e].pc = "lease" => exec'[e].req = exec[e].req /\ ~LocallyLocked(e),
         UNCHANGED lease
  PROVE  Inv'
<1>1. TypeOK'
  BY DEF Inv, TypeOK
<1>2. OnlyUsersLock'
  BY DEF Inv, OnlyUsersLock, IsUser
<1>3. HoldersAreNamed'
  BY DEF Inv, HoldersAreNamed, IsUser, Subject
<1>4. NamedAreHolders'
  BY DEF Inv, NamedAreHolders, IsUser, Subject
<1>5. Inside(e)' => exec'[e].pc = "lease"
  BY DEF Inside, InUserSync, Holding, IsUser
<1>6. OnePerPod'
  BY <1>5, PodKeeps DEF Subject
<1>7. OnlyHoldersLose'
  BY DEF Inv, OnlyHoldersLose, IsUser
<1> QED
  BY <1>1, <1>2, <1>3, <1>4, <1>6, <1>7 DEF Inv

\* A step inside the critical section.
LEMMA InsideKeeps ==
  ASSUME Inv, NEW e \in Execs,
         exec' \in [Execs -> Executions],
         \A o \in Execs \ {e} : exec'[o] = exec[o],
         exec'[e].req = exec[e].req, exec'[e].lost = exec[e].lost,
         exec[e].pc \in Holding, exec'[e].pc \in Holding,
         exec'[e].pc = "unlock" => IsUser(e),
         UNCHANGED lease
  PROVE  Inv'
<1>1. TypeOK'
  BY DEF Inv, TypeOK
<1>2. OnlyUsersLock'
  BY DEF Inv, OnlyUsersLock, IsUser, Holding, UserSteps
<1>3. HoldersAreNamed'
  BY DEF Inv, HoldersAreNamed, IsUser, Subject
<1>4. NamedAreHolders'
  BY DEF Inv, NamedAreHolders, IsUser, Subject
<1>5. Subject(e)' = Subject(e) /\ (Inside(e)' => Inside(e))
  BY DEF Inside, InUserSync, Holding, IsUser, Subject
<1>6. OnePerPod'
  BY <1>5, PodKeeps
<1>7. OnlyHoldersLose'
  BY DEF Inv, OnlyHoldersLose, IsUser
<1> QED
  BY <1>1, <1>2, <1>3, <1>4, <1>6, <1>7 DEF Inv

----------------------------------------------------------------------------
(* The rows.                                                               *)

Ends == {"completed", "partial", "failed"}

Rows ==
  [corr : {r.corr : r \in Requests}, mode : {r.mode : r \in Requests}, subject : Subjects,
   status : OpenStatus \cup Ends, finished : BOOLEAN, age : Nat]

RowsOK == runs \in Seq(Rows)

\* A statement picks an unfinished row, or none.
LEMMA PickedType ==
  ASSUME RowsOK, NEW r, NEW states, NEW i \in Picked(runs, r, states)
  PROVE  i \in Nat /\ (i # NoRow => i \in DOMAIN runs /\ ~runs[i].finished)
<1>1. DOMAIN runs \subseteq Nat
  BY DEF RowsOK
<1> QED
  BY <1>1 DEF Picked, Newest, Candidates, NoRow

----------------------------------------------------------------------------
\* An execution begins outside.
LEMMA BeginKeeps ==
  ASSUME Inv, RowsOK, NEW e \in Execs, NEW r \in Requests, Begin(e, r)
  PROVE  Inv'
<1>1. PICK i \in Picked(runs, r, {"queued"}) :
        exec' = [exec EXCEPT ![e] = [Moved(NoExec, "mark", i) EXCEPT !.req = r]]
  BY DEF Begin
<1>2. exec[e].pc = "idle" /\ UNCHANGED lease
  BY DEF Begin
<1>3. i \in Int
  BY PickedType
<1> DEFINE x == Moved(NoExec, "mark", i)
<1>4. x \in Executions /\ x.pc = "mark" /\ ~x.lost
  <2>1. x \in Executions /\ x.pc = "mark" /\ x.lost = NoExec.lost
    BY <1>3, NoExecType, MovedType DEF Steps
  <2> QED
    BY <2>1, NoExecType, Zenon
<1>5. exec' = [exec EXCEPT ![e] = [x EXCEPT !.req = r]]
  BY <1>1
<1> HIDE DEF x
<1>6. /\ exec' \in [Execs -> Executions] /\ \A o \in Execs \ {e} : exec'[o] = exec[o]
      /\ exec'[e].pc = "mark" /\ ~exec'[e].lost
  BY <1>4, <1>5 DEF Inv, TypeOK, Executions
<1> QED
  BY <1>2, <1>6, OutsideKeeps DEF Holding, UserSteps

\* Its row is marked; a user sync comes to the lock, another to its work.
LEMMA MarkKeeps ==
  ASSUME Inv, NEW e \in Execs, MarkSyncRunRunning(e)
  PROVE  Inv'
<1>1. PICK pc \in Steps :
        Set(e, pc) /\ pc \in (IF IsUser(e) THEN {"lock", "refused"} ELSE {"work"})
  BY DEF MarkSyncRunRunning, Steps
<1>2. exec[e].pc = "mark" /\ UNCHANGED lease
  BY DEF MarkSyncRunRunning
<1>3. /\ exec' \in [Execs -> Executions] /\ \A o \in Execs \ {e} : exec'[o] = exec[o]
      /\ exec'[e].pc = pc /\ exec'[e].req = exec[e].req
      /\ exec'[e].lost => exec[e].lost
  BY <1>1, SetMoves DEF Inv
<1> QED
  BY <1>1, <1>2, <1>3, OutsideKeeps DEF Holding, UserSteps, IsUser

\* The pod's own map refuses or lets pass, and holds nothing yet.
LEMMA LocalLockKeeps ==
  ASSUME Inv, NEW e \in Execs, tryAcquireUserSync(e)
  PROVE  Inv'
<1>1. PICK pc \in {"refused", "lease"} :
        /\ exec' = [exec EXCEPT ![e].pc = pc]
        /\ pc = "lease" => ~LocallyLocked(e)
  BY DEF tryAcquireUserSync
<1>2. exec[e].pc = "lock" /\ IsUser(e) /\ UNCHANGED lease
  BY DEF tryAcquireUserSync, Inv, OnlyUsersLock, UserSteps
<1>3. /\ exec' \in [Execs -> Executions] /\ \A o \in Execs \ {e} : exec'[o] = exec[o]
      /\ exec'[e].pc = pc /\ exec'[e].req = exec[e].req
      /\ exec'[e].lost => exec[e].lost
  BY <1>1 DEF Inv, TypeOK, Executions, Steps
<1> QED
  BY <1>1, <1>2, <1>3, OutsideKeeps DEF Holding, IsUser

\* The lease is taken when nobody has it, be it a lost session.
LEMMA LeaseKeeps ==
  ASSUME Inv, NEW e \in Execs, TryAcquireUserSyncLease(e)
  PROVE  Inv'
<1>1. exec[e].pc = "lease" /\ IsUser(e) /\ Subject(e) \in Subjects
  BY SubjectType DEF TryAcquireUserSyncLease, Inv, OnlyUsersLock, UserSteps
<1>2. CASE Set(e, "refused") /\ UNCHANGED lease
  <2>1. /\ exec' \in [Execs -> Executions] /\ \A o \in Execs \ {e} : exec'[o] = exec[o]
        /\ exec'[e].pc = "refused" /\ exec'[e].req = exec[e].req
        /\ exec'[e].lost => exec[e].lost
    BY <1>2, SetMoves DEF Inv, Steps
  <2> QED
    BY <1>1, <1>2, <2>1, OutsideKeeps DEF Holding, IsUser
<1>3. CASE /\ lease[Subject(e)] = Free /\ Set(e, "work")
           /\ lease' = [lease EXCEPT ![Subject(e)] = e]
  <2>1. /\ exec' \in [Execs -> Executions] /\ \A o \in Execs \ {e} : exec'[o] = exec[o]
        /\ exec'[e].pc = "work" /\ exec'[e].req = exec[e].req
        /\ exec'[e].lost = exec[e].lost
    BY <1>3, SetMoves DEF Inv, Steps
  <2>2. lease' \in [Subjects -> Execs \cup {Free, Orphan}]
    BY <1>1, <1>3 DEF Inv, TypeOK
  <2>3. TypeOK' /\ OnlyUsersLock'
    BY <2>1, <2>2 DEF Inv, TypeOK, OnlyUsersLock, IsUser, UserSteps
  <2>4. Free \notin Execs
    BY SyncRunsAssumption DEF Free
  <2>5. ASSUME NEW o \in Execs, IsUser(o)', exec'[o].pc \in Holding, ~exec'[o].lost
        PROVE  lease'[Subject(o)'] = o
    <3>1. CASE o = e
      BY <1>1, <1>3, <2>1, <3>1 DEF Inv, TypeOK, Subject
    <3>2. CASE o # e
      <4>1. lease[Subject(o)] = o /\ Subject(o)' = Subject(o)
        BY <2>1, <2>5, <3>2 DEF Inv, HoldersAreNamed, IsUser, Subject
      <4>2. Subject(o) # Subject(e)
        BY <1>3, <2>4, <4>1
      <4> QED
        BY <1>3, <4>1, <4>2, SubjectType DEF Inv, TypeOK
    <3> QED
      BY <3>1, <3>2
  <2>6. ASSUME NEW s \in Subjects, lease'[s] \in Execs
        PROVE  /\ exec'[lease'[s]].pc \in Holding /\ ~exec'[lease'[s]].lost
               /\ IsUser(lease[s])' /\ Subject(lease[s])' = s
    <3>1. CASE s = Subject(e)
      <4>1. lease'[s] = e
        BY <1>1, <1>3, <3>1 DEF Inv, TypeOK
      <4> QED
        BY <1>1, <2>1, <3>1, <4>1 DEF Inv, OnlyHoldersLose, Subject, IsUser, Holding
    <3>2. CASE s # Subject(e)
      <4>1. lease'[s] = lease[s]
        BY <1>3, <3>2 DEF Inv, TypeOK
      <4>2. /\ exec[lease[s]].pc \in Holding /\ ~exec[lease[s]].lost
            /\ IsUser(lease[s]) /\ Subject(lease[s]) = s
        BY <2>6, <4>1 DEF Inv, NamedAreHolders
      <4> QED
        BY <2>1, <2>6, <3>2, <4>1, <4>2 DEF IsUser, Subject
    <3> QED
      BY <3>1, <3>2
  <2>7. HoldersAreNamed'
    BY <2>5 DEF HoldersAreNamed
  <2>9. NamedAreHolders'
    BY <2>6 DEF NamedAreHolders
  <2>10. Subject(e)' = Subject(e) /\ Inside(e)
    BY <1>1, <2>1 DEF Inside, InUserSync, Subject
  <2>11. OnePerPod'
    BY <2>1, <2>10, PodKeeps
  <2>12. OnlyHoldersLose'
    BY <1>1, <2>1 DEF Inv, OnlyHoldersLose, IsUser, Holding
  <2> QED
    BY <2>3, <2>7, <2>9, <2>11, <2>12 DEF Inv
<1> QED
  BY <1>2, <1>3 DEF TryAcquireUserSyncLease

\* Working keeps what is held.
LEMMA WorkKeeps ==
  ASSUME Inv, NEW e \in Execs, Work(e)
  PROVE  Inv'
<1>1. PICK outcome \in Outcomes(exec[e].req.mode) :
        exec' = [exec EXCEPT ![e] = [exec[e] EXCEPT !.pc = "report", !.outcome = outcome]]
  BY DEF Work, Inv, TypeOK
<1>2. outcome \in Results
  BY <1>1 DEF Inv, TypeOK, Executions, Results
<1>3. exec[e].pc = "work" /\ UNCHANGED lease
  BY DEF Work
<1>4. /\ exec' \in [Execs -> Executions] /\ \A o \in Execs \ {e} : exec'[o] = exec[o]
      /\ exec'[e].pc = "report" /\ exec'[e].req = exec[e].req
      /\ exec'[e].lost = exec[e].lost
  BY <1>1, <1>2 DEF Inv, TypeOK, Executions, Steps
<1> QED
  BY <1>3, <1>4, InsideKeeps DEF Holding

\* A step that leaves an execution where it is.
LEMMA StayKeeps ==
  ASSUME Inv, NEW e \in Execs,
         exec' \in [Execs -> Executions],
         \A o \in Execs : /\ exec'[o].pc = exec[o].pc /\ exec'[o].req = exec[o].req
                          /\ exec'[o].lost = exec[o].lost,
         UNCHANGED lease
  PROVE  Inv'
<1>1. \A o \in Execs :
        /\ IsUser(o)' = IsUser(o) /\ Subject(o)' = Subject(o) /\ Inside(o)' = Inside(o)
  BY DEF IsUser, Subject, Inside
<1>2. TypeOK' /\ OnlyUsersLock' /\ HoldersAreNamed' /\ OnlyHoldersLose'
  BY <1>1 DEF Inv, TypeOK, OnlyUsersLock, HoldersAreNamed, OnlyHoldersLose
<1>3. NamedAreHolders'
  BY <1>1 DEF Inv, NamedAreHolders
<1>4. OnePerPod'
  BY <1>1 DEF Inv, OnePerPod
<1> QED
  BY <1>2, <1>3, <1>4 DEF Inv

\* Picking a row, and a transaction that fails.
LEMMA ReportingKeeps ==
  ASSUME Inv, RowsOK, NEW e \in Execs, PickOpenRow(e) \/ OutcomeFails(e)
  PROVE  Inv'
<1>1. CASE PickOpenRow(e)
  <2>1. PICK i \in Picked(runs, exec[e].req, OpenStatus) : exec' = [exec EXCEPT ![e].row = i]
    BY <1>1 DEF PickOpenRow
  <2>2. i \in Int
    BY PickedType
  <2>3. exec' \in [Execs -> Executions] /\ UNCHANGED lease
    BY <1>1, <2>1, <2>2 DEF PickOpenRow, Inv, TypeOK, Executions
  <2>4. \A o \in Execs : /\ exec'[o].pc = exec[o].pc /\ exec'[o].req = exec[o].req
                         /\ exec'[o].lost = exec[o].lost
    BY <2>1 DEF Inv, TypeOK, Executions
  <2> QED
    BY <2>3, <2>4, StayKeeps
<1>2. CASE OutcomeFails(e)
  <2>1. exec' = [exec EXCEPT ![e] = [exec[e] EXCEPT !.outcome = "failed", !.row = Unread]]
    BY <1>2 DEF OutcomeFails, Inv, TypeOK
  <2>2. exec' \in [Execs -> Executions] /\ UNCHANGED lease
    BY <1>2, <2>1 DEF OutcomeFails, Inv, TypeOK, Executions, Results, Unread
  <2>3. \A o \in Execs : /\ exec'[o].pc = exec[o].pc /\ exec'[o].req = exec[o].req
                         /\ exec'[o].lost = exec[o].lost
    BY <2>1 DEF Inv, TypeOK, Executions
  <2> QED
    BY <2>2, <2>3, StayKeeps
<1> QED
  BY <1>1, <1>2

\* Whoever reports goes on to unlock if it is a user sync, and else ends.
LEMMA LeaveKeeps ==
  ASSUME Inv, NEW e \in Execs, exec[e].pc \in {"report", "refused"},
         Set(e, Leave(e)), UNCHANGED lease
  PROVE  Inv'
<1>1. CASE IsUser(e) /\ exec[e].pc = "report"
  <2>1. Set(e, "unlock")
    BY <1>1 DEF Leave
  <2>2. /\ exec' \in [Execs -> Executions] /\ \A o \in Execs \ {e} : exec'[o] = exec[o]
        /\ exec'[e].pc = "unlock" /\ exec'[e].req = exec[e].req
        /\ exec'[e].lost = exec[e].lost
    BY <2>1, SetMoves DEF Inv, Steps
  <2> QED
    BY <1>1, <2>2, InsideKeeps DEF Holding
<1>2. CASE ~(IsUser(e) /\ exec[e].pc = "report")
  <2>1. Set(e, "idle")
    BY <1>2 DEF Leave
  <2>2. /\ exec' \in [Execs -> Executions] /\ \A o \in Execs \ {e} : exec'[o] = exec[o]
        /\ exec'[e].pc = "idle" /\ (exec'[e].lost => exec[e].lost)
    BY <2>1, SetMoves DEF Inv, Steps
  <2> QED
    BY <1>2, <2>2, OutsideKeeps DEF Holding, UserSteps
<1> QED
  BY <1>1, <1>2

\* A lease goes away with the execution that held it, or before.
LEMMA ReleaseKeeps ==
  ASSUME Inv, NEW e \in Execs, IsUser(e),
         exec' \in [Execs -> Executions],
         \A o \in Execs \ {e} : exec'[o] = exec[o],
         \/ exec'[e].pc = "idle" /\ ~exec'[e].lost
         \/ /\ exec[e].pc \in Holding /\ exec'[e].pc = exec[e].pc
            /\ exec'[e].req = exec[e].req /\ exec'[e].lost,
         NEW nobody \in {Free, Orphan},
         \/ exec[e].lost /\ UNCHANGED lease
         \/ lease[Subject(e)] = e /\ lease' = [lease EXCEPT ![Subject(e)] = nobody]
  PROVE  Inv'
<1>1. nobody \notin Execs /\ Subject(e) \in Subjects
  BY SyncRunsAssumption, SubjectType DEF Free, Orphan, Inv
<1>2. lease' \in [Subjects -> Execs \cup {Free, Orphan}]
  BY DEF Inv, TypeOK
<1>3. \A s \in Subjects : lease'[s] # e /\ (lease'[s] \in Execs => lease'[s] = lease[s])
  <2>1. \A s \in Subjects : lease[s] = e => s = Subject(e) /\ ~exec[e].lost
    BY DEF Inv, NamedAreHolders
  <2> QED
    BY <1>1, <2>1 DEF Inv, TypeOK
<1>4. TypeOK' /\ OnlyUsersLock' /\ OnlyHoldersLose'
  BY <1>2 DEF Inv, TypeOK, OnlyUsersLock, OnlyHoldersLose, IsUser, UserSteps, Holding
<1>5. ASSUME NEW o \in Execs, IsUser(o)', exec'[o].pc \in Holding, ~exec'[o].lost
      PROVE  lease'[Subject(o)'] = o
  <2>1. o # e
    BY <1>5 DEF Holding
  <2>2. lease[Subject(o)] = o /\ Subject(o)' = Subject(o) /\ Subject(o) \in Subjects
    BY <1>5, <2>1, SubjectType DEF Inv, HoldersAreNamed, IsUser, Subject
  <2> QED
    BY <1>1, <2>1, <2>2 DEF Inv, TypeOK
<1>6. ASSUME NEW s \in Subjects, lease'[s] \in Execs
      PROVE  /\ exec'[lease'[s]].pc \in Holding /\ ~exec'[lease'[s]].lost
             /\ IsUser(lease[s])' /\ Subject(lease[s])' = s
  <2>1. lease'[s] = lease[s] /\ lease[s] # e
    BY <1>3, <1>6
  <2>2. /\ exec[lease[s]].pc \in Holding /\ ~exec[lease[s]].lost
        /\ IsUser(lease[s]) /\ Subject(lease[s]) = s
    BY <1>6, <2>1 DEF Inv, NamedAreHolders
  <2> QED
    BY <1>6, <2>1, <2>2 DEF IsUser, Subject
<1>7. HoldersAreNamed'
  BY <1>5 DEF HoldersAreNamed
<1>8. NamedAreHolders'
  BY <1>6 DEF NamedAreHolders
<1>9. Inside(e)' => Subject(e)' = Subject(e) /\ Inside(e)
  BY DEF Inside, InUserSync, IsUser, Subject
<1>10. OnePerPod'
  BY <1>9, PodKeeps
<1> QED
  BY <1>4, <1>7, <1>8, <1>10 DEF Inv

\* The lease goes back, or to a lost session when the unlock fails.
LEMMA UnlockKeeps ==
  ASSUME Inv, NEW e \in Execs, Unlock(e)
  PROVE  Inv'
<1>1. exec[e].pc = "unlock" /\ IsUser(e)
  BY DEF Unlock, Inv, OnlyUsersLock, UserSteps
<1>2. /\ exec' \in [Execs -> Executions] /\ \A o \in Execs \ {e} : exec'[o] = exec[o]
      /\ exec'[e].pc = "idle"
  BY SetMoves DEF Unlock, Inv, Steps
<1>3. ~exec'[e].lost
  BY NoExecType DEF Unlock, Set, Inv, TypeOK
<1>4. ~exec[e].lost => lease[Subject(e)] = e
  BY <1>1 DEF Inv, HoldersAreNamed, Holding
<1>5. PICK nobody \in {Free, Orphan} :
        \/ exec[e].lost /\ UNCHANGED lease
        \/ ~exec[e].lost /\ lease' = [lease EXCEPT ![Subject(e)] = nobody]
  BY DEF Unlock
<1> QED
  BY <1>1, <1>2, <1>3, <1>4, <1>5, ReleaseKeeps

\* The session breaks: the lease goes to nobody, the sync goes on.
LEMMA LoseSessionKeeps ==
  ASSUME Inv, NEW e \in Execs, LoseSession(e)
  PROVE  Inv'
<1>1. PICK s \in Subjects : lease[s] = e /\ lease' = [lease EXCEPT ![s] = Orphan]
  BY DEF LoseSession
<1>2. exec[e].pc \in Holding /\ IsUser(e) /\ Subject(e) = s
  BY <1>1 DEF Inv, NamedAreHolders
<1>3. exec' = [exec EXCEPT ![e] = [exec[e] EXCEPT !.lost = TRUE]]
  BY DEF LoseSession, Inv, TypeOK
<1>4. /\ exec' \in [Execs -> Executions] /\ \A o \in Execs \ {e} : exec'[o] = exec[o]
      /\ exec'[e].pc = exec[e].pc /\ exec'[e].req = exec[e].req /\ exec'[e].lost
  BY <1>3 DEF Inv, TypeOK, Executions
<1> QED
  BY <1>1, <1>2, <1>4, ReleaseKeeps

\* The caller's context is a flag that no lock depends on.
LEMMA CallerGoneKeeps ==
  ASSUME Inv, NEW e \in Execs, CallerGone(e)
  PROVE  Inv'
<1>1. exec' \in [Execs -> Executions] /\ UNCHANGED lease
  BY DEF CallerGone, Inv, TypeOK, Executions
<1>2. \A o \in Execs : /\ exec'[o].pc = exec[o].pc /\ exec'[o].req = exec[o].req
                       /\ exec'[o].lost = exec[o].lost
  BY DEF CallerGone, Inv, TypeOK, Executions
<1> QED
  BY <1>1, <1>2, StayKeeps

\* A pod's goroutines end and its sessions are lost together.
LEMMA CrashKeeps ==
  ASSUME Inv, NEW p, Crash(p)
  PROVE  Inv'
<1>1. Orphan \notin Execs
  BY SyncRunsAssumption DEF Orphan
<1>2. exec' \in [Execs -> Executions]
  BY NoExecType DEF Crash, Inv, TypeOK
<1>3. \A o \in Execs : exec'[o] = IF Pod[o] = p THEN NoExec ELSE exec[o]
  BY DEF Crash
<1>4. lease' \in [Subjects -> Execs \cup {Free, Orphan}]
  BY DEF Crash, Inv, TypeOK
<1>5. \A s \in Subjects :
        lease'[s] = IF lease[s] \in Execs /\ Pod[lease[s]] = p THEN Orphan ELSE lease[s]
  BY DEF Crash
<1>6. TypeOK' /\ OnlyUsersLock' /\ OnlyHoldersLose'
  BY <1>2, <1>3, <1>4, NoExecType
     DEF Inv, TypeOK, OnlyUsersLock, OnlyHoldersLose, IsUser, UserSteps
<1>7. ASSUME NEW o \in Execs, IsUser(o)', exec'[o].pc \in Holding, ~exec'[o].lost
      PROVE  lease'[Subject(o)'] = o
  <2>1. Pod[o] # p /\ exec'[o] = exec[o]
    BY <1>3, <1>7, NoExecType DEF Holding
  <2>2. lease[Subject(o)] = o /\ Subject(o)' = Subject(o)
    BY <1>7, <2>1 DEF Inv, HoldersAreNamed, IsUser, Subject
  <2>3. Subject(o) \in Subjects
    BY SubjectType DEF Inv
  <2> QED
    BY <1>5, <2>1, <2>2, <2>3
<1>8. ASSUME NEW s \in Subjects, lease'[s] \in Execs
      PROVE  /\ exec'[lease'[s]].pc \in Holding /\ ~exec'[lease'[s]].lost
             /\ IsUser(lease[s])' /\ Subject(lease[s])' = s
  <2>1. lease'[s] = lease[s] /\ Pod[lease[s]] # p
    BY <1>1, <1>5, <1>8
  <2>2. /\ exec[lease[s]].pc \in Holding /\ ~exec[lease[s]].lost
        /\ IsUser(lease[s]) /\ Subject(lease[s]) = s
    BY <1>8, <2>1 DEF Inv, NamedAreHolders
  <2> QED
    BY <1>3, <1>8, <2>1, <2>2 DEF IsUser, Subject
<1>9. HoldersAreNamed'
  BY <1>7 DEF HoldersAreNamed
<1>10. NamedAreHolders'
  BY <1>8 DEF NamedAreHolders
<1>11. \A o \in Execs : Inside(o)' => Inside(o) /\ Subject(o)' = Subject(o)
  BY <1>3, NoExecType DEF Inside, InUserSync, IsUser, Subject
<1>12. OnePerPod'
  BY <1>11 DEF Inv, OnePerPod
<1> QED
  BY <1>6, <1>9, <1>10, <1>12 DEF Inv

\* PostgreSQL ends a session nobody is using.
LEMMA EndSessionKeeps ==
  ASSUME Inv, NEW s \in Subjects, EndSession(s)
  PROVE  Inv'
<1>1. lease[s] = Orphan /\ lease' = [lease EXCEPT ![s] = Free] /\ UNCHANGED exec
  BY DEF EndSession
<1>2. Free \notin Execs /\ Orphan \notin Execs
  BY SyncRunsAssumption DEF Free, Orphan
<1>3. TypeOK'
  BY <1>1 DEF Inv, TypeOK
<1>4. \A e \in Execs : Subject(e) \in Subjects
  BY SubjectType DEF Inv
<1>5. OnePerPod'
  BY <1>1 DEF Inv, OnePerPod, Inside, IsUser, Subject
<1> QED
  BY <1>1, <1>2, <1>3, <1>4, <1>5
     DEF Inv, TypeOK, OnlyUsersLock, HoldersAreNamed, NamedAreHolders, OnlyHoldersLose,
         IsUser, Subject

\* Every step keeps the invariant.
LEMMA NextKeeps == Inv /\ RowsOK /\ [Next]_vars => Inv'
<1> SUFFICES ASSUME Inv, RowsOK, [Next]_vars PROVE Inv'
  OBVIOUS
<1>1. CASE UNCHANGED <<exec, lease>>
  BY <1>1 DEF Inv, TypeOK, OnlyUsersLock, HoldersAreNamed, NamedAreHolders, OnlyHoldersLose,
              OnePerPod, Inside, IsUser, Subject
<1>2. CASE \/ \E r \in Requests : RecordQueuedSyncRequest(r)
           \/ MarkStaleSyncRunsFailed \/ Tick
  BY <1>1, <1>2 DEF RecordQueuedSyncRequest, MarkStaleSyncRunsFailed, Tick
<1>3. CASE \E e \in Execs, r \in Requests : Begin(e, r)
  BY <1>3, BeginKeeps
<1>4. ASSUME NEW e \in Execs, Step(e) PROVE Inv'
  <2>1. CASE ReportOutcome(e)
    BY <2>1, LeaveKeeps DEF ReportOutcome, Succeeded
  <2>2. CASE ReportFailure(e)
    BY <2>2, LeaveKeeps DEF ReportFailure
  <2> QED
    BY <1>4, <2>1, <2>2, MarkKeeps, LocalLockKeeps, LeaseKeeps, WorkKeeps, ReportingKeeps,
       UnlockKeeps DEF Step
<1>5. CASE \E e \in Execs : CallerGone(e) \/ LoseSession(e)
  BY <1>5, CallerGoneKeeps, LoseSessionKeeps
<1>6. CASE \E p \in {Pod[e] : e \in Execs} : Crash(p)
  BY <1>6, CrashKeeps
<1>7. CASE \E s \in Subjects : EndSession(s)
  BY <1>7, EndSessionKeeps
<1>8. CASE UNCHANGED vars
  BY <1>1, <1>8 DEF vars
<1> QED
  BY <1>2, <1>3, <1>4, <1>5, <1>6, <1>7, <1>8 DEF Next
----------------------------------------------------------------------------
(* The table of runs.                                                      *)

\* Statements under way have picked a row of the table, or none.
PickedOK == \A e \in Execs : exec[e].row \in {Unread, NoRow} \cup DOMAIN runs

\* An execution that reports knows how it ended.
ReportsAreEnds == \A e \in Execs : exec[e].pc = "report" => exec[e].outcome \in Ends

TableInv == RowsOK /\ PickedOK /\ ReportsAreEnds

\* One step on the table: rows stay, finished ones stay finished, and those
\* that no statement has picked keep their end and are not picked any more.
Stays(i) ==
  /\ i \in DOMAIN runs'
  /\ runs[i].finished => runs'[i].finished
  /\ Settled(i) => Settled(i)' /\ runs'[i].status = runs[i].status

\* Rows made from a request or from another row.
LEMMA RowType ==
  ASSUME NEW r, r.corr \in {q.corr : q \in Requests}, r.mode \in {q.mode : q \in Requests},
         r.subject \in Subjects, NEW end \in OpenStatus \cup Ends
  PROVE  Row(r, end) \in Rows
BY DEF Row, Rows, isTerminalSyncRunStatus

LEMMA RequestRowType ==
  ASSUME NEW r \in Requests, NEW end \in OpenStatus \cup Ends
  PROVE  Row(r, end) \in Rows
BY RowType DEF Subjects

\* An end makes a finished row.
LEMMA EndsFinish ==
  ASSUME NEW r, NEW end \in Ends
  PROVE  Row(r, end).finished /\ Row(r, end).status = end
BY DEF Row, isTerminalSyncRunStatus, Ends

\* Marking a row leaves its finished_at.
LEMMA RunningType ==
  ASSUME NEW row \in Rows
  PROVE  Running(row) \in Rows /\ Running(row).finished = row.finished
<1> DEFINE y == [row EXCEPT !.status = "running"]
           z == [y EXCEPT !.age = IF row.finished THEN y.age ELSE 0]
<1>1. y \in Rows /\ y.finished = row.finished
  BY DEF Rows, OpenStatus
<1> HIDE DEF y
<1>2. z \in Rows /\ z.finished = y.finished
  BY <1>1 DEF Rows
<1>3. Running(row) = z
  BY DEF Running, y
<1> HIDE DEF z
<1> QED
  BY <1>1, <1>2, <1>3

\* Whatever fails and whatever is skipped, a sync has one of three ends.
LEMMA OutcomesAreEnds == \A mode \in Modes : Outcomes(mode) \subseteq Ends
<1> SUFFICES ASSUME NEW mode \in Modes PROVE Outcomes(mode) \subseteq Ends
  OBVIOUS
<1>1. CASE mode = "repository"
  BY <1>1 DEF Outcomes, SyncRepository, Ends
<1>2. CASE mode \in {"pull_request", "review"}
  BY <1>2 DEF Outcomes, syncPullRequestSurface, Ends
<1>3. CASE mode \in {"issue", "commit"}
  BY <1>3 DEF Outcomes, SyncItem, Ends
<1>4. CASE mode = "installation"
  BY <1>4 DEF Outcomes, SyncInstallation, Ends
<1>5. CASE mode = "user"
  BY <1>5 DEF Outcomes, SyncUser, Ends
<1> QED
  BY <1>1, <1>2, <1>3, <1>4, <1>5 DEF Modes

----------------------------------------------------------------------------
\* One statement writes the row it has picked, or adds one, and lets go of it.
LEMMA WriteKeeps ==
  ASSUME Inv, TableInv, NEW e \in Execs, exec[e].row # Unread,
         NEW row \in Rows,
         \/ exec[e].row = NoRow /\ runs' = Append(runs, row) /\ row.finished
         \/ exec[e].row = NoRow /\ UNCHANGED runs
         \/ exec[e].row # NoRow /\ runs' = [runs EXCEPT ![exec[e].row] = row]
              /\ (runs[exec[e].row].finished => row.finished),
         \A o \in Execs \ {e} : exec'[o] = exec[o],
         exec'[e].row = Unread
  PROVE  RowsOK' /\ PickedOK' /\ \A i \in DOMAIN runs : Stays(i)
<1>1. Unread \notin DOMAIN runs /\ NoRow \notin DOMAIN runs
  BY DEF TableInv, RowsOK, Unread, NoRow
<1>2. exec[e].row # NoRow => exec[e].row \in DOMAIN runs
  BY DEF TableInv, PickedOK
<1>3. /\ RowsOK' /\ \A i \in DOMAIN runs : i \in DOMAIN runs'
      /\ \A i \in DOMAIN runs : i # exec[e].row => runs'[i] = runs[i]
      /\ \A i \in DOMAIN runs : runs[i].finished => runs'[i].finished
  <2>1. CASE runs' = Append(runs, row) /\ exec[e].row = NoRow
    BY <1>1, <2>1, AppendProperties DEF TableInv, RowsOK
  <2>2. CASE UNCHANGED runs
    BY <2>2 DEF TableInv, RowsOK
  <2>3. CASE /\ exec[e].row # NoRow /\ runs' = [runs EXCEPT ![exec[e].row] = row]
             /\ runs[exec[e].row].finished => row.finished
    BY <1>2, <2>3 DEF TableInv, RowsOK
  <2> QED
    BY <2>1, <2>2, <2>3
<1>4. PickedOK'
  BY <1>3 DEF TableInv, PickedOK
<1>5. ASSUME NEW i \in DOMAIN runs PROVE Stays(i)
  <2>1. Settled(i) => i # exec[e].row
    BY DEF Settled
  <2>2. exec'[e].row # i
    BY <1>1
  <2> QED
    BY <1>3, <2>1, <2>2 DEF Stays, Settled
<1> QED
  BY <1>3, <1>4, <1>5

\* A step that picks at most an unfinished row and writes none.
LEMMA PickKeeps ==
  ASSUME Inv, TableInv, UNCHANGED runs,
         \A o \in Execs : \/ exec'[o].row \in {exec[o].row, Unread, NoRow}
                          \/ exec'[o].row \in DOMAIN runs /\ ~runs[exec'[o].row].finished
  PROVE  RowsOK' /\ PickedOK' /\ \A i \in DOMAIN runs : Stays(i)
<1>1. Unread \notin DOMAIN runs /\ NoRow \notin DOMAIN runs
  BY DEF TableInv, RowsOK, Unread, NoRow
<1> QED
  BY <1>1 DEF TableInv, RowsOK, PickedOK, Stays, Settled

\* Listings reap rows that are not finished, and time goes by.
LEMMA SweepKeeps ==
  ASSUME Inv, TableInv, MarkStaleSyncRunsFailed \/ Tick
  PROVE  RowsOK' /\ PickedOK' /\ \A i \in DOMAIN runs : Stays(i)
<1> DEFINE F(i) == IF Overdue(runs[i]) THEN Row(runs[i], "failed") ELSE runs[i]
           G(i) == [runs[i] EXCEPT !.age = IF @ < QueuedWindow THEN @ + 1 ELSE @]
<1>1. \A i \in DOMAIN runs : runs[i] \in Rows
  BY DEF TableInv, RowsOK
<1>2. ASSUME NEW i \in DOMAIN runs
      PROVE  /\ F(i) \in Rows /\ (runs[i].finished => F(i).finished)
             /\ runs[i].finished => F(i).status = runs[i].status
  <2>1. Row(runs[i], "failed") \in Rows
    BY <1>1, RowType DEF Rows, Ends
  <2> QED
    BY <1>1, <2>1 DEF Overdue
<1>3. ASSUME NEW i \in DOMAIN runs
      PROVE  /\ G(i) \in Rows /\ G(i).finished = runs[i].finished
             /\ G(i).status = runs[i].status
  BY <1>1 DEF Rows
<1>4. UNCHANGED exec
  BY DEF MarkStaleSyncRunsFailed, Tick
<1>5. \/ runs' = [i \in DOMAIN runs |-> F(i)]
      \/ runs' = [i \in DOMAIN runs |-> G(i)]
  BY DEF MarkStaleSyncRunsFailed, Tick
<1> HIDE DEF F, G
<1>6. DOMAIN runs' = DOMAIN runs
  BY <1>5
<1>7. \A i \in DOMAIN runs :
        /\ runs'[i] \in Rows /\ (runs[i].finished => runs'[i].finished)
        /\ runs[i].finished => runs'[i].status = runs[i].status
  BY <1>2, <1>3, <1>5
<1>8. RowsOK'
  <2>1. DOMAIN runs = 1 .. Len(runs) /\ Len(runs) \in Nat
    BY DEF TableInv, RowsOK
  <2>2. runs' = [i \in 1 .. Len(runs) |-> runs'[i]]
    BY <1>5, <2>1
  <2> QED
    BY <1>7, <2>1, <2>2, SeqDef DEF RowsOK
<1> QED
  BY <1>4, <1>6, <1>7, <1>8 DEF TableInv, PickedOK, Stays, Settled

\* Where an execution has nothing to report yet, or no more.
LEMMA MoveKeepsReports ==
  ASSUME TableInv, NEW e \in Execs, \A o \in Execs \ {e} : exec'[o] = exec[o],
         exec'[e].pc = "report" => exec'[e].outcome \in Ends
  PROVE  ReportsAreEnds'
BY DEF TableInv, ReportsAreEnds

\* A row is marked running.
LEMMA MarkKeepsTable ==
  ASSUME Inv, TableInv, NEW e \in Execs, MarkSyncRunRunning(e)
  PROVE  TableInv' /\ \A i \in DOMAIN runs : Stays(i)
<1>1. PICK pc \in Steps \ {"report"} : Set(e, pc)
  BY DEF MarkSyncRunRunning, Steps
<1>2. /\ \A o \in Execs \ {e} : exec'[o] = exec[o]
      /\ exec'[e].pc = pc /\ exec'[e].row = Unread
  BY <1>1, SetMoves DEF Inv
<1>3. ReportsAreEnds'
  BY <1>1, <1>2, MoveKeepsReports
<1>4. CASE UNCHANGED runs
  BY <1>2, <1>3, <1>4, PickKeeps DEF TableInv
<1>5. CASE exec[e].row # NoRow /\ runs' = [runs EXCEPT ![exec[e].row] = Running(@)]
  <2>1. CASE exec[e].row = Unread
    BY <1>4, <1>5, <2>1 DEF TableInv, RowsOK, Unread
  <2>2. CASE exec[e].row # Unread
    <3>1. exec[e].row \in DOMAIN runs /\ runs[exec[e].row] \in Rows
      BY <1>5, <2>2 DEF TableInv, PickedOK, RowsOK
    <3>2. /\ runs' = [runs EXCEPT ![exec[e].row] = Running(runs[exec[e].row])]
          /\ Running(runs[exec[e].row]) \in Rows
          /\ Running(runs[exec[e].row]).finished = runs[exec[e].row].finished
      BY <1>5, <3>1, RunningType
    <3> QED
      BY <1>2, <1>3, <1>5, <2>2, <3>2, WriteKeeps DEF TableInv
  <2> QED
    BY <2>1, <2>2
<1> QED
  BY <1>4, <1>5 DEF MarkSyncRunRunning

\* The end of a run is written.
LEMMA ReportKeepsTable ==
  ASSUME Inv, TableInv, NEW e \in Execs, NEW end \in Ends, exec[e].row # Unread,
         InsertSyncRun(exec[e].row, exec[e].req, end), Set(e, Leave(e))
  PROVE  TableInv' /\ \A i \in DOMAIN runs : Stays(i)
<1>1. exec[e].req \in Requests
  BY DEF Inv, TypeOK, Executions
<1>2. Row(exec[e].req, end) \in Rows /\ Row(exec[e].req, end).finished
  BY <1>1, RequestRowType, EndsFinish
<1>3. Leave(e) \in Steps \ {"report"}
  BY DEF Leave, Steps
<1>4. /\ \A o \in Execs \ {e} : exec'[o] = exec[o]
      /\ exec'[e].pc # "report" /\ exec'[e].row = Unread
  BY <1>3, SetMoves DEF Inv
<1>5. ReportsAreEnds'
  BY <1>4, MoveKeepsReports
<1>6. \/ exec[e].row = NoRow /\ runs' = Append(runs, Row(exec[e].req, end))
      \/ exec[e].row # NoRow /\ runs' = [runs EXCEPT ![exec[e].row] = Row(exec[e].req, end)]
  BY DEF InsertSyncRun
<1> QED
  BY <1>2, <1>4, <1>5, <1>6, WriteKeeps DEF TableInv

\* Steps of an execution that leave the table alone.
LEMMA MoveKeepsTable ==
  ASSUME Inv, TableInv, NEW e \in Execs, UNCHANGED runs,
         \A o \in Execs \ {e} : exec'[o] = exec[o],
         exec'[e].row \in {exec[e].row, Unread},
         exec'[e].pc = "report" => exec'[e].outcome \in Ends
  PROVE  TableInv' /\ \A i \in DOMAIN runs : Stays(i)
<1>1. ReportsAreEnds'
  BY MoveKeepsReports
<1> QED
  BY <1>1, PickKeeps DEF TableInv

\* One step of an execution on the table.
LEMMA StepKeepsTable ==
  ASSUME Inv, TableInv, NEW e \in Execs, Step(e)
  PROVE  TableInv' /\ \A i \in DOMAIN runs : Stays(i)
<1>1. ASSUME NEW pc \in Steps \ {"report"}, Set(e, pc), UNCHANGED runs
      PROVE  TableInv' /\ \A i \in DOMAIN runs : Stays(i)
  <2>1. /\ \A o \in Execs \ {e} : exec'[o] = exec[o]
        /\ exec'[e].pc # "report" /\ exec'[e].row = Unread
    BY <1>1, SetMoves DEF Inv
  <2> QED
    BY <1>1, <2>1, MoveKeepsTable
<1>2. CASE tryAcquireUserSync(e)
  <2>1. PICK pc \in {"refused", "lease"} : exec' = [exec EXCEPT ![e].pc = pc]
    BY <1>2 DEF tryAcquireUserSync
  <2>2. /\ \A o \in Execs \ {e} : exec'[o] = exec[o]
        /\ exec'[e].pc = pc /\ exec'[e].row = exec[e].row
    BY <2>1 DEF Inv, TypeOK, Executions
  <2> QED
    BY <1>2, <2>1, <2>2, MoveKeepsTable DEF tryAcquireUserSync
<1>3. CASE TryAcquireUserSyncLease(e)
  BY <1>1, <1>3 DEF TryAcquireUserSyncLease, Steps
<1>4. CASE Work(e)
  <2>1. PICK outcome \in Outcomes(exec[e].req.mode) :
          exec' = [exec EXCEPT ![e] = [exec[e] EXCEPT !.pc = "report", !.outcome = outcome]]
    BY <1>4 DEF Work, Inv, TypeOK
  <2>2. exec[e].req.mode \in Modes
    BY SyncRunsAssumption DEF Inv, TypeOK, Executions
  <2>3. outcome \in Ends
    BY <2>1, <2>2, OutcomesAreEnds
  <2>4. /\ \A o \in Execs \ {e} : exec'[o] = exec[o]
        /\ exec'[e].outcome = outcome /\ exec'[e].row = exec[e].row
    BY <2>1 DEF Inv, TypeOK, Executions
  <2> QED
    BY <1>4, <2>3, <2>4, MoveKeepsTable DEF Work
<1>5. CASE PickOpenRow(e)
  <2>1. PICK i \in Picked(runs, exec[e].req, OpenStatus) : exec' = [exec EXCEPT ![e].row = i]
    BY <1>5 DEF PickOpenRow
  <2>2. /\ \A o \in Execs \ {e} : exec'[o] = exec[o]
        /\ exec'[e].row = i /\ exec'[e].pc = exec[e].pc /\ exec'[e].outcome = exec[e].outcome
    BY <2>1 DEF Inv, TypeOK, Executions
  <2>3. i # NoRow => i \in DOMAIN runs /\ ~runs[i].finished
    BY PickedType DEF TableInv
  <2>4. ReportsAreEnds'
    BY <2>2, MoveKeepsReports DEF TableInv, ReportsAreEnds
  <2> QED
    BY <1>5, <2>2, <2>3, <2>4, PickKeeps DEF PickOpenRow, TableInv
<1>6. CASE OutcomeFails(e)
  <2>1. exec' = [exec EXCEPT ![e] = [exec[e] EXCEPT !.outcome = "failed", !.row = Unread]]
    BY <1>6 DEF OutcomeFails, Inv, TypeOK
  <2>2. /\ \A o \in Execs \ {e} : exec'[o] = exec[o]
        /\ exec'[e].outcome = "failed" /\ exec'[e].row = Unread
    BY <2>1 DEF Inv, TypeOK, Executions
  <2> QED
    BY <1>6, <2>2, MoveKeepsTable DEF OutcomeFails, Ends
<1>7. CASE ReportOutcome(e)
  BY <1>7, ReportKeepsTable DEF ReportOutcome, Succeeded, TableInv, ReportsAreEnds
<1>8. CASE ReportFailure(e)
  <2>1. Leave(e) \in Steps \ {"report"} /\ "failed" \in Ends
    BY DEF Leave, Steps, Ends
  <2> QED
    BY <1>1, <1>8, <2>1, ReportKeepsTable DEF ReportFailure
<1>9. CASE Unlock(e)
  BY <1>1, <1>9 DEF Unlock, Steps
<1> QED
  BY <1>2, <1>3, <1>4, <1>5, <1>6, <1>7, <1>8, <1>9, MarkKeepsTable DEF Step

\* Every step of the system on the table.
LEMMA NextKeepsTable ==
  Inv /\ TableInv /\ [Next]_vars => TableInv' /\ \A i \in DOMAIN runs : Stays(i)
<1> SUFFICES ASSUME Inv, TableInv, [Next]_vars
             PROVE  TableInv' /\ \A i \in DOMAIN runs : Stays(i)
  OBVIOUS
<1>1. CASE UNCHANGED <<runs, exec>>
  BY <1>1 DEF TableInv, RowsOK, PickedOK, ReportsAreEnds, Stays, Settled
<1>2. ASSUME NEW r \in Requests, RecordQueuedSyncRequest(r)
      PROVE  TableInv' /\ \A i \in DOMAIN runs : Stays(i)
  <2>1. Row(r, "queued") \in Rows
    BY RequestRowType DEF OpenStatus
  <2>2. runs' = Append(runs, Row(r, "queued")) /\ UNCHANGED exec
    BY <1>2 DEF RecordQueuedSyncRequest
  <2>3. /\ RowsOK'
        /\ \A i \in DOMAIN runs : i \in DOMAIN runs' /\ runs'[i] = runs[i]
    BY <2>1, <2>2, AppendProperties DEF TableInv, RowsOK
  <2> QED
    BY <2>2, <2>3 DEF TableInv, PickedOK, ReportsAreEnds, Stays, Settled
<1>3. ASSUME NEW e \in Execs, NEW r \in Requests, Begin(e, r)
      PROVE  TableInv' /\ \A i \in DOMAIN runs : Stays(i)
  <2>1. PICK i \in Picked(runs, r, {"queued"}) :
          exec' = [exec EXCEPT ![e] = [Moved(NoExec, "mark", i) EXCEPT !.req = r]]
    BY <1>3 DEF Begin
  <2>2. i \in Int /\ (i # NoRow => i \in DOMAIN runs /\ ~runs[i].finished)
    BY PickedType DEF TableInv
  <2> DEFINE x == Moved(NoExec, "mark", i)
  <2>3. x \in Executions /\ x.pc = "mark" /\ x.row = i
    BY <2>2, NoExecType, MovedType DEF Steps
  <2>4. exec' = [exec EXCEPT ![e] = [x EXCEPT !.req = r]]
    BY <2>1
  <2> HIDE DEF x
  <2>5. /\ \A o \in Execs \ {e} : exec'[o] = exec[o]
        /\ exec'[e].row = i /\ exec'[e].pc = "mark"
    BY <2>3, <2>4 DEF Inv, TypeOK, Executions
  <2>6. ReportsAreEnds'
    BY <2>5, MoveKeepsReports
  <2> QED
    BY <1>3, <2>2, <2>5, <2>6, PickKeeps DEF Begin, TableInv
<1>4. CASE MarkStaleSyncRunsFailed \/ Tick
  <2>1. ReportsAreEnds'
    BY <1>4 DEF MarkStaleSyncRunsFailed, Tick, TableInv, ReportsAreEnds
  <2> QED
    BY <1>4, <2>1, SweepKeeps DEF TableInv
<1>5. CASE \E e \in Execs : CallerGone(e) \/ LoseSession(e)
  <2>1. \A o \in Execs : /\ exec'[o].row = exec[o].row /\ exec'[o].pc = exec[o].pc
                         /\ exec'[o].outcome = exec[o].outcome
    BY <1>5 DEF CallerGone, LoseSession, Inv, TypeOK, Executions
  <2> QED
    BY <1>5, <2>1, PickKeeps DEF CallerGone, LoseSession, TableInv, ReportsAreEnds
<1>6. ASSUME NEW p, Crash(p) PROVE TableInv' /\ \A i \in DOMAIN runs : Stays(i)
  <2>1. \A o \in Execs : exec'[o] = NoExec \/ exec'[o] = exec[o]
    BY <1>6 DEF Crash
  <2> QED
    BY <1>6, <2>1, NoExecType, PickKeeps DEF Crash, TableInv, ReportsAreEnds
<1>7. CASE \E s \in Subjects : EndSession(s)
  BY <1>1, <1>7 DEF EndSession
<1>8. CASE UNCHANGED vars
  BY <1>1, <1>8 DEF vars
<1> QED
  BY <1>2, <1>3, <1>4, <1>5, <1>6, <1>7, <1>8, StepKeepsTable DEF Next

\* Nothing is recorded or under way at the beginning.
LEMMA InitTable == Init => TableInv
BY NoExecType DEF Init, TableInv, RowsOK, PickedOK, ReportsAreEnds

\* The invariant of leases, executions and rows, in every state of every run.
THEOREM Invariance == Spec => [](Inv /\ TableInv)
<1>1. TableInv => RowsOK
  BY DEF TableInv
<1> QED
  BY <1>1, InitInv, InitTable, NextKeeps, NextKeepsTable, PTL DEF Spec

\* Two executions sync the same user at a time only on different pods and only
\* when one has lost its session, for any number of pods, executions and users.
THEOREM OneSync == Spec => []OneSyncPerUser
<1>1. Inv => OneSyncPerUser
  <2> SUFFICES ASSUME Inv PROVE OneSyncPerUser
    OBVIOUS
  <2>1. ASSUME NEW s \in Subjects, lease[s] \in Execs
        PROVE  exec[lease[s]].pc \in InUserSync /\ Subject(lease[s]) = s
    BY <2>1 DEF Inv, NamedAreHolders, Holding, InUserSync
  <2>2. ASSUME NEW e \in Execs, NEW o \in Execs, e # o, Syncing(e), Syncing(o),
               Subject(e) = Subject(o)
        PROVE  Pod[e] # Pod[o] /\ (exec[e].lost \/ exec[o].lost)
    <3>1. Pod[e] # Pod[o]
      BY <2>2 DEF Inv, OnePerPod, Inside, InUserSync, Syncing
    <3>2. exec[e].lost \/ exec[o].lost
      BY <2>2 DEF Inv, HoldersAreNamed, Holding, Syncing
    <3> QED
      BY <3>1, <3>2
  <2> QED
    BY <2>1, <2>2 DEF OneSyncPerUser
<1> QED
  BY Invariance, <1>1, PTL

\* How a settled run ended is never rewritten, and no row disappears, for any
\* number of rows, requests of one correlation, listings and executions.
THEOREM FinalRuns == Spec => FinishedRunsAreFinal
<1>1. (\A i \in DOMAIN runs : Stays(i)) =>
        \A i \in DOMAIN runs :
          /\ i \in DOMAIN runs'
          /\ runs[i].finished => runs'[i].finished
          /\ Settled(i) => Settled(i)' /\ runs'[i].status = runs[i].status
  BY DEF Stays
<1> QED
  BY <1>1, Invariance, NextKeepsTable, PTL DEF Spec, FinishedRunsAreFinal
----------------------------------------------------------------------------
(* What callers are told.                                                  *)

\* A told outcome is in a finished row, and if no other statement had picked
\* the row by then, nobody will write it again.
Told(a) ==
  /\ a.row \in DOMAIN runs /\ runs[a.row].finished
  /\ ~a.contested => Settled(a.row) /\ runs[a.row].status = a.end /\ a.end \in Ends
AnswersHaveRows == \A a \in answered : Told(a)

\* The row an answer rests on is written with it, and then stays.
LEMMA NextKeepsAnswers ==
  Inv /\ TableInv /\ AnswersHaveRows /\ [Next]_vars => AnswersHaveRows'
<1> SUFFICES ASSUME Inv, TableInv, AnswersHaveRows, [Next]_vars
             PROVE  AnswersHaveRows'
  OBVIOUS
<1>1. \A i \in DOMAIN runs : Stays(i)
  BY NextKeepsTable
<1>2. ASSUME NEW a \in answered PROVE Told(a)'
  BY <1>1 DEF AnswersHaveRows, Told, Stays
<1>3. CASE UNCHANGED answered
  BY <1>2, <1>3 DEF AnswersHaveRows
<1>4. ASSUME NEW e \in Execs, ReportOutcome(e) PROVE AnswersHaveRows'
  <2> DEFINE req == exec[e].req
             end == exec[e].outcome
             i == IF exec[e].row = NoRow THEN Len(runs) + 1 ELSE exec[e].row
             a == [row |-> i, end |-> end, contested |-> Contested(e)]
  <2>1. end \in Ends /\ req \in Requests
    BY <1>4 DEF ReportOutcome, Succeeded, TableInv, ReportsAreEnds, Inv, TypeOK, Executions
  <2>2. /\ InsertSyncRun(exec[e].row, req, end) /\ exec[e].row # Unread
        /\ answered' = answered \cup {a}
    BY <1>4 DEF ReportOutcome
  <2>3. /\ \A o \in Execs \ {e} : exec'[o] = exec[o]
        /\ exec'[e].row = Unread
    <3>1. Leave(e) \in Steps
      BY DEF Leave, Steps
    <3> QED
      BY <1>4, <3>1, SetMoves DEF ReportOutcome, Inv
  <2>4. Row(req, end) \in Rows /\ Row(req, end).finished /\ Row(req, end).status = end
    BY <2>1, RequestRowType, EndsFinish
  <2>5. i \in DOMAIN runs' /\ runs'[i] = Row(req, end)
    <3>1. CASE exec[e].row = NoRow
      <4>1. runs' = Append(runs, Row(req, end))
        BY <2>2, <3>1 DEF InsertSyncRun
      <4> QED
        BY <2>4, <3>1, <4>1, AppendProperties DEF TableInv, RowsOK
    <3>2. CASE exec[e].row # NoRow
      BY <2>2, <3>2 DEF InsertSyncRun, TableInv, PickedOK
    <3> QED
      BY <3>1, <3>2
  <2>6. Unread # i
    BY <2>2 DEF Unread, TableInv, RowsOK
  <2>7. ~Contested(e) => \A o \in Execs \ {e} : exec[o].row # i
    <3>1. CASE exec[e].row = NoRow
      <4>1. Len(runs) + 1 \notin DOMAIN runs /\ Len(runs) + 1 \notin {Unread, NoRow}
        BY DEF TableInv, RowsOK, Unread, NoRow
      <4> QED
        BY <3>1, <4>1 DEF TableInv, PickedOK
    <3>2. CASE exec[e].row # NoRow
      BY <3>2 DEF Contested
    <3> QED
      BY <3>1, <3>2
  <2>8. ASSUME NEW b \in answered', b \notin answered PROVE Told(b)'
    <3>1. b.row = i /\ b.end = end /\ b.contested = Contested(e)
      BY <2>2, <2>8
    <3> HIDE DEF i, end, req, a
    <3>2. /\ b.row \in DOMAIN runs' /\ runs'[b.row].finished
          /\ runs'[b.row].status = b.end /\ b.end \in Ends
      BY <2>1, <2>4, <2>5, <3>1
    <3>3. ~b.contested => \A o \in Execs : exec'[o].row # b.row
      BY <2>3, <2>6, <2>7, <3>1
    <3> QED
      BY <3>2, <3>3 DEF Told, Settled
  <2> QED
    BY <1>2, <2>8 DEF AnswersHaveRows
<1>5. ASSUME NEW e \in Execs, Step(e) PROVE AnswersHaveRows'
  BY <1>3, <1>4, <1>5
     DEF Step, MarkSyncRunRunning, tryAcquireUserSync, TryAcquireUserSyncLease, Work,
         PickOpenRow, OutcomeFails, ReportFailure, Unlock
<1>6. CASE \/ \E r \in Requests : RecordQueuedSyncRequest(r)
           \/ \E e \in Execs, r \in Requests : Begin(e, r)
           \/ \E e \in Execs : CallerGone(e) \/ LoseSession(e)
           \/ \E p \in {Pod[e] : e \in Execs} : Crash(p)
           \/ \E s \in Subjects : EndSession(s)
           \/ MarkStaleSyncRunsFailed \/ Tick \/ UNCHANGED vars
  BY <1>3, <1>6 DEF RecordQueuedSyncRequest, Begin, CallerGone, LoseSession, Crash, EndSession,
                    MarkStaleSyncRunsFailed, Tick, vars
<1> QED
  BY <1>5, <1>6 DEF Next

\* A finished row is shown with an end, its own unless it was marked running.
LEMMA FinishedAreShown ==
  ASSUME RowsOK, NEW i \in DOMAIN runs, runs[i].finished
  PROVE  LET shown == normalizeSyncRunViews(runs)[i]
         IN /\ isTerminalSyncRunStatus(shown)
            /\ runs[i].status \in Ends => shown = runs[i].status
<1>1. runs[i].status \in OpenStatus \cup Ends
  <2>1. runs[i] \in Rows
    BY DEF RowsOK
  <2> QED
    BY <2>1 DEF Rows
<1>2. /\ ShownAlone(runs[i]) \in Ends
      /\ runs[i].status \in Ends => ShownAlone(runs[i]) = runs[i].status
  BY <1>1 DEF ShownAlone, OpenStatus, Ends
<1>3. normalizeSyncRunViews(runs)[i] = ShownAlone(runs[i])
  BY <1>2 DEF normalizeSyncRunViews, OpenStatus, Ends
<1> QED
  BY <1>2, <1>3 DEF isTerminalSyncRunStatus, Ends

\* A caller that was told how its sync ended finds that outcome in the listing,
\* or another end that a statement under way at the time has written over it,
\* for any number of requests, executions, reapers and crashes.
THEOREM ToldIsShown == Spec => []AnsweredIsShown
<1>1. Init => AnswersHaveRows
  BY DEF Init, AnswersHaveRows
<1>2. TableInv /\ AnswersHaveRows => AnsweredIsShown
  <2> SUFFICES ASSUME TableInv, AnswersHaveRows, NEW a \in answered
               PROVE  /\ a.row \in DOMAIN runs
                      /\ LET shown == normalizeSyncRunViews(runs)[a.row]
                         IN isTerminalSyncRunStatus(shown) /\ (a.contested \/ shown = a.end)
    BY DEF AnsweredIsShown
  <2>1. Told(a) /\ RowsOK
    BY DEF AnswersHaveRows, TableInv
  <2> QED
    BY <2>1, FinishedAreShown DEF Told
<1> QED
  BY <1>1, <1>2, Invariance, NextKeepsAnswers, PTL DEF Spec

----------------------------------------------------------------------------
(* Webhooks.                                                               *)

DeliveryStatuses == {"unknown", "received", "duplicate", "enqueued", "failed"}
IntakeSteps == {"duplicate", "persist", "failed", "enqueued"}
HandlerStates == [pc : IntakeSteps, d : Deliveries] \cup {Idle}

IntakeTypeOK ==
  /\ status \in [Deliveries -> DeliveryStatuses]
  /\ handler \in [Handlers -> HandlerStates]
  /\ intakes \in [Deliveries -> Nat]

\* A delivery that passed the check has a row.
IntakeLeavesRow ==
  \A d \in Deliveries : intakes[d] <= 1 /\ (~Known(d) => intakes[d] = 0)

IntakeInv == IntakeTypeOK /\ IntakeLeavesRow /\ EnqueuedWasStored

LEMMA IdleHandler == Idle \in HandlerStates /\ Idle.pc = "idle"
  BY DEF Idle, HandlerStates

\* Nothing is known and nobody handles anything at the beginning.
LEMMA IntakeInitInv == IntakeInit => IntakeInv
<1> SUFFICES ASSUME IntakeInit PROVE IntakeInv
  OBVIOUS
<1>1. IntakeTypeOK
  BY IdleHandler DEF IntakeInit, IntakeTypeOK, DeliveryStatuses
<1>2. IntakeLeavesRow
  BY DEF IntakeInit, IntakeLeavesRow
<1>3. EnqueuedWasStored
  BY IdleHandler DEF IntakeInit, EnqueuedWasStored, At
<1> QED
  BY <1>1, <1>2, <1>3 DEF IntakeInv

----------------------------------------------------------------------------
\* The database forgets nothing, so a handler that moves needs a stored
\* payload only where it comes to enqueue.
LEMMA MoveKeeps ==
  ASSUME IntakeInv, NEW h \in Handlers, NEW step \in HandlerStates,
         handler' = [handler EXCEPT ![h] = step],
         applied \subseteq applied',
         step.pc = "enqueued" => step.d \in applied'
  PROVE  /\ handler' \in [Handlers -> HandlerStates]
         /\ \A k \in Handlers : At(k, "enqueued")' => Of(k)' \in applied'
<1>1. handler' \in [Handlers -> HandlerStates]
  BY DEF IntakeInv, IntakeTypeOK
<1>2. ASSUME NEW k \in Handlers, handler'[k].pc = "enqueued" PROVE handler'[k].d \in applied'
  BY <1>2 DEF IntakeInv, IntakeTypeOK, EnqueuedWasStored, At, Of
<1> QED
  BY <1>1, <1>2 DEF At, Of

\* Writing the status of a known delivery; "enqueued" needs the payload.
LEMMA StatusKeeps ==
  ASSUME IntakeInv, NEW d \in Deliveries, NEW new \in DeliveryStatuses, new # "unknown",
         status' = [status EXCEPT ![d] = new], UNCHANGED <<intakes, applied>>,
         new = "enqueued" => d \in applied
  PROVE  /\ status' \in [Deliveries -> DeliveryStatuses]
         /\ IntakeLeavesRow'
         /\ \A c \in Deliveries : status'[c] = "enqueued" => c \in applied'
<1>1. status' \in [Deliveries -> DeliveryStatuses]
  BY DEF IntakeInv, IntakeTypeOK
<1>2. IntakeLeavesRow'
  BY DEF IntakeInv, IntakeTypeOK, IntakeLeavesRow, Known
<1>3. \A c \in Deliveries : status'[c] = "enqueued" => c \in applied'
  BY DEF IntakeInv, IntakeTypeOK, EnqueuedWasStored
<1> QED
  BY <1>1, <1>2, <1>3

\* The first request to insert the row goes on, the others are duplicates.
LEMMA ReceiveKeeps ==
  ASSUME IntakeInv, NEW h \in Handlers, NEW d \in Deliveries, Receive(h, d)
  PROVE  IntakeInv'
<1> DEFINE step == [pc |-> IF Known(d) THEN "duplicate" ELSE "persist", d |-> d]
<1>1. handler' = [handler EXCEPT ![h] = step] /\ UNCHANGED applied
  BY DEF Receive
<1>2. step \in HandlerStates /\ step.pc # "enqueued"
  BY DEF HandlerStates, IntakeSteps
<1> HIDE DEF step
<1>3. /\ handler' \in [Handlers -> HandlerStates]
      /\ \A k \in Handlers : At(k, "enqueued")' => Of(k)' \in applied'
  BY <1>1, <1>2, MoveKeeps
<1>4. CASE Known(d)
  <2>1. UNCHANGED <<status, intakes, applied>>
    BY <1>4 DEF Receive
  <2> QED
    BY <1>3, <2>1 DEF IntakeInv, IntakeTypeOK, IntakeLeavesRow,
           EnqueuedWasStored, Known
<1>5. CASE ~Known(d)
  <2>1. /\ status' = [status EXCEPT ![d] = "received"]
        /\ intakes' = [intakes EXCEPT ![d] = @ + 1]
    BY <1>5 DEF Receive
  <2>2. intakes[d] = 0
    BY <1>5 DEF IntakeInv, IntakeLeavesRow
  <2>3. status' \in [Deliveries -> DeliveryStatuses] /\ intakes' \in [Deliveries -> Nat]
    BY <2>1 DEF IntakeInv, IntakeTypeOK, DeliveryStatuses
  <2>4. IntakeLeavesRow'
    BY <2>1, <2>2 DEF IntakeInv, IntakeTypeOK, IntakeLeavesRow, Known
  <2>5. \A c \in Deliveries : status'[c] = "enqueued" => c \in applied'
    BY <1>1, <2>1 DEF IntakeInv, IntakeTypeOK, EnqueuedWasStored
  <2> QED
    BY <1>3, <2>3, <2>4, <2>5 DEF IntakeInv, IntakeTypeOK, EnqueuedWasStored
<1> QED
  BY <1>4, <1>5

\* An operator sends a delivery through the store again.
LEMMA RequeueKeeps ==
  ASSUME IntakeInv, NEW h \in Handlers, NEW d \in Deliveries, Requeue(h, d)
  PROVE  IntakeInv'
<1> DEFINE step == [pc |-> "persist", d |-> d]
<1>1. handler' = [handler EXCEPT ![h] = step] /\ UNCHANGED <<status, intakes, applied>>
  BY DEF Requeue
<1>2. step \in HandlerStates /\ step.pc # "enqueued"
  BY DEF HandlerStates, IntakeSteps
<1> HIDE DEF step
<1>3. /\ handler' \in [Handlers -> HandlerStates]
      /\ \A k \in Handlers : At(k, "enqueued")' => Of(k)' \in applied'
  BY <1>1, <1>2, MoveKeeps
<1> QED
  BY <1>1, <1>3 DEF IntakeInv, IntakeTypeOK, IntakeLeavesRow,
           EnqueuedWasStored, Known

\* A handler goes on: one that has stored its payload may enqueue.
LEMMA StepOnKeeps ==
  ASSUME IntakeInv, NEW h \in Handlers, At(h, "persist") \/ At(h, "enqueued"),
         NEW pc \in {"enqueued", "failed"}, Goto(h, pc),
         applied \subseteq applied', pc = "enqueued" => Of(h) \in applied',
         UNCHANGED <<status, intakes>>
  PROVE  IntakeInv'
<1>1. handler[h] \in [pc : IntakeSteps, d : Deliveries]
  BY IdleHandler DEF IntakeInv, IntakeTypeOK, HandlerStates, At
<1> DEFINE step == [handler[h] EXCEPT !.pc = pc]
<1>2. step \in HandlerStates /\ step.pc = pc /\ step.d = Of(h)
  BY <1>1 DEF HandlerStates, IntakeSteps, Of
<1>3. handler' = [handler EXCEPT ![h] = step]
  BY DEF Goto
<1> HIDE DEF step
<1>4. /\ handler' \in [Handlers -> HandlerStates]
      /\ \A k \in Handlers : At(k, "enqueued")' => Of(k)' \in applied'
  BY <1>2, <1>3, MoveKeeps
<1> QED
  BY <1>4 DEF IntakeInv, IntakeTypeOK, IntakeLeavesRow, EnqueuedWasStored, Known

\* A payload is stored, or is not.
LEMMA PersistKeeps ==
  ASSUME IntakeInv, NEW h \in Handlers, PersistWebhook(h)
  PROVE  IntakeInv'
<1>1. PICK pc \in {"enqueued", "failed"} :
        /\ Goto(h, pc)
        /\ applied \subseteq applied'
        /\ pc = "enqueued" => Of(h) \in applied'
  BY DEF PersistWebhook
<1>2. At(h, "persist") /\ UNCHANGED <<status, intakes>>
  BY DEF PersistWebhook
<1> QED
  BY <1>1, <1>2, StepOnKeeps

\* A handler writes its verdict and ends.
LEMMA VerdictKeeps ==
  ASSUME IntakeInv, NEW h \in Handlers, ~At(h, "idle"), Done(h),
         NEW new \in DeliveryStatuses, new # "unknown",
         new = "enqueued" => Of(h) \in applied,
         \/ status' = [status EXCEPT ![Of(h)] = new]
         \/ UNCHANGED status,
         UNCHANGED <<intakes, applied>>
  PROVE  IntakeInv'
<1>1. /\ handler' \in [Handlers -> HandlerStates]
      /\ \A k \in Handlers : At(k, "enqueued")' => Of(k)' \in applied'
  BY IdleHandler, MoveKeeps DEF Done
<1>2. Of(h) \in Deliveries
  BY IdleHandler DEF IntakeInv, IntakeTypeOK, HandlerStates, At, Of
<1>3. CASE UNCHANGED status
  BY <1>1, <1>3 DEF IntakeInv, IntakeTypeOK, IntakeLeavesRow,
           EnqueuedWasStored, Known
<1>4. CASE status' = [status EXCEPT ![Of(h)] = new]
  <2>1. /\ status' \in [Deliveries -> DeliveryStatuses] /\ IntakeLeavesRow'
        /\ \A c \in Deliveries : status'[c] = "enqueued" => c \in applied'
    BY <1>2, <1>4, StatusKeeps
  <2> QED
    BY <1>1, <2>1 DEF IntakeInv, IntakeTypeOK, EnqueuedWasStored
<1> QED
  BY <1>3, <1>4

\* The handlers' steps.
LEMMA HandleKeeps ==
  ASSUME IntakeInv, NEW h \in Handlers, Handle(h)
  PROVE  IntakeInv'
<1>1. CASE MarkDuplicate(h)
  BY <1>1, VerdictKeeps DEF MarkDuplicate, At, DeliveryStatuses
<1>2. CASE MarkFailed(h)
  BY <1>2, VerdictKeeps DEF MarkFailed, MarkStatus, At, DeliveryStatuses
<1>3. CASE MarkEnqueued(h)
  <2>1. Of(h) \in applied
    BY <1>3 DEF MarkEnqueued, MarkStatus, IntakeInv, EnqueuedWasStored
  <2> QED
    BY <1>3, <2>1, VerdictKeeps DEF MarkEnqueued, MarkStatus, At, DeliveryStatuses
<1>4. CASE EnqueueFails(h)
  <2>1. At(h, "enqueued") /\ Goto(h, "failed") /\ UNCHANGED <<status, intakes, applied>>
    BY <1>4 DEF EnqueueFails
  <2> QED
    BY <2>1, StepOnKeeps
<1> QED
  BY <1>1, <1>2, <1>3, <1>4, PersistKeeps DEF Handle

\* Every step keeps the invariant.
LEMMA IntakeNextKeeps == IntakeInv /\ [IntakeNext]_intakeVars => IntakeInv'
<1> SUFFICES ASSUME IntakeInv, [IntakeNext]_intakeVars PROVE IntakeInv'
  OBVIOUS
<1>1. CASE UNCHANGED <<status, handler, intakes, applied>>
  BY <1>1 DEF IntakeInv, IntakeTypeOK, IntakeLeavesRow, EnqueuedWasStored, Known,
              At, Of
<1>2. CASE (\E d \in Deliveries : Emit(d)) \/ SyncFetch \/ SyncStore
           \/ UNCHANGED intakeVars
  BY <1>1, <1>2 DEF Emit, SyncFetch, SyncStore, intakeVars
<1>3. CASE PodsRestart
  <2>1. /\ \A h \in Handlers : handler'[h] = Idle
        /\ handler' \in [Handlers -> HandlerStates]
        /\ UNCHANGED <<status, intakes, applied>>
    BY <1>3, IdleHandler DEF PodsRestart
  <2> QED
    BY <2>1, IdleHandler DEF IntakeInv, IntakeTypeOK, IntakeLeavesRow, EnqueuedWasStored, Known,
                At, Of
<1> QED
  BY <1>2, <1>3, ReceiveKeeps, RequeueKeeps, HandleKeeps DEF IntakeNext

\* The invariant holds in every state of every run.
THEOREM IntakeInvariance == IntakeSpec => []IntakeInv
  BY IntakeInitInv, IntakeNextKeeps, PTL DEF IntakeSpec

\* Concurrent and repeated deliveries pass the duplicate check once, however
\* many handlers, restarts and operators there are.
THEOREM CheckedOnce == IntakeSpec => []OneIntake
<1>1. IntakeInv => OneIntake
  BY DEF IntakeInv, IntakeLeavesRow, OneIntake
<1> QED
  BY IntakeInvariance, <1>1, PTL

\* A delivery marked enqueued is in the database, whatever redeliveries,
\* requeues and late failure reports write to the status column.
THEOREM StoredBeforeEnqueued == IntakeSpec => []EnqueuedWasStored
<1>1. IntakeInv => EnqueuedWasStored
  BY DEF IntakeInv
<1> QED
  BY IntakeInvariance, <1>1, PTL

----------------------------------------------------------------------------
(* Collecting the history of a user (AuthoredHistory).  First, numbers.  *)

\* A nonempty set of naturals has a least member.
LEMMA MinMember ==
  ASSUME NEW S, S \subseteq Nat, S # {}
  PROVE  Min(S) \in S /\ \A y \in S : Min(S) <= y
<1>1. PICK x \in S : \A y \in S : ~(<<y, x>> \in OpToRel(<, Nat))
  BY NatLessThanWellFounded, WFMin
<1>2. \A y \in S : x <= y
  <2> SUFFICES ASSUME NEW y \in S PROVE x <= y
    OBVIOUS
  <2>1. ~(<<y, x>> \in OpToRel(<, Nat))
    BY <1>1
  <2>2. x \in Nat /\ y \in Nat
    OBVIOUS
  <2>3. ~(y < x)
    BY <2>1, <2>2 DEF OpToRel
  <2> QED
    BY <2>2, <2>3
<1> QED
  BY <1>2 DEF Min

\* The lesser and the greater of two numbers.
LEMMA MinOfTwo ==
  ASSUME NEW a \in Int, NEW b \in Int
  PROVE  Min({a, b}) = IF a <= b THEN a ELSE b
<1> DEFINE m == IF a <= b THEN a ELSE b
<1>1. m \in {a, b} /\ \A y \in {a, b} : m <= y
  OBVIOUS
<1>2. \A x \in {a, b} : (\A y \in {a, b} : x <= y) => x = m
  OBVIOUS
<1> QED
  BY <1>1, <1>2 DEF Min

LEMMA MaxOfTwo ==
  ASSUME NEW a \in Int, NEW b \in Int
  PROVE  Max({a, b}) = IF a >= b THEN a ELSE b
<1> DEFINE m == IF a >= b THEN a ELSE b
<1>1. m \in {a, b} /\ \A y \in {a, b} : m >= y
  OBVIOUS
<1>2. \A x \in {a, b} : (\A y \in {a, b} : x >= y) => x = m
  OBVIOUS
<1> QED
  BY <1>1, <1>2 DEF Max

\* Induction on the naturals, for a set of them.
LEMMA NatsAreReached ==
  ASSUME NEW S, 0 \in S, \A n \in Nat : n \in S => n + 1 \in S
  PROVE  Nat \subseteq S
<1> SUFFICES ASSUME Nat \ S # {} PROVE FALSE
  OBVIOUS
<1> DEFINE m == Min(Nat \ S)
<1>1. m \in Nat \ S /\ \A y \in Nat \ S : m <= y
  BY MinMember
<1> HIDE DEF m
<1>2. m # 0
  BY <1>1
<1>3. m - 1 \in Nat /\ ~(m <= m - 1)
  BY <1>1, <1>2
<1>4. m - 1 \in S
  BY <1>1, <1>3
<1> QED
  BY <1>1, <1>3, <1>4

\* Definition by recursion on the naturals: from a, stage by stage.
Stages(f, a, R, n) == f[0] = a /\ \A i \in 1 .. n : f[i] = R[<<i, f[i - 1]>>]

\* Such a function exists.
LEMMA StagesExist ==
  ASSUME NEW S, NEW a \in S, NEW R \in [Nat \X S -> S], NEW n \in Nat
  PROVE  \E f \in [0 .. n -> S] : Stages(f, a, R, n)
<1> DEFINE ok(f, k) == f[0] = a /\ \A i \in 1 .. k : f[i] = R[<<i, f[i - 1]>>]
<1> DEFINE K == {k \in Nat : \E f \in [0 .. k -> S] : ok(f, k)}
<1>1. 0 \in K
  <2>1. [i \in 0 .. 0 |-> a] \in [0 .. 0 -> S] /\ ok([i \in 0 .. 0 |-> a], 0)
    OBVIOUS
  <2> QED
    BY <2>1
<1>2. ASSUME NEW k \in Nat, k \in K PROVE k + 1 \in K
  <2>1. PICK f \in [0 .. k -> S] : ok(f, k)
    BY <1>2
  <2> DEFINE g == [i \in 0 .. (k + 1) |-> IF i <= k THEN f[i] ELSE R[<<k + 1, f[k]>>]]
  <2>2. R[<<k + 1, f[k]>>] \in S
    OBVIOUS
  <2>3. g \in [0 .. (k + 1) -> S]
    BY <2>2
  <2>4. g[0] = a
    BY <2>1
  <2>5. ASSUME NEW i \in 1 .. (k + 1) PROVE g[i] = R[<<i, g[i - 1]>>]
    <3>1. CASE i <= k
      BY <2>1, <3>1
    <3>2. CASE i = k + 1
      <4>1. i - 1 = k /\ k \in 0 .. (k + 1) /\ ~(i <= k)
        BY <3>2
      <4>2. g[i] = R[<<k + 1, f[k]>>] /\ g[k] = f[k]
        BY <4>1
      <4> QED
        BY <3>2, <4>1, <4>2
    <3> QED
      BY <3>1, <3>2
  <2> HIDE DEF g
  <2> QED
    BY <2>3, <2>4, <2>5
<1> HIDE DEF K
<1>3. n \in K
  BY <1>1, <1>2, NatsAreReached
<1> QED
  BY <1>3 DEF K, Stages

----------------------------------------------------------------------------
(* What a query answers.                                                 *)

\* A finite set can be listed newest first.
LEMMA NewestFirst ==
  ASSUME NEW T, IsFiniteSet(T), NEW W \in [T -> Nat]
  PROVE  \E s \in [1 .. Cardinality(T) -> T] :
            \A i, j \in DOMAIN s : i < j => s[i] # s[j] /\ W[s[i]] >= W[s[j]]
<1> DEFINE listed(s) == \A i, j \in DOMAIN s : i < j => s[i] # s[j] /\ W[s[i]] >= W[s[j]]
<1> DEFINE K == {n \in Nat : \A U \in SUBSET T :
                    IsFiniteSet(U) /\ Cardinality(U) = n => \E s \in [1 .. n -> U] : listed(s)}
<1>1. 0 \in K
  <2> SUFFICES ASSUME NEW U \in SUBSET T, IsFiniteSet(U), Cardinality(U) = 0
               PROVE  \E s \in [1 .. 0 -> U] : listed(s)
    OBVIOUS
  <2>1. [i \in 1 .. 0 |-> i] \in [1 .. 0 -> U] /\ listed([i \in 1 .. 0 |-> i])
    OBVIOUS
  <2> QED
    BY <2>1
<1>2. ASSUME NEW n \in Nat, n \in K PROVE n + 1 \in K
  <2> SUFFICES ASSUME NEW U \in SUBSET T, IsFiniteSet(U), Cardinality(U) = n + 1
               PROVE  \E s \in [1 .. n + 1 -> U] : listed(s)
    OBVIOUS
  <2> DEFINE times == {W[p] : p \in U}
  <2>1. U # {}
    BY FS_EmptySet
  <2>2. times \subseteq Nat /\ times # {}
    BY <2>1
  <2>3. Min(times) \in times /\ \A y \in times : Min(times) <= y
    BY <2>2, MinMember
  <2>4. PICK m \in U : \A p \in U : W[m] <= W[p]
    BY <2>3
  <2>5. IsFiniteSet(U \ {m}) /\ Cardinality(U \ {m}) = n
    <3>1. Cardinality(U \ {m}) = Cardinality(U) - 1
      BY FS_RemoveElement
    <3> QED
      BY <3>1, FS_RemoveElement
  <2>6. PICK s \in [1 .. n -> U \ {m}] : listed(s)
    BY <1>2, <2>5
  <2> DEFINE g == [i \in 1 .. n + 1 |-> IF i <= n THEN s[i] ELSE m]
  <2>7. \A i \in 1 .. n : g[i] = s[i] /\ s[i] \in U /\ s[i] # m
    OBVIOUS
  <2>8. g[n + 1] = m /\ DOMAIN g = 1 .. n + 1
    OBVIOUS
  <2> HIDE DEF g
  <2>9. ASSUME NEW i \in 1 .. n + 1, NEW j \in 1 .. n + 1, i < j
        PROVE  g[i] # g[j] /\ W[g[i]] >= W[g[j]]
    <3>1. CASE j = n + 1
      <4>1. i \in 1 .. n
        BY <2>9, <3>1
      <4>2. W[g[i]] \in Nat /\ W[m] \in Nat
        BY <2>7, <4>1
      <4> QED
        BY <2>4, <2>7, <2>8, <3>1, <4>1, <4>2
    <3>2. CASE j # n + 1
      <4>1. i \in 1 .. n /\ j \in 1 .. n
        BY <2>9, <3>2
      <4> QED
        BY <2>6, <2>7, <2>9, <4>1
    <3> QED
      BY <3>1, <3>2
  <2>10. g \in [1 .. n + 1 -> U]
    BY <2>7, <2>8 DEF g
  <2> QED
    BY <2>8, <2>9, <2>10
<1> HIDE DEF K
<1>3. Cardinality(T) \in Nat
  BY FS_CardinalityType
<1>4. Cardinality(T) \in K
  BY <1>1, <1>2, <1>3, NatsAreReached
<1> QED
  BY <1>4 DEF K

\* When the pull requests were created or updated, as a function.
Times(qualifier) == [p \in PRs |-> When(qualifier, p)]
Within(view, W, from, to) == {p \in view : W[p] \in from .. to}

\* The answer to a query holds what matches it.
LEMMA MatchesAreListed ==
  ASSUME updated \in [PRs -> Nat], NEW view \in SUBSET PRs, NEW qualifier,
         NEW from \in Int, NEW to \in Int
  PROVE  LET found == Matches(view, qualifier, from, to)
         IN found \in Seq(PRs) /\ ToSet(found) = Within(view, Times(qualifier), from, to)
<1> DEFINE T == {p \in view : When(qualifier, p) \in from .. to}
<1> DEFINE W == [p \in T |-> When(qualifier, p)]
<1> DEFINE listed(s) == \A i, j \in DOMAIN s :
              i < j => s[i] # s[j] /\ When(qualifier, s[i]) >= When(qualifier, s[j])
<1> DEFINE o == Matches(view, qualifier, from, to)
<1>1. IsFiniteSet(T) /\ Cardinality(T) \in Nat
  <2>1. IsFiniteSet(PRs)
    BY HistoryAssumption
  <2> QED
    BY <2>1, FS_Subset, FS_CardinalityType
<1>2. T \subseteq PRs /\ W \in [T -> Nat]
  BY HistoryAssumption DEF When
<1>3. PICK s \in [1 .. Cardinality(T) -> T] :
         \A i, j \in DOMAIN s : i < j => s[i] # s[j] /\ W[s[i]] >= W[s[j]]
  <2> HIDE DEF T, W
  <2> QED
    BY <1>1, <1>2, NewestFirst
<1>4. listed(s)
  BY <1>3
<1>5. o = CHOOSE x \in [1 .. Cardinality(T) -> T] : listed(x)
  BY Zenon DEF Matches
<1> HIDE DEF listed
<1>6. o \in [1 .. Cardinality(T) -> T] /\ listed(o)
  BY Zenon, <1>4, <1>5
<1> HIDE DEF o
<1>7. o \in Injection(1 .. Cardinality(T), T)
  <2> SUFFICES ASSUME NEW i \in DOMAIN o, NEW j \in DOMAIN o, i # j PROVE o[i] # o[j]
    BY <1>6 DEF Injection, IsInjective
  <2>1. i \in Int /\ j \in Int /\ (i < j \/ j < i)
    BY <1>1, <1>6
  <2> QED
    BY <1>6, <2>1 DEF listed
<1>8. o \in Surjection(1 .. Cardinality(T), T)
  <2>1. IsFiniteSet(1 .. Cardinality(T)) /\ Cardinality(1 .. Cardinality(T)) = Cardinality(T)
    BY <1>1, FS_Interval
  <2> HIDE DEF T
  <2> QED
    BY <1>1, <1>7, <2>1, FS_Injection
<1>9. o \in Seq(PRs)
  <2>1. o \in [1 .. Cardinality(T) -> PRs]
    BY <1>2, <1>6
  <2> HIDE DEF T
  <2> QED
    BY <1>1, <2>1, SeqDef
<1>10. ToSet(o) = T
  <2> HIDE DEF T
  <2> QED
    BY <1>6, <1>8 DEF Surjection, ToSet
<1>11. T = Within(view, Times(qualifier), from, to)
  BY DEF Within, Times
<1> QED
  BY <1>9, <1>10, <1>11 DEF o

\* OldestOf gives the least time of creation, NoTime for nothing.
LEMMA OldestOfList ==
  ASSUME NEW t \in Seq(PRs)
  PROVE  /\ t = <<>> => OldestOf(t) = NoTime
         /\ t # <<>> => /\ OldestOf(t) \in Nat
                        /\ \E q \in ToSet(t) : Created[q] = OldestOf(t)
                        /\ \A q \in ToSet(t) : OldestOf(t) <= Created[q]
<1>1. CASE t = <<>>
  BY <1>1 DEF OldestOf
<1>2. CASE t # <<>>
  <2> DEFINE times == {Created[p] : p \in ToSet(t)}
  <2>1. 1 \in DOMAIN t /\ \A i \in DOMAIN t : t[i] \in PRs
    BY <1>2, ElementOfSeq, LenProperties, EmptySeq
  <2>2. ToSet(t) \subseteq PRs /\ t[1] \in ToSet(t)
    BY <2>1 DEF ToSet
  <2>3. times \subseteq Nat /\ times # {}
    BY <2>2, HistoryAssumption
  <2>4. Min(times) \in times /\ \A y \in times : Min(times) <= y
    BY <2>3, MinMember
  <2>5. OldestOf(t) = Min(times)
    BY <1>2 DEF OldestOf
  <2> QED
    BY <1>2, <2>3, <2>4, <2>5
<1> QED
  BY <1>1, <1>2

\* What two lists hold together.
LEMMA ConcatHolds ==
  ASSUME NEW s \in Seq(PRs), NEW t \in Seq(PRs)
  PROVE  /\ s \o t \in Seq(PRs) /\ Len(s \o t) = Len(s) + Len(t)
         /\ ToSet(s \o t) = ToSet(s) \cup ToSet(t)
<1>1. /\ s \o t \in Seq(PRs) /\ Len(s \o t) = Len(s) + Len(t)
      /\ \A i \in 1 .. Len(s) + Len(t) :
            (s \o t)[i] = IF i <= Len(s) THEN s[i] ELSE t[i - Len(s)]
  BY ConcatProperties
<1>2. /\ DOMAIN s = 1 .. Len(s) /\ DOMAIN t = 1 .. Len(t) /\ Len(s) \in Nat /\ Len(t) \in Nat
      /\ DOMAIN (s \o t) = 1 .. Len(s) + Len(t)
  BY <1>1, LenProperties
<1> DEFINE c == s \o t
<1> HIDE DEF c
<1>3. ASSUME NEW i \in DOMAIN s PROVE s[i] = c[i] /\ i \in DOMAIN c
  BY <1>1, <1>2 DEF c
<1>4. ASSUME NEW i \in DOMAIN t PROVE t[i] = c[i + Len(s)] /\ i + Len(s) \in DOMAIN c
  BY <1>1, <1>2 DEF c
<1>5. ASSUME NEW i \in DOMAIN c PROVE c[i] \in ToSet(s) \cup ToSet(t)
  <2>1. CASE i <= Len(s)
    BY <1>1, <1>2, <2>1 DEF c, ToSet
  <2>2. CASE ~(i <= Len(s))
    <3>1. i - Len(s) \in DOMAIN t /\ c[i] = t[i - Len(s)]
      BY <1>1, <1>2, <2>2 DEF c
    <3> QED
      BY <3>1 DEF ToSet
  <2> QED
    BY <2>1, <2>2
<1>6. ToSet(c) = ToSet(s) \cup ToSet(t)
  BY <1>3, <1>4, <1>5 DEF ToSet
<1> QED
  BY <1>1, <1>6 DEF c

\* What the first n of a list are.
LEMMA FirstNHolds ==
  ASSUME NEW s \in Seq(PRs), NEW n \in Nat
  PROVE  /\ FirstN(s, n) \in Seq(PRs) /\ Len(FirstN(s, n)) <= n
         /\ Len(FirstN(s, n)) = IF n <= Len(s) THEN n ELSE Len(s)
         /\ ToSet(FirstN(s, n)) \subseteq ToSet(s)
<1> DEFINE m == IF n <= Len(s) THEN n ELSE Len(s)
<1>1. Len(s) \in Nat /\ DOMAIN s = 1 .. Len(s)
  BY LenProperties
<1>2. FirstN(s, n) = SubSeq(s, 1, m)
  BY <1>1, MinOfTwo DEF FirstN
<1>3. m \in Nat /\ m <= Len(s) /\ m <= n
  BY <1>1
<1> HIDE DEF m
<1> DEFINE f == SubSeq(s, 1, m)
<1>4. /\ f \in Seq(PRs) /\ Len(f) = m
      /\ \A i \in 1 .. m : f[i] = s[i]
  <2>1. 1 \in 1 .. Len(s) + 1 /\ m \in 1 - 1 .. Len(s)
    BY <1>1, <1>3
  <2>2. \A i \in 1 .. m : s[i] \in PRs
    BY <1>1, <1>3, ElementOfSeq
  <2> QED
    BY <1>1, <1>3, <2>1, <2>2, SubSeqProperties
<1>5. DOMAIN f = 1 .. m
  BY <1>4, LenProperties
<1>6. ToSet(f) \subseteq ToSet(s)
  BY <1>1, <1>3, <1>4, <1>5 DEF ToSet
<1> QED
  BY <1>2, <1>3, <1>4, <1>6 DEF m

----
\* What a search of the window w gives.
IsAnswer(r, view, W, w) ==
  LET here == Within(view, W, w.from, w.to)
  IN /\ r.targets \in Seq(PRs) /\ ToSet(r.targets) \subseteq here
     /\ w.limit <= 0 => r.targets = <<>>
     /\ w.limit > 0 => Len(r.targets) <= w.limit
     /\ r.oldest = OldestOf(r.targets)
     /\ r.cut \subseteq view
     /\ w.limit > 0 => \A p \in here :
           \/ p \in ToSet(r.targets) \cup r.cut
           \/ Len(r.targets) >= w.limit /\ \A q \in ToSet(r.targets) : W[q] > W[p]

\* A window that is empty, or for which there is no room, is not searched.
LEMMA NothingIsAnswer ==
  ASSUME NEW view, NEW W, NEW w \in Windows, w.limit <= 0 \/ w.to < w.from,
         \A p \in view : W[p] \in Nat
  PROVE  IsAnswer(Nothing, view, W, w)
<1>1. ToSet(<<>>) = {} /\ <<>> \in Seq(PRs) /\ OldestOf(<<>>) = NoTime /\ Len(<<>>) = 0
  BY EmptySeq DEF ToSet, OldestOf
<1>2. w.limit \in Int /\ w.to \in Int /\ w.from \in Int
  BY DEF Windows
<1>3. w.to < w.from => Within(view, W, w.from, w.to) = {}
  BY <1>2 DEF Within
<1> QED
  BY <1>1, <1>2, <1>3 DEF IsAnswer, Nothing

\* One query that is not split, cut to the hard limit and to the room.
LEMMA PageIsAnswer ==
  ASSUME NEW view \in SUBSET PRs, NEW W, NEW w \in Windows, w.limit > 0, NEW overflow,
         NEW items \in Seq(PRs), ToSet(items) = Within(view, W, w.from, w.to)
  PROVE  IsAnswer(Page(items, w.limit, overflow), view, W, w)
<1> DEFINE r == Page(items, w.limit, overflow)
<1> DEFINE a == FirstN(items, HardLimit)
<1>1. w.limit \in Nat /\ HardLimit \in Nat
  <2>1. w.limit \in Int
    BY DEF Windows
  <2>2. HardLimit \in Nat
    BY HistoryAssumption
  <2> QED
    BY <2>1, <2>2
<1>2. a \in Seq(PRs) /\ ToSet(a) \subseteq ToSet(items)
  BY <1>1, FirstNHolds
<1> HIDE DEF a
<1> DEFINE t == FirstN(a, w.limit)
<1>3. t \in Seq(PRs) /\ ToSet(t) \subseteq ToSet(a) /\ Len(t) <= w.limit
  BY <1>1, <1>2, FirstNHolds
<1>4. r.targets = t /\ r.oldest = OldestOf(t) /\ r.cut = ToSet(items) \ ToSet(t)
  BY DEF Page, a
<1> HIDE DEF r, t
<1>5. IsAnswer(r, view, W, w)
  BY <1>1, <1>2, <1>3, <1>4 DEF IsAnswer, Within
<1> QED
  BY <1>5 DEF r

\* minAuthoredTimestamp over two halves is that of the whole.
LEMMA OldestOfBoth ==
  ASSUME NEW s \in Seq(PRs), NEW t \in Seq(PRs)
  PROVE  Earliest(OldestOf(s), OldestOf(t)) = OldestOf(s \o t)
<1>1. s \o t \in Seq(PRs) /\ ToSet(s \o t) = ToSet(s) \cup ToSet(t)
  BY ConcatHolds
<1>2. s = <<>> => s \o t = t
  BY ConcatEmptySeq
<1>3. t = <<>> => s \o t = s
  BY ConcatEmptySeq
<1>4. CASE s = <<>> \/ t = <<>>
  BY <1>2, <1>3, <1>4, OldestOfList DEF Earliest
<1>5. CASE s # <<>> /\ t # <<>>
  <2>1. s \o t # <<>>
    BY <1>5, ConcatEqualIffEmpty, ConcatProperties, EmptySeq, LenProperties
  <2>2. /\ OldestOf(s) \in Nat
        /\ \E q \in ToSet(s) : Created[q] = OldestOf(s)
        /\ \A q \in ToSet(s) : OldestOf(s) <= Created[q]
    BY <1>5, OldestOfList
  <2>3. /\ OldestOf(t) \in Nat
        /\ \E q \in ToSet(t) : Created[q] = OldestOf(t)
        /\ \A q \in ToSet(t) : OldestOf(t) <= Created[q]
    BY <1>5, OldestOfList
  <2>4. /\ OldestOf(s \o t) \in Nat
        /\ \E q \in ToSet(s \o t) : Created[q] = OldestOf(s \o t)
        /\ \A q \in ToSet(s \o t) : OldestOf(s \o t) <= Created[q]
    BY <1>1, <2>1, OldestOfList
  <2>5. Earliest(OldestOf(s), OldestOf(t)) =
          IF OldestOf(s) <= OldestOf(t) THEN OldestOf(s) ELSE OldestOf(t)
    <3>1. OldestOf(s) # NoTime /\ OldestOf(t) # NoTime
      BY <2>2, <2>3 DEF NoTime
    <3> QED
      BY <2>2, <2>3, <3>1, MinOfTwo DEF Earliest
  <2> DEFINE a == OldestOf(s)
             b == OldestOf(t)
             c == OldestOf(s \o t)
  <2>6. c <= a /\ c <= b /\ (a <= c \/ b <= c)
    <3> HIDE DEF a, b, c
    <3>1. \A q \in ToSet(s) \cup ToSet(t) : c <= Created[q]
      BY <1>1, <2>4 DEF c
    <3>2. \E q \in ToSet(s) \cup ToSet(t) : c = Created[q]
      BY <1>1, <2>4 DEF c
    <3> QED
      BY <2>2, <2>3, <3>1, <3>2 DEF a, b
  <2> QED
    BY <2>2, <2>3, <2>4, <2>5, <2>6
<1> QED
  BY <1>4, <1>5

\* Two halves, the newer one not full, answer for the whole window.
LEMMA BothIsAnswer ==
  ASSUME NEW view \in SUBSET PRs, NEW W \in [PRs -> Nat], NEW w \in Windows, w.limit > 0,
         NEW mid \in Int, w.from <= mid, mid <= w.to,
         NEW x, x.from = mid + 1, x.to = w.to, x.limit = w.limit,
         NEW recent, IsAnswer(recent, view, W, x), Len(recent.targets) < w.limit,
         NEW y, y.from = w.from, y.to = mid, y.limit = w.limit - Len(recent.targets),
         NEW older, IsAnswer(older, view, W, y)
  PROVE  IsAnswer(Both(recent, older), view, W, w)
<1> DEFINE r == Both(recent, older)
<1>1. w.from \in Int /\ w.to \in Int /\ w.limit \in Int
  BY DEF Windows
<1>2. /\ x.from = mid + 1 /\ x.to = w.to /\ x.limit = w.limit
      /\ y.from = w.from /\ y.to = mid /\ y.limit = w.limit - Len(recent.targets)
  OBVIOUS
<1>3. IsAnswer(recent, view, W, x) /\ IsAnswer(older, view, W, y)
  OBVIOUS
<1>4. recent.targets \in Seq(PRs) /\ older.targets \in Seq(PRs)
  BY <1>3 DEF IsAnswer
<1>5. Len(recent.targets) \in Nat /\ Len(older.targets) \in Nat
  BY <1>4, LenProperties
<1>6. /\ r.targets = recent.targets \o older.targets
      /\ r.oldest = Earliest(recent.oldest, older.oldest)
      /\ r.cut = recent.cut \cup older.cut
  BY DEF Both
<1> HIDE DEF r
<1>7. /\ r.targets \in Seq(PRs) /\ Len(r.targets) = Len(recent.targets) + Len(older.targets)
      /\ ToSet(r.targets) = ToSet(recent.targets) \cup ToSet(older.targets)
  BY <1>4, <1>6, ConcatHolds
<1>8. r.oldest = OldestOf(r.targets)
  BY <1>3, <1>4, <1>6, OldestOfBoth DEF IsAnswer
<1>9. \A p \in view : W[p] \in Nat
  OBVIOUS
<1>10. Within(view, W, w.from, w.to)
         = Within(view, W, x.from, x.to) \cup Within(view, W, y.from, y.to)
  BY <1>1, <1>2, <1>9 DEF Within
<1>11. ToSet(r.targets) \subseteq Within(view, W, w.from, w.to) /\ r.cut \subseteq view
  BY <1>3, <1>6, <1>7, <1>10 DEF IsAnswer
<1> DEFINE m == Len(recent.targets)
           n == Len(older.targets)
<1>16. m \in Nat /\ n \in Nat /\ m < w.limit /\ Len(r.targets) = m + n
       /\ y.limit = w.limit - m /\ y.limit > 0
  BY <1>1, <1>2, <1>5, <1>7
<1>17. n <= y.limit
  BY <1>3, <1>16 DEF IsAnswer
<1>18. n >= y.limit => Len(r.targets) >= w.limit
  <2> HIDE DEF m, n
  <2> QED
    BY <1>1, <1>16
<1>12. Len(r.targets) <= w.limit
  <2> HIDE DEF m, n
  <2> QED
    BY <1>1, <1>16, <1>17
<1> HIDE DEF m, n
<1>13. ASSUME NEW p \in Within(view, W, x.from, x.to)
       PROVE  p \in ToSet(r.targets) \cup r.cut
  BY <1>1, <1>2, <1>3, <1>5, <1>6, <1>7, <1>13 DEF IsAnswer
<1>14. ASSUME NEW p \in Within(view, W, y.from, y.to), p \notin ToSet(r.targets) \cup r.cut
       PROVE  Len(r.targets) >= w.limit /\ \A q \in ToSet(r.targets) : W[q] > W[p]
  <2>2. /\ n >= y.limit
        /\ \A q \in ToSet(older.targets) : W[q] > W[p]
    BY <1>3, <1>6, <1>7, <1>14, <1>16 DEF IsAnswer, n
  <2>3. Len(r.targets) >= w.limit
    BY <1>18, <2>2
  <2>4. \A q \in ToSet(recent.targets) : W[q] > W[p]
    <3> SUFFICES ASSUME NEW q \in ToSet(recent.targets) PROVE W[q] > W[p]
      OBVIOUS
    <3>1. q \in Within(view, W, x.from, x.to)
      BY <1>3 DEF IsAnswer
    <3> QED
      BY <1>1, <1>2, <1>9, <1>14, <3>1 DEF Within
  <2> QED
    BY <1>7, <2>2, <2>3, <2>4
<1>19. \A p \in Within(view, W, w.from, w.to) :
          \/ p \in ToSet(r.targets) \cup r.cut
          \/ Len(r.targets) >= w.limit /\ \A q \in ToSet(r.targets) : W[q] > W[p]
  BY <1>10, <1>13, <1>14
<1>15. IsAnswer(r, view, W, w)
  <2>1. ~(w.limit <= 0)
    BY <1>1
  <2>2. r.targets \in Seq(PRs)
    BY <1>7
  <2> QED
    BY Zenon, <2>1, <2>2, <1>8, <1>11, <1>12, <1>19 DEF IsAnswer
<1> QED
  BY <1>15 DEF r

----------------------------------------------------------------------------
(* Searching a window, split or not.                                     *)

\* A half of the window w.
Deeper(from, to, limit, w) ==
  [from |-> from, to |-> to, limit |-> limit, depth |-> w.depth + 1]

\* The three ways a window is searched.
LEMMA SearchCases ==
  ASSUME NEW view, NEW flaky, NEW qualifier, NEW f, NEW w \in Windows
  PROVE  LET items  == Matches(view, qualifier, w.from, w.to)
             mid    == w.from + (w.to - w.from) \div 2
             split  == shouldSplitAuthoredSearchWindow(Len(items), flaky, w)
             recent == f[Deeper(mid + 1, w.to, w.limit, w)]
             older  == f[Deeper(w.from, mid, w.limit - Len(recent.targets), w)]
             r      == SearchWindow(view, flaky, qualifier, f, w)
         IN /\ w.limit <= 0 \/ w.to < w.from => r = Nothing
            /\ w.limit > 0 /\ ~(w.to < w.from) /\ split /\ mid > w.from =>
                 r = IF Len(recent.targets) >= w.limit THEN recent ELSE Both(recent, older)
            /\ w.limit > 0 /\ ~(w.to < w.from) /\ ~(split /\ mid > w.from) =>
                 r = Page(items, w.limit, split)
<1>1. w.limit > 0 <=> ~(w.limit <= 0)
  BY DEF Windows
<1> QED
  BY Zenon, <1>1 DEF SearchWindow, Deeper

\* The halves of a window are windows one level deeper.
LEMMA HalvesAreWindows ==
  ASSUME NEW w \in Windows, NEW total, NEW flaky,
         shouldSplitAuthoredSearchWindow(total, flaky, w), NEW from \in Int, NEW to \in Int,
         NEW limit \in Int
  PROVE  /\ Deeper(from, to, limit, w) \in Windows
         /\ Deeper(from, to, limit, w).from = from /\ Deeper(from, to, limit, w).to = to
         /\ Deeper(from, to, limit, w).limit = limit
         /\ Deeper(from, to, limit, w).depth = w.depth + 1
<1>1. MaxDepth \in Nat
  BY HistoryAssumption
<1>2. w.depth \in 0 .. MaxDepth /\ w.depth < MaxDepth
  BY DEF Windows, shouldSplitAuthoredSearchWindow
<1>3. w.depth + 1 \in 0 .. MaxDepth
  BY <1>1, <1>2
<1> QED
  BY <1>3 DEF Windows, Deeper

\* The middle of a window lies inside.
LEMMA Midpoint ==
  ASSUME NEW w \in Windows
  PROVE  LET mid == w.from + (w.to - w.from) \div 2
         IN mid \in Int /\ (mid > w.from => mid <= w.to)
<1> DEFINE d == w.to - w.from
<1>1. w.from \in Int /\ d \in Int /\ w.to = w.from + d
  BY DEF Windows
<1> HIDE DEF d
<1>2. d \div 2 \in Int /\ (d \div 2 > 0 => d \div 2 <= d)
  BY <1>1
<1> QED
  BY <1>1, <1>2 DEF d

\* A window gives an answer when the windows one level deeper do.
LEMMA WindowIsAnswer ==
  ASSUME updated \in [PRs -> Nat], NEW view \in SUBSET PRs, NEW flaky, NEW qualifier,
         NEW f, NEW w \in Windows,
         \A v \in Windows : v.depth = w.depth + 1 => IsAnswer(f[v], view, Times(qualifier), v)
  PROVE  IsAnswer(SearchWindow(view, flaky, qualifier, f, w), view, Times(qualifier), w)
<1> DEFINE W == Times(qualifier)
           items == Matches(view, qualifier, w.from, w.to)
           mid == w.from + (w.to - w.from) \div 2
           split == shouldSplitAuthoredSearchWindow(Len(items), flaky, w)
           r == SearchWindow(view, flaky, qualifier, f, w)
           x == Deeper(mid + 1, w.to, w.limit, w)
           recent == f[x]
           room == w.limit - Len(recent.targets)
           y == Deeper(w.from, mid, room, w)
<1>1. /\ w.limit <= 0 \/ w.to < w.from => r = Nothing
      /\ w.limit > 0 /\ ~(w.to < w.from) /\ split /\ mid > w.from =>
           r = IF Len(recent.targets) >= w.limit THEN recent ELSE Both(recent, f[y])
      /\ w.limit > 0 /\ ~(w.to < w.from) /\ ~(split /\ mid > w.from) =>
           r = Page(items, w.limit, split)
  BY SearchCases
<1>2. W \in [PRs -> Nat]
  BY HistoryAssumption DEF Times, When
<1>3. w.from \in Int /\ w.to \in Int /\ w.limit \in Int
  BY DEF Windows
<1>4. items \in Seq(PRs) /\ ToSet(items) = Within(view, W, w.from, w.to)
  BY <1>3, MatchesAreListed
<1>5. mid \in Int /\ (mid > w.from => mid <= w.to)
  BY Midpoint
<1>6. split => /\ x \in Windows /\ x.from = mid + 1 /\ x.to = w.to /\ x.limit = w.limit
               /\ x.depth = w.depth + 1
  BY <1>3, <1>5, HalvesAreWindows
<1>7. split => IsAnswer(recent, view, W, x)
  BY <1>6
<1>8. split => recent.targets \in Seq(PRs) /\ Len(recent.targets) \in Nat
  BY <1>7, LenProperties DEF IsAnswer
<1>14. split => room \in Int
  BY <1>3, <1>8
<1> HIDE DEF room
<1>9. split => /\ y \in Windows /\ y.from = w.from /\ y.to = mid
               /\ y.limit = room /\ y.depth = w.depth + 1
  BY <1>3, <1>5, <1>14, HalvesAreWindows
<1>10. split => IsAnswer(f[y], view, W, y)
  BY <1>9
<1> HIDE DEF W, items, mid, split, r
<1>11. CASE w.limit <= 0 \/ w.to < w.from
  <2>1. \A p \in view : W[p] \in Nat
    BY <1>2
  <2>2. IsAnswer(Nothing, view, W, w)
    BY <1>11, <2>1, NothingIsAnswer
  <2> QED
    BY <1>1, <1>11, <2>2 DEF r, W
<1>12. CASE w.limit > 0 /\ ~(w.to < w.from) /\ ~(split /\ mid > w.from)
  <2>1. IsAnswer(Page(items, w.limit, split), view, W, w)
    BY <1>4, <1>12, PageIsAnswer
  <2> QED
    BY <1>1, <1>12, <2>1 DEF r, W
<1>13. CASE w.limit > 0 /\ ~(w.to < w.from) /\ split /\ mid > w.from
  <2>2. IsAnswer(recent, view, W, x) /\ IsAnswer(f[y], view, W, y)
    BY <1>7, <1>10, <1>13
  <2>3. CASE Len(recent.targets) >= w.limit
    <3> HIDE DEF x, y, recent
    <3>1. r = recent
      BY <1>1, <1>13, <2>3
    <3>2. Within(view, W, x.from, x.to) \subseteq Within(view, W, w.from, w.to)
      BY <1>2, <1>3, <1>5, <1>6, <1>13 DEF Within
    <3>3. ASSUME NEW p \in Within(view, W, w.from, w.to),
                 p \notin ToSet(recent.targets) \cup recent.cut
          PROVE  \A q \in ToSet(recent.targets) : W[q] > W[p]
      <4>1. CASE p \in Within(view, W, x.from, x.to)
        BY <1>3, <1>6, <1>13, <2>2, <3>3, <4>1 DEF IsAnswer
      <4>2. CASE p \notin Within(view, W, x.from, x.to)
        <5>1. p \in view /\ W[p] \in Nat /\ W[p] <= mid
          BY <1>2, <1>3, <1>5, <1>6, <1>13, <3>3, <4>2 DEF Within
        <5> SUFFICES ASSUME NEW q \in ToSet(recent.targets) PROVE W[q] > W[p]
          OBVIOUS
        <5>2. q \in Within(view, W, x.from, x.to)
          BY <2>2 DEF IsAnswer
        <5>3. W[q] \in Nat /\ W[q] >= mid + 1
          BY <1>2, <1>3, <1>5, <1>6, <1>13, <5>2 DEF Within
        <5> QED
          BY <1>5, <5>1, <5>3
      <4> QED
        BY <4>1, <4>2
    <3>4. /\ recent.targets \in Seq(PRs) /\ Len(recent.targets) <= w.limit
          /\ ToSet(recent.targets) \subseteq Within(view, W, w.from, w.to)
          /\ recent.oldest = OldestOf(recent.targets) /\ recent.cut \subseteq view
      BY <1>3, <1>6, <1>13, <2>2, <3>2 DEF IsAnswer
    <3>5. ~(w.limit <= 0)
      BY <1>3, <1>13
    <3>6. IsAnswer(recent, view, W, w)
      BY Zenon, <2>3, <3>3, <3>4, <3>5 DEF IsAnswer
    <3> QED
      BY <3>1, <3>6 DEF r, W
  <2>4. CASE ~(Len(recent.targets) >= w.limit)
    <3>1. r = Both(recent, f[y])
      BY <1>1, <1>13, <2>4
    <3>3. Len(recent.targets) < w.limit /\ w.from <= mid /\ mid <= w.to
      BY <1>3, <1>5, <1>8, <1>13, <2>4
    <3> DEFINE older == f[y]
    <3> HIDE DEF x, y, recent, older
    <3>4. IsAnswer(recent, view, W, x) /\ x.from = mid + 1 /\ x.to = w.to /\ x.limit = w.limit
      BY <1>6, <1>13, <2>2
    <3>5. IsAnswer(older, view, W, y) /\ y.from = w.from /\ y.to = mid
          /\ y.limit = w.limit - Len(recent.targets)
      BY <1>9, <1>13, <2>2 DEF older, room
    <3>6. IsAnswer(Both(recent, older), view, W, w)
      BY <1>2, <1>5, <1>13, <3>3, <3>4, <3>5, BothIsAnswer
    <3> QED
      BY <3>1, <3>6 DEF r, W, older
  <2> QED
    BY <2>3, <2>4
<1> QED
  BY <1>3, <1>11, <1>12, <1>13

\* A window depends on deeper ones only.
LEMMA WindowDependsOnDeeper ==
  ASSUME NEW view, NEW flaky, NEW qualifier, NEW f, NEW g, NEW w \in Windows,
         \A v \in Windows : v.depth = w.depth + 1 =>
            f[v] = g[v] /\ f[v].targets \in Seq(PRs)
  PROVE  SearchWindow(view, flaky, qualifier, f, w) = SearchWindow(view, flaky, qualifier, g, w)
<1> DEFINE items == Matches(view, qualifier, w.from, w.to)
           mid == w.from + (w.to - w.from) \div 2
           split == shouldSplitAuthoredSearchWindow(Len(items), flaky, w)
           x == Deeper(mid + 1, w.to, w.limit, w)
           room == w.limit - Len(f[x].targets)
           y == Deeper(w.from, mid, room, w)
           z == Deeper(w.from, mid, w.limit - Len(g[x].targets), w)
           r == SearchWindow(view, flaky, qualifier, f, w)
           s == SearchWindow(view, flaky, qualifier, g, w)
<1>1. /\ w.limit <= 0 \/ w.to < w.from => r = Nothing
      /\ w.limit > 0 /\ ~(w.to < w.from) /\ split /\ mid > w.from =>
           r = IF Len(f[x].targets) >= w.limit THEN f[x] ELSE Both(f[x], f[y])
      /\ w.limit > 0 /\ ~(w.to < w.from) /\ ~(split /\ mid > w.from) =>
           r = Page(items, w.limit, split)
  BY SearchCases
<1>2. /\ w.limit <= 0 \/ w.to < w.from => s = Nothing
      /\ w.limit > 0 /\ ~(w.to < w.from) /\ split /\ mid > w.from =>
           s = IF Len(g[x].targets) >= w.limit THEN g[x] ELSE Both(g[x], g[z])
      /\ w.limit > 0 /\ ~(w.to < w.from) /\ ~(split /\ mid > w.from) =>
           s = Page(items, w.limit, split)
  BY SearchCases
<1>3. w.from \in Int /\ w.to \in Int /\ w.limit \in Int /\ mid \in Int
  BY Midpoint DEF Windows
<1>4. split => x \in Windows /\ x.depth = w.depth + 1
  BY <1>3, HalvesAreWindows
<1>5. split => f[x] = g[x] /\ Len(f[x].targets) \in Nat
  BY <1>4, LenProperties
<1>8. split => y = z /\ room \in Int
  BY <1>3, <1>5
<1> HIDE DEF room
<1>9. split => y \in Windows /\ y.depth = w.depth + 1
  BY <1>3, <1>8, HalvesAreWindows
<1>6. split => f[y] = g[y]
  BY <1>9
<1>7. split => f[y] = g[z]
  BY <1>6, <1>8
<1> HIDE DEF items, mid, split, x, y, z, r, s
<1>10. r = s
  BY <1>1, <1>2, <1>3, <1>5, <1>7
<1> QED
  BY <1>10 DEF r, s

\* A search as a function of its window, for windows at least k levels deep.
SearchedFrom(k, f, view, flaky, qualifier) ==
  \A w \in Windows : w.depth + k > MaxDepth =>
     /\ f[w] = SearchWindow(view, flaky, qualifier, f, w)
     /\ IsAnswer(f[w], view, Times(qualifier), w)

\* The recursion over windows defines a function, as it ends at MaxDepth.
LEMMA SearchExists ==
  ASSUME updated \in [PRs -> Nat], NEW view \in SUBSET PRs, NEW flaky, NEW qualifier
  PROVE  \E f : /\ f = [w \in Windows |-> SearchWindow(view, flaky, qualifier, f, w)]
<1> DEFINE K == {k \in Nat : \E f : /\ f = [w \in Windows |-> f[w]]
                                    /\ SearchedFrom(k, f, view, flaky, qualifier)}
<1>0. \A w \in Windows : w.depth \in 0 .. MaxDepth /\ MaxDepth \in Nat
  BY HistoryAssumption DEF Windows
<1>1. 0 \in K
  <2> DEFINE f == [w \in Windows |-> Nothing]
  <2>1. f = [w \in Windows |-> f[w]]
    OBVIOUS
  <2>2. SearchedFrom(0, f, view, flaky, qualifier)
    BY <1>0 DEF SearchedFrom
  <2> HIDE DEF f
  <2> QED
    BY <2>1, <2>2
<1>2. ASSUME NEW k \in Nat, k \in K PROVE k + 1 \in K
  <2>1. PICK f : f = [w \in Windows |-> f[w]] /\ SearchedFrom(k, f, view, flaky, qualifier)
    BY <1>2
  <2> DEFINE g == [w \in Windows |->
                     IF w.depth + k = MaxDepth THEN SearchWindow(view, flaky, qualifier, f, w)
                     ELSE f[w]]
  <2>2. g = [w \in Windows |-> g[w]]
    OBVIOUS
  <2>3. \A w \in Windows : w.depth + k > MaxDepth =>
           /\ g[w] = f[w] /\ IsAnswer(f[w], view, Times(qualifier), w)
           /\ f[w] = SearchWindow(view, flaky, qualifier, f, w)
    BY <1>0, <2>1 DEF SearchedFrom
  <2>4. \A w \in Windows : w.depth + k = MaxDepth =>
           g[w] = SearchWindow(view, flaky, qualifier, f, w)
    OBVIOUS
  <2> HIDE DEF g
  <2>5. ASSUME NEW w \in Windows, w.depth + (k + 1) > MaxDepth
        PROVE  /\ g[w] = SearchWindow(view, flaky, qualifier, g, w)
               /\ IsAnswer(g[w], view, Times(qualifier), w)
    <3>1. g[w] = SearchWindow(view, flaky, qualifier, f, w)
      <4>1. w.depth + k > MaxDepth \/ w.depth + k = MaxDepth
        BY <1>0, <2>5
      <4> QED
        BY <2>3, <2>4, <4>1
    <3>2. \A v \in Windows : v.depth = w.depth + 1 => v.depth + k > MaxDepth
      BY <1>0, <2>5
    <3>3. \A v \in Windows : v.depth = w.depth + 1 =>
             f[v] = g[v] /\ IsAnswer(f[v], view, Times(qualifier), v)
      BY <2>3, <3>2
    <3>4. \A v \in Windows : v.depth = w.depth + 1 => f[v] = g[v] /\ f[v].targets \in Seq(PRs)
      BY <3>3 DEF IsAnswer
    <3>5. SearchWindow(view, flaky, qualifier, f, w) = SearchWindow(view, flaky, qualifier, g, w)
      BY <3>4, WindowDependsOnDeeper
    <3>6. \A v \in Windows : v.depth = w.depth + 1 => IsAnswer(f[v], view, Times(qualifier), v)
      BY <3>3
    <3>7. IsAnswer(SearchWindow(view, flaky, qualifier, f, w), view, Times(qualifier), w)
      BY <3>6, WindowIsAnswer
    <3> QED
      BY <3>1, <3>5, <3>7
  <2> QED
    BY <2>2, <2>5 DEF SearchedFrom
<1> HIDE DEF K
<1>3. MaxDepth + 1 \in Nat
  BY HistoryAssumption
<1>4. MaxDepth + 1 \in K
  BY <1>1, <1>2, <1>3, NatsAreReached
<1>5. PICK f : f = [w \in Windows |-> f[w]] /\ SearchedFrom(MaxDepth + 1, f, view, flaky, qualifier)
  BY <1>4 DEF K
<1>6. \A w \in Windows : f[w] = SearchWindow(view, flaky, qualifier, f, w)
  <2>1. \A w \in Windows : w.depth + (MaxDepth + 1) > MaxDepth
    BY <1>0
  <2> QED
    BY <1>5, <2>1 DEF SearchedFrom
<1>7. f = [w \in Windows |-> SearchWindow(view, flaky, qualifier, f, w)]
  BY <1>5, <1>6
<1> QED
  BY <1>7

\* A search is what its window gives, its halves searched the same way.
LEMMA SearchUnfolds ==
  ASSUME updated \in [PRs -> Nat], NEW view \in SUBSET PRs, NEW flaky, NEW qualifier,
         NEW w \in Windows
  PROVE  Searches(view, flaky, qualifier)[w]
           = SearchWindow(view, flaky, qualifier, Searches(view, flaky, qualifier), w)
<1> DEFINE p(f) == f = [v \in Windows |-> SearchWindow(view, flaky, qualifier, f, v)]
<1> DEFINE s == Searches(view, flaky, qualifier)
<1>1. s = CHOOSE f : p(f)
  BY Zenon DEF Searches
<1>2. \E f : p(f)
  BY SearchExists
<1> HIDE DEF p, s
<1>3. p(s)
  BY Zenon, <1>1, <1>2
<1>4. s = [v \in Windows |-> SearchWindow(view, flaky, qualifier, s, v)]
  BY <1>3 DEF p
<1>5. s[w] = SearchWindow(view, flaky, qualifier, s, w)
  BY <1>4
<1> QED
  BY <1>5 DEF s

\* Every search, however it splits its window, gives an answer.
LEMMA SearchIsAnswer ==
  ASSUME updated \in [PRs -> Nat], NEW view \in SUBSET PRs, NEW flaky, NEW qualifier,
         NEW w \in Windows
  PROVE  IsAnswer(Searches(view, flaky, qualifier)[w], view, Times(qualifier), w)
<1> DEFINE s == Searches(view, flaky, qualifier)
<1> DEFINE K == {k \in Nat : \A v \in Windows :
                    v.depth + k > MaxDepth => IsAnswer(s[v], view, Times(qualifier), v)}
<1>0. \A v \in Windows : v.depth \in 0 .. MaxDepth /\ MaxDepth \in Nat
  BY HistoryAssumption DEF Windows
<1>1. 0 \in K
  BY <1>0
<1>2. ASSUME NEW k \in Nat, k \in K PROVE k + 1 \in K
  <2> SUFFICES ASSUME NEW v \in Windows, v.depth + (k + 1) > MaxDepth
               PROVE  IsAnswer(s[v], view, Times(qualifier), v)
    OBVIOUS
  <2>1. \A u \in Windows : u.depth = v.depth + 1 => u.depth + k > MaxDepth
    BY <1>0
  <2>2. \A u \in Windows : u.depth = v.depth + 1 => IsAnswer(s[u], view, Times(qualifier), u)
    BY <1>2, <2>1
  <2> HIDE DEF s
  <2>3. IsAnswer(SearchWindow(view, flaky, qualifier, s, v), view, Times(qualifier), v)
    BY <2>2, WindowIsAnswer
  <2>4. s[v] = SearchWindow(view, flaky, qualifier, s, v)
    BY SearchUnfolds DEF s
  <2> QED
    BY <2>3, <2>4
<1> HIDE DEF K
<1>3. MaxDepth + 1 \in Nat
  BY HistoryAssumption
<1>4. MaxDepth + 1 \in K
  BY <1>1, <1>2, <1>3, NatsAreReached
<1>5. w.depth + (MaxDepth + 1) > MaxDepth
  BY <1>0
<1> QED
  BY <1>4, <1>5 DEF K

\* What discoverAuthoredPullRequestTargetsInWindow returns.
Found(r, view, W, from, to, limit) ==
  IsAnswer(r, view, W, [from |-> from, to |-> to, limit |-> limit, depth |-> 0])

\* discoverAuthoredPullRequestTargetsInWindow, in any window, to any limit.
LEMMA DiscoveryFinds ==
  ASSUME updated \in [PRs -> Nat], NEW view \in SUBSET PRs, NEW flaky, NEW qualifier,
         NEW from \in Int, NEW to \in Int, NEW limit \in Int
  PROVE  Found(discoverAuthoredPullRequestTargetsInWindow(view, flaky, qualifier, from, to, limit),
               view, Times(qualifier), from, to, limit)
<1> DEFINE w == [from |-> from, to |-> to, limit |-> limit, depth |-> 0]
<1>1. w \in Windows
  BY HistoryAssumption DEF Windows
<1> HIDE DEF w
<1>2. IsAnswer(Searches(view, flaky, qualifier)[w], view, Times(qualifier), w)
  BY <1>1, SearchIsAnswer
<1> QED
  BY <1>2 DEF discoverAuthoredPullRequestTargetsInWindow, Found, w

----------------------------------------------------------------------------
(* Merging what was found.                                               *)

\* The limits are positive.
LEMMA LimitsArePositive ==
  /\ maxTargets \in Nat /\ maxTargets > 0
  /\ recentSeedLimit \in Int
  /\ \A cur : incrementalTargetLimit(cur) \in Nat /\ incrementalTargetLimit(cur) > 0
  /\ Max({SyncLimit, maxTargets \div 3}) \in Nat /\ Max({SyncLimit, maxTargets \div 3}) > 0
<1>1. /\ SyncLimit \in Nat /\ SyncLimit > 0 /\ SearchLimit \in Nat /\ SearchLimit > 0
      /\ MinTargets \in Nat /\ MinTargets > 0 /\ MinSeed \in Nat
  BY HistoryAssumption
<1> DEFINE m == Max({MinTargets, 6 * SyncLimit})
<1>2. m \in Nat /\ m > 0
  BY <1>1, MaxOfTwo
<1> HIDE DEF m
<1>3. maxTargets \in Nat /\ maxTargets > 0
  BY <1>1, <1>2, MinOfTwo DEF maxTargets, m
<1> DEFINE n == Max({2 * SyncLimit, MinSeed})
<1>4. n \in Nat
  BY <1>1, MaxOfTwo
<1> HIDE DEF n
<1>5. recentSeedLimit \in Int
  BY <1>3, <1>4, MinOfTwo DEF recentSeedLimit, n
<1> DEFINE h == Max({2 * SyncLimit, maxTargets \div 2})
<1>6. h \in Nat /\ h > 0
  <2>1. maxTargets \div 2 \in Int
    BY <1>3
  <2> QED
    BY <1>1, <2>1, MaxOfTwo
<1> HIDE DEF h
<1>7. maxTargets > 1 => Min({h, maxTargets - 1}) \in Nat /\ Min({h, maxTargets - 1}) > 0
  <2>1. maxTargets - 1 \in Int
    BY <1>3
  <2> QED
    BY <1>3, <1>6, <2>1, MinOfTwo
<1>8. \A cur : incrementalTargetLimit(cur) \in Nat /\ incrementalTargetLimit(cur) > 0
  BY <1>3, <1>7 DEF incrementalTargetLimit, h
<1>9. Max({SyncLimit, maxTargets \div 3}) \in Nat /\ Max({SyncLimit, maxTargets \div 3}) > 0
  <2>1. maxTargets \div 3 \in Int
    BY <1>3
  <2> QED
    BY <1>1, <2>1, MaxOfTwo
<1> QED
  BY <1>3, <1>5, <1>8, <1>9

\* One more target, unless it is there or there is no room.
LEMMA AppendUniqueAdds ==
  ASSUME NEW t \in Seq(PRs), Len(t) <= maxTargets, NEW p \in PRs
  PROVE  LET r == AppendUnique(t, p)
         IN /\ r \in Seq(PRs) /\ Len(r) <= maxTargets /\ Len(r) <= Len(t) + 1 /\ Len(r) >= Len(t)
            /\ ToSet(t) \subseteq ToSet(r) /\ ToSet(r) \subseteq ToSet(t) \cup {p}
            /\ Len(t) < maxTargets => p \in ToSet(r)
            /\ r = <<>> => t = <<>>
<1> DEFINE r == AppendUnique(t, p)
<1>1. maxTargets \in Nat /\ Len(t) \in Nat
  BY LimitsArePositive, LenProperties
<1>2. CASE Len(t) >= maxTargets \/ p \in ToSet(t)
  BY <1>1, <1>2 DEF AppendUnique
<1>3. CASE ~(Len(t) >= maxTargets \/ p \in ToSet(t))
  <2>1. r = Append(t, p)
    BY <1>3 DEF AppendUnique
  <2>2. /\ Append(t, p) \in Seq(PRs) /\ Len(Append(t, p)) = Len(t) + 1
        /\ \A i \in 1 .. Len(t) : Append(t, p)[i] = t[i]
        /\ Append(t, p)[Len(t) + 1] = p
    BY AppendProperties
  <2> HIDE DEF r
  <2>3. DOMAIN r = 1 .. Len(t) + 1 /\ DOMAIN t = 1 .. Len(t)
    BY <2>1, <2>2, LenProperties
  <2>4. ToSet(r) = ToSet(t) \cup {p}
    BY <1>1, <2>1, <2>2, <2>3 DEF ToSet
  <2>5. Len(r) = Len(t) + 1 /\ r # <<>>
    BY <1>1, <2>1, <2>2, EmptySeq
  <2> QED
    BY <1>1, <1>3, <2>1, <2>2, <2>4, <2>5 DEF r
<1> QED
  BY <1>2, <1>3

\* The merge, target by target.
LEMMA AppendUniqueUnfolds ==
  ASSUME NEW base \in Seq(PRs), NEW next \in Seq(PRs), Len(base) <= maxTargets
  PROVE  \E m : /\ m = [i \in 0 .. Len(next) |->
                          IF i = 0 THEN base ELSE AppendUnique(m[i - 1], next[i])]
                /\ appendUniqueAuthoredPullRequestTargets(base, next) = m[Len(next)]
<1> DEFINE n == Len(next)
<1> DEFINE S == {t \in Seq(PRs) : Len(t) <= maxTargets}
<1> DEFINE R == [x \in Nat \X S |-> IF x[1] \in 1 .. n THEN AppendUnique(x[2], next[x[1]]) ELSE x[2]]
<1>1. n \in Nat /\ \A i \in 1 .. n : next[i] \in PRs
  BY LenProperties, ElementOfSeq
<1>2. R \in [Nat \X S -> S]
  BY <1>1, AppendUniqueAdds
<1>3. base \in S
  OBVIOUS
<1>4. \A i \in 1 .. n, t \in S : R[<<i, t>>] = AppendUnique(t, next[i])
  BY <1>1
<1> HIDE DEF S, R, n
<1>11. \E f \in [0 .. n -> S] : Stages(f, base, R, n)
  BY <1>1, <1>2, <1>3, StagesExist
<1>5. PICK f \in [0 .. n -> S] : f[0] = base /\ \A i \in 1 .. n : f[i] = R[<<i, f[i - 1]>>]
  BY <1>11 DEF Stages
<1>6. \A i \in 1 .. n : f[i] = AppendUnique(f[i - 1], next[i])
  <2> TAKE i \in 1 .. n
  <2>1. i - 1 \in 0 .. n
    BY <1>1
  <2>2. f[i - 1] \in S
    BY <2>1
  <2> QED
    BY <1>4, <1>5, <2>2
<1>7. f = [i \in 0 .. n |-> IF i = 0 THEN base ELSE AppendUnique(f[i - 1], next[i])]
  <2>1. \A i \in 0 .. n : i = 0 \/ i \in 1 .. n
    BY <1>1
  <2> QED
    BY <1>5, <1>6, <2>1
<1> DEFINE p(m) == m = [i \in 0 .. Len(next) |->
                          IF i = 0 THEN base ELSE AppendUnique(m[i - 1], next[i])]
<1> DEFINE c == CHOOSE m : p(m)
<1>8. appendUniqueAuthoredPullRequestTargets(base, next) = c[Len(next)]
  BY Zenon DEF appendUniqueAuthoredPullRequestTargets
<1>9. p(f)
  BY <1>7 DEF n
<1> HIDE DEF p
<1>10. p(c)
  BY Zenon, <1>9
<1> QED
  BY <1>8, <1>10 DEF p

\* The merge keeps what there was and, when there is room, adds what is new.
LEMMA MergeHolds ==
  ASSUME NEW base \in Seq(PRs), NEW next \in Seq(PRs), Len(base) <= maxTargets
  PROVE  LET r == appendUniqueAuthoredPullRequestTargets(base, next)
         IN /\ r \in Seq(PRs) /\ Len(r) <= maxTargets
            /\ ToSet(r) \subseteq ToSet(base) \cup ToSet(next)
            /\ ToSet(base) \subseteq ToSet(r)
            /\ Len(base) + Len(next) <= maxTargets => ToSet(next) \subseteq ToSet(r)
<1> DEFINE n == Len(next)
<1>1. PICK m : /\ m = [i \in 0 .. n |-> IF i = 0 THEN base ELSE AppendUnique(m[i - 1], next[i])]
               /\ appendUniqueAuthoredPullRequestTargets(base, next) = m[n]
  BY AppendUniqueUnfolds
<1>2. n \in Nat /\ Len(base) \in Nat /\ \A i \in 1 .. n : next[i] \in PRs
  BY LenProperties, ElementOfSeq
<1>3. DOMAIN next = 1 .. n
  BY LenProperties
<1> HIDE DEF n
<1>4. m[0] = base /\ \A i \in 1 .. n : m[i] = AppendUnique(m[i - 1], next[i])
  BY <1>1, <1>2
<1> DEFINE ok(i) ==
      /\ m[i] \in Seq(PRs) /\ Len(m[i]) <= maxTargets /\ Len(m[i]) <= Len(base) + i
      /\ ToSet(base) \subseteq ToSet(m[i])
      /\ ToSet(m[i]) \subseteq ToSet(base) \cup ToSet(next)
      /\ Len(base) + n <= maxTargets => \A k \in 1 .. i : next[k] \in ToSet(m[i])
<1> DEFINE K == {i \in Nat : i <= n => ok(i)}
<1>5. 0 \in K
  BY <1>2, <1>4
<1>6. ASSUME NEW i \in Nat, i \in K PROVE i + 1 \in K
  <2> SUFFICES ASSUME i + 1 <= n PROVE ok(i + 1)
    OBVIOUS
  <2>1. ok(i) /\ i + 1 \in 1 .. n /\ next[i + 1] \in PRs
    BY <1>2, <1>6
  <2> DEFINE t == m[i]
             p == next[i + 1]
             r == AppendUnique(t, p)
  <2>2. m[i + 1] = r
    <3>1. (i + 1) - 1 = i
      OBVIOUS
    <3> QED
      BY <1>4, <2>1, <3>1
  <2>3. /\ t \in Seq(PRs) /\ Len(t) <= maxTargets /\ Len(t) <= Len(base) + i /\ Len(t) \in Nat
        /\ ToSet(base) \subseteq ToSet(t) /\ ToSet(t) \subseteq ToSet(base) \cup ToSet(next)
        /\ Len(base) + n <= maxTargets => \A k \in 1 .. i : next[k] \in ToSet(t)
    BY <2>1, LenProperties
  <2>4. p \in PRs /\ p \in ToSet(next)
    BY <1>3, <2>1 DEF ToSet
  <2> HIDE DEF K, ok, t, p
  <2>5. /\ r \in Seq(PRs) /\ Len(r) <= maxTargets /\ Len(r) <= Len(t) + 1
        /\ ToSet(t) \subseteq ToSet(r) /\ ToSet(r) \subseteq ToSet(t) \cup {p}
        /\ Len(t) < maxTargets => p \in ToSet(r)
    BY <2>3, <2>4, AppendUniqueAdds
  <2> HIDE DEF r
  <2>6. Len(r) \in Nat
    BY <2>5, LenProperties
  <2>7. Len(r) <= Len(base) + (i + 1)
    BY <1>2, <2>3, <2>5, <2>6
  <2>8. maxTargets \in Nat
    BY LimitsArePositive
  <2>9. Len(base) + n <= maxTargets => Len(t) < maxTargets
    BY <1>2, <2>1, <2>3, <2>8
  <2>10. Len(base) + n <= maxTargets => \A k \in 1 .. (i + 1) : next[k] \in ToSet(r)
    <3> SUFFICES ASSUME Len(base) + n <= maxTargets, NEW k \in 1 .. (i + 1)
                 PROVE  next[k] \in ToSet(r)
      OBVIOUS
    <3>1. CASE k = i + 1
      BY <2>5, <2>9, <3>1 DEF p
    <3>2. CASE k # i + 1
      <4>1. k \in 1 .. i
        BY <3>2
      <4> QED
        BY <2>3, <2>5, <4>1
    <3> QED
      BY <3>1, <3>2
  <2>11. ToSet(r) \subseteq ToSet(base) \cup ToSet(next) /\ ToSet(base) \subseteq ToSet(r)
    BY <2>3, <2>4, <2>5
  <2> QED
    BY <2>2, <2>5, <2>7, <2>10, <2>11 DEF ok
<1> HIDE DEF K, ok
<1>7. n \in K
  BY <1>2, <1>5, <1>6, NatsAreReached
<1>8. ok(n)
  BY <1>2, <1>7 DEF K
<1>9. Len(base) + n <= maxTargets => ToSet(next) \subseteq ToSet(m[n])
  BY <1>3, <1>8 DEF ok, ToSet
<1> QED
  BY <1>1, <1>8, <1>9 DEF ok, n

\* A selection so far: at most maxTargets, all in view, and the time of the
\* oldest search result known as soon as there is one.
IsSelection(sel, view) ==
  /\ sel.targets \in Seq(PRs) /\ Len(sel.targets) <= maxTargets
  /\ sel.cut \subseteq view
  /\ sel.oldest \in Nat \cup {NoTime}
  /\ (sel.oldest = NoTime <=> sel.targets = <<>>)

\* What a selection holds or records as left out.
Reached(sel) == ToSet(sel.targets) \cup sel.cut

\* Only the empty list holds nothing.
LEMMA EmptyList == \A t \in Seq(PRs) : t = <<>> <=> ToSet(t) = {}
<1> SUFFICES ASSUME NEW t \in Seq(PRs) PROVE t = <<>> <=> ToSet(t) = {}
  OBVIOUS
<1>1. DOMAIN t = 1 .. Len(t) /\ Len(t) \in Nat
  BY LenProperties
<1>2. t # <<>> => 1 \in DOMAIN t
  BY <1>1, EmptySeq
<1>3. t = <<>> => ToSet(t) = {}
  BY DEF ToSet
<1> QED
  BY <1>2, <1>3 DEF ToSet

\* The selection begins empty.
LEMMA NothingIsSelection ==
  ASSUME NEW view PROVE IsSelection(Nothing, view)
<1>1. <<>> \in Seq(PRs) /\ Len(<<>>) = 0 /\ maxTargets \in Nat
  BY LimitsArePositive
<1> QED
  BY <1>1 DEF IsSelection, Nothing

\* What a further search needs to know of an answer.
IsResult(r, view, limit) ==
  /\ r.targets \in Seq(PRs) /\ Len(r.targets) \in Nat
  /\ (limit <= 0 => r.targets = <<>>)
  /\ (limit > 0 => Len(r.targets) <= limit)
  /\ r.cut \subseteq view
  /\ r.oldest \in Nat \cup {NoTime}
  /\ (r.oldest = NoTime <=> r.targets = <<>>)
  /\ (r.oldest # NoTime => \E q \in ToSet(r.targets) : Created[q] = r.oldest)

\* Every answer is a result, from inside its window.
LEMMA FoundIsTyped ==
  ASSUME NEW view \in SUBSET PRs, NEW W, NEW from, NEW to, NEW limit, NEW r,
         Found(r, view, W, from, to, limit)
  PROVE  /\ IsResult(r, view, limit)
         /\ ToSet(r.targets) \subseteq Within(view, W, from, to)
<1> DEFINE w == [from |-> from, to |-> to, limit |-> limit, depth |-> 0]
<1>1. w.from = from /\ w.to = to /\ w.limit = limit
  OBVIOUS
<1>2. IsAnswer(r, view, W, w)
  BY DEF Found
<1> HIDE DEF w
<1>3. /\ r.targets \in Seq(PRs) /\ ToSet(r.targets) \subseteq Within(view, W, from, to)
      /\ limit <= 0 => r.targets = <<>>
      /\ limit > 0 => Len(r.targets) <= limit
      /\ r.oldest = OldestOf(r.targets) /\ r.cut \subseteq view
  BY Zenon, <1>1, <1>2 DEF IsAnswer
<1>4. /\ r.targets = <<>> => OldestOf(r.targets) = NoTime
      /\ r.targets # <<>> => /\ OldestOf(r.targets) \in Nat
                             /\ \E q \in ToSet(r.targets) : Created[q] = OldestOf(r.targets)
  BY <1>3, OldestOfList
<1>5. NoTime \notin Nat
  BY DEF NoTime
<1> QED
  BY <1>3, <1>4, <1>5, LenProperties DEF IsResult

\* A search by time of creation leaves nothing behind that is not older than
\* what it found.
LEMMA FoundCovers ==
  ASSUME NEW view \in SUBSET PRs, NEW from \in Int, NEW to \in Int, NEW limit \in Int, NEW r,
         Found(r, view, Created, from, to, limit), limit > 0,
         NEW p \in view, Created[p] \in from .. to,
         r.oldest = NoTime \/ Created[p] >= r.oldest
  PROVE  /\ p \in ToSet(r.targets) \cup r.cut
         /\ Created[p] >= r.oldest
<1>1. Created[p] \in Nat
  BY HistoryAssumption
<1>2. Created[p] >= r.oldest
  BY <1>1 DEF NoTime
<1> DEFINE w == [from |-> from, to |-> to, limit |-> limit, depth |-> 0]
<1>3. w.from = from /\ w.to = to /\ w.limit = limit
  OBVIOUS
<1>4. IsAnswer(r, view, Created, w)
  BY DEF Found
<1> HIDE DEF w
<1>5. p \in Within(view, Created, from, to)
  BY DEF Within
<1>6. \/ p \in ToSet(r.targets) \cup r.cut
      \/ Len(r.targets) >= limit /\ \A q \in ToSet(r.targets) : Created[q] > Created[p]
  BY Zenon, <1>3, <1>4, <1>5 DEF IsAnswer
<1>7. ASSUME Len(r.targets) >= limit, \A q \in ToSet(r.targets) : Created[q] > Created[p]
      PROVE  FALSE
  <2>0. IsResult(r, view, limit)
    BY FoundIsTyped
  <2>1. /\ r.targets \in Seq(PRs) /\ (r.oldest = NoTime <=> r.targets = <<>>)
        /\ r.oldest \in Nat \cup {NoTime}
        /\ (r.oldest # NoTime => \E q \in ToSet(r.targets) : Created[q] = r.oldest)
    BY <2>0 DEF IsResult
  <2>2. r.targets # <<>>
    <3>1. r.targets = <<>> => Len(r.targets) = 0
      BY EmptySeq
    <3> QED
      BY <1>7, <3>1
  <2>3. PICK q \in ToSet(r.targets) : Created[q] = r.oldest
    BY <2>1, <2>2
  <2>4. r.oldest \in Nat /\ r.oldest # NoTime
    BY <2>1, <2>2
  <2> QED
    BY <1>1, <1>2, <1>7, <2>3, <2>4
<1> QED
  BY <1>2, <1>6, <1>7

\* A further search adds what it finds.
LEMMA ExtendAdds ==
  ASSUME NEW view \in SUBSET PRs, NEW limit \in Int, NEW r,
         IsResult(r, view, limit),
         NEW sel, IsSelection(sel, view), limit <= Room(sel)
  PROVE  /\ IsSelection(Extend(sel, r), view)
         /\ Extend(sel, r).oldest = Earliest(sel.oldest, r.oldest)
         /\ Reached(sel) \subseteq Reached(Extend(sel, r))
         /\ ToSet(sel.targets) \cup ToSet(r.targets) \subseteq ToSet(Extend(sel, r).targets)
         /\ {p \in r.cut : Created[p] >= r.oldest} \subseteq Extend(sel, r).cut
<1> DEFINE e == Extend(sel, r)
           t == appendUniqueAuthoredPullRequestTargets(sel.targets, r.targets)
<1>1. /\ e.targets = t /\ e.oldest = Earliest(sel.oldest, r.oldest)
      /\ e.cut = sel.cut \cup {p \in r.cut : Created[p] >= r.oldest}
  BY DEF Extend
<1>2. /\ r.targets \in Seq(PRs) /\ Len(r.targets) \in Nat
      /\ (limit <= 0 => r.targets = <<>>)
      /\ (limit > 0 => Len(r.targets) <= limit)
      /\ r.cut \subseteq view /\ r.oldest \in Nat \cup {NoTime}
      /\ (r.oldest = NoTime <=> r.targets = <<>>)
  BY DEF IsResult
<1>3. /\ sel.targets \in Seq(PRs) /\ Len(sel.targets) <= maxTargets
      /\ sel.cut \subseteq view /\ sel.oldest \in Nat \cup {NoTime}
      /\ (sel.oldest = NoTime <=> sel.targets = <<>>)
  BY DEF IsSelection
<1>4. Len(sel.targets) \in Nat /\ maxTargets \in Nat
  BY <1>3, LenProperties, LimitsArePositive
<1>5. Len(sel.targets) + Len(r.targets) <= maxTargets
  <2>1. limit <= maxTargets - Len(sel.targets)
    BY DEF Room
  <2>2. limit <= 0 => Len(r.targets) = 0
    BY <1>2, EmptySeq
  <2> DEFINE m == Len(r.targets)
             n == Len(sel.targets)
  <2>3. m \in Nat /\ n \in Nat /\ n <= maxTargets /\ (limit <= 0 => m = 0)
        /\ (limit > 0 => m <= limit) /\ limit <= maxTargets - n
    BY <1>2, <1>3, <1>4, <2>1, <2>2
  <2> HIDE DEF m, n
  <2>4. n + m <= maxTargets
    BY <1>4, <2>3
  <2> QED
    BY <2>4 DEF m, n
<1>6. /\ t \in Seq(PRs) /\ Len(t) <= maxTargets
      /\ ToSet(t) \subseteq ToSet(sel.targets) \cup ToSet(r.targets)
      /\ ToSet(sel.targets) \subseteq ToSet(t) /\ ToSet(r.targets) \subseteq ToSet(t)
  BY <1>2, <1>3, <1>5, MergeHolds
<1>7. t = <<>> <=> sel.targets = <<>> /\ r.targets = <<>>
  BY <1>2, <1>3, <1>6, EmptyList
<1> HIDE DEF e, t
<1>8. e.oldest \in Nat \cup {NoTime} /\ (e.oldest = NoTime <=> e.targets = <<>>)
  <2>1. CASE sel.oldest = NoTime \/ r.oldest = NoTime
    BY <1>1, <1>2, <1>3, <1>7, <2>1 DEF Earliest
  <2>2. CASE sel.oldest # NoTime /\ r.oldest # NoTime
    <3>1. sel.oldest \in Nat /\ r.oldest \in Nat
      BY <1>2, <1>3, <2>2
    <3>2. e.oldest \in Nat
      <4>1. Min({sel.oldest, r.oldest}) \in {sel.oldest, r.oldest}
        BY <3>1, MinOfTwo
      <4>2. Earliest(sel.oldest, r.oldest) = Min({sel.oldest, r.oldest})
        BY <2>2 DEF Earliest
      <4> QED
        BY <1>1, <3>1, <4>1, <4>2
    <3> QED
      BY <1>1, <1>2, <1>3, <1>7, <2>2, <3>2 DEF NoTime
  <2> QED
    BY <2>1, <2>2
<1>9. IsSelection(e, view)
  BY <1>1, <1>2, <1>3, <1>6, <1>8 DEF IsSelection
<1>10. Reached(sel) \subseteq Reached(e)
  BY <1>1, <1>6 DEF Reached
<1> QED
  BY <1>1, <1>6, <1>9, <1>10 DEF e

----------------------------------------------------------------------------
(* The backfill.                                                         *)

\* The times the two qualifiers of a query look at.
LEMMA TimesOfQualifiers ==
  /\ Times("created") = Created
  /\ updated \in [PRs -> Nat] => Times("updated") = updated
<1>1. Created \in [PRs -> Nat]
  BY HistoryAssumption
<1> QED
  BY <1>1 DEF Times, When

\* A search by time of creation, added to a selection: all of its window that
\* is not older than what it found is reached, and it found something inside.
LEMMA ExtendReaches ==
  ASSUME NEW view \in SUBSET PRs, NEW from \in Int, NEW to \in Int, NEW limit \in Int, NEW r,
         Found(r, view, Created, from, to, limit), limit > 0,
         NEW sel, IsSelection(sel, view), limit <= Room(sel)
  PROVE  /\ \A p \in view : /\ Created[p] \in from .. to
                            /\ r.oldest = NoTime \/ Created[p] >= r.oldest
                            => p \in Reached(Extend(sel, r))
         /\ r.oldest # NoTime => r.oldest \in Nat /\ r.oldest \in from .. to
<1>1. IsResult(r, view, limit) /\ ToSet(r.targets) \subseteq Within(view, Created, from, to)
  BY FoundIsTyped
<1>2. /\ ToSet(r.targets) \subseteq ToSet(Extend(sel, r).targets)
      /\ {p \in r.cut : Created[p] >= r.oldest} \subseteq Extend(sel, r).cut
  BY <1>1, ExtendAdds
<1>3. ASSUME NEW p \in view, Created[p] \in from .. to,
             r.oldest = NoTime \/ Created[p] >= r.oldest
      PROVE  p \in Reached(Extend(sel, r))
  <2>1. p \in ToSet(r.targets) \cup r.cut /\ Created[p] >= r.oldest
    BY <1>3, FoundCovers
  <2> QED
    BY <1>2, <2>1 DEF Reached
<1>4. ASSUME r.oldest # NoTime
      PROVE  r.oldest \in Nat /\ r.oldest \in from .. to
  <2>1. r.oldest \in Nat /\ \E q \in ToSet(r.targets) : Created[q] = r.oldest
    BY <1>1, <1>4 DEF IsResult
  <2>2. PICK q \in ToSet(r.targets) : Created[q] = r.oldest
    BY <2>1
  <2>3. Created[q] \in from .. to
    BY <1>1 DEF Within
  <2> QED
    BY <2>1, <2>2, <2>3
<1> QED
  BY <1>3, <1>4

\* The loop over backfill windows, from the selection sel and the boundary
\* before: what it passes is reached, and it passes something or has no room.
IsBackfill(s, view, sel, before, complete) ==
  /\ s = [sel |-> s.sel, before |-> s.before, moved |-> s.moved, complete |-> s.complete]
  /\ IsSelection(s.sel, view)
  /\ Reached(sel) \subseteq Reached(s.sel)
  /\ s.before \in Int /\ s.before <= before /\ s.before >= Epoch - 1
  /\ (\A p \in view : s.before < Created[p] /\ Created[p] <= before => p \in Reached(s.sel))
  /\ \/ s.moved = s.before /\ s.before < before /\ (s.complete => s.before < Epoch)
     \/ /\ s.moved = NoTime /\ s.sel = sel /\ s.before = before
        /\ (s.complete => complete \/ before < Epoch)

\* After the first round a boundary stays for want of room or at the end only.
HasStarted(s, sel, before) ==
  s.moved = NoTime => Room(sel) <= 0 \/ (before < Epoch /\ s.complete)

\* The state before the first round.
LEMMA BackfillBegins ==
  ASSUME NEW view \in SUBSET PRs, NEW sel, IsSelection(sel, view),
         NEW before \in Int, before >= Epoch - 1, NEW complete
  PROVE  IsBackfill([sel |-> sel, before |-> before, moved |-> NoTime, complete |-> complete],
                    view, sel, before, complete)
<1> DEFINE s == [sel |-> sel, before |-> before, moved |-> NoTime, complete |-> complete]
<1>1. s.sel = sel /\ s.before = before /\ s.moved = NoTime /\ s.complete = complete
  OBVIOUS
<1>2. s = [sel |-> s.sel, before |-> s.before, moved |-> s.moved, complete |-> s.complete]
  OBVIOUS
<1> HIDE DEF s
<1>3. \A p \in view : ~(before < Created[p] /\ Created[p] <= before)
  BY HistoryAssumption
<1>4. before <= before
  OBVIOUS
<1>5. IsBackfill(s, view, sel, before, complete)
  BY <1>1, <1>2, <1>3, <1>4 DEF IsBackfill
<1> QED
  BY <1>5 DEF s

\* One window of the backfill.
LEMMA WindowMoves ==
  ASSUME updated \in [PRs -> Nat], NEW view \in SUBSET PRs, NEW flaky, NEW s,
         IsSelection(s.sel, view), s.before \in Int, s.before >= Epoch, Room(s.sel) > 0
  PROVE  LET found == BackfillFound(view, flaky, s)
             next  == (IF found.oldest # NoTime THEN found.oldest
                       ELSE BackfillStart(s.before)) - 1
             e     == Extend(s.sel, found)
         IN /\ next \in Int /\ next < s.before /\ next >= Epoch - 1
            /\ IsSelection(e, view) /\ Reached(s.sel) \subseteq Reached(e)
            /\ \A p \in view : next < Created[p] /\ Created[p] <= s.before => p \in Reached(e)
<1> DEFINE found == BackfillFound(view, flaky, s)
           start == BackfillStart(s.before)
           room  == Room(s.sel)
           b     == s.before
           next  == (IF found.oldest # NoTime THEN found.oldest ELSE start) - 1
           e     == Extend(s.sel, found)
<1>1. b \in Int /\ b >= 0 /\ room > 0
  BY DEF Epoch
<1>2. room \in Int
  <2>1. Len(s.sel.targets) \in Nat /\ maxTargets \in Nat
    BY LenProperties, LimitsArePositive DEF IsSelection
  <2> QED
    BY <2>1 DEF Room
<1>3. start \in Int /\ start <= b /\ start >= 0
  <2>1. BackfillWindow \in Nat
    BY HistoryAssumption
  <2> QED
    BY <1>1, <2>1, MaxOfTwo DEF BackfillStart, Epoch
<1>4. Found(found, view, Created, start, b, room)
  BY <1>1, <1>2, <1>3, DiscoveryFinds, TimesOfQualifiers DEF BackfillFound
<1>5. room <= Room(s.sel)
  BY <1>2
<1>6. IsResult(found, view, room)
  BY <1>4, FoundIsTyped
<1> HIDE DEF found, start, room, b
<1>7. /\ \A p \in view : /\ Created[p] \in start .. b
                         /\ found.oldest = NoTime \/ Created[p] >= found.oldest
                         => p \in Reached(e)
      /\ found.oldest # NoTime => found.oldest \in Nat /\ found.oldest \in start .. b
  BY <1>1, <1>2, <1>3, <1>4, <1>5, ExtendReaches
<1>8. IsSelection(e, view) /\ Reached(s.sel) \subseteq Reached(e)
  BY <1>2, <1>5, <1>6, ExtendAdds
<1> HIDE DEF e
<1> DEFINE o == IF found.oldest # NoTime THEN found.oldest ELSE start
<1>9. o \in Int /\ start <= o /\ o <= b
  BY <1>1, <1>3, <1>7
<1>10. next = o - 1
  OBVIOUS
<1>11. found.oldest = NoTime \/ found.oldest = o
  OBVIOUS
<1> HIDE DEF o, next
<1>12. ASSUME NEW p \in view, next < Created[p], Created[p] <= b PROVE p \in Reached(e)
  <2>1. Created[p] \in Nat
    BY HistoryAssumption
  <2>2. Created[p] >= o /\ Created[p] \in start .. b
    BY <1>1, <1>3, <1>9, <1>10, <1>12, <2>1
  <2> QED
    BY <1>7, <1>11, <2>2
<1>13. next \in Int /\ next < b /\ next >= -1
  BY <1>1, <1>3, <1>9, <1>10
<1>14. /\ next \in Int /\ next < s.before /\ next >= Epoch - 1
       /\ \A p \in view : next < Created[p] /\ Created[p] <= s.before => p \in Reached(e)
  BY <1>12, <1>13 DEF b, Epoch
<1> QED
  BY <1>8, <1>14 DEF next, o, e, found, start

\* A round keeps what the rounds before it reached.
LEMMA RoundGoesOn ==
  ASSUME updated \in [PRs -> Nat], NEW view \in SUBSET PRs, NEW flaky,
         NEW sel, NEW before \in Int, NEW complete, NEW s,
         IsBackfill(s, view, sel, before, complete)
  PROVE  /\ IsBackfill(BackfillRound(view, flaky, s), view, sel, before, complete)
         /\ HasStarted(BackfillRound(view, flaky, s), sel, before)
<1> DEFINE r == BackfillRound(view, flaky, s)
<1>1. /\ s = [sel |-> s.sel, before |-> s.before, moved |-> s.moved, complete |-> s.complete]
      /\ IsSelection(s.sel, view) /\ Reached(sel) \subseteq Reached(s.sel)
      /\ s.before \in Int /\ s.before <= before /\ s.before >= Epoch - 1
      /\ \A p \in view : s.before < Created[p] /\ Created[p] <= before => p \in Reached(s.sel)
  BY DEF IsBackfill
<1>2. \/ s.moved = s.before /\ s.before < before /\ (s.complete => s.before < Epoch)
      \/ s.moved = NoTime /\ s.sel = sel /\ s.before = before /\ (s.complete => complete \/ before < Epoch)
  BY DEF IsBackfill
<1>3. CASE Room(s.sel) <= 0
  <2>1. r = s
    BY <1>3 DEF BackfillRound
  <2>2. s.moved = NoTime => s.sel = sel
    BY <1>1, <1>2 DEF NoTime, Epoch
  <2>3. HasStarted(s, sel, before)
    BY <1>3, <2>2 DEF HasStarted
  <2> QED
    BY <2>1, <2>3
<1>4. CASE ~(Room(s.sel) <= 0) /\ s.before < Epoch
  <2>1. r = [s EXCEPT !.complete = TRUE]
    BY <1>4 DEF BackfillRound
  <2>2. /\ r.sel = s.sel /\ r.before = s.before /\ r.moved = s.moved /\ r.complete
        /\ r = [sel |-> r.sel, before |-> r.before, moved |-> r.moved, complete |-> r.complete]
    BY <1>1, <2>1
  <2> HIDE DEF r
  <2>3. \/ r.moved = r.before /\ r.before < before /\ (r.complete => r.before < Epoch)
        \/ r.moved = NoTime /\ r.sel = sel /\ r.before = before /\ (r.complete => complete \/ before < Epoch)
    BY <1>2, <1>4, <2>2
  <2>4. IsBackfill(r, view, sel, before, complete)
    BY <1>1, <2>2, <2>3 DEF IsBackfill
  <2>5. r.moved = NoTime => before < Epoch
    BY <1>1, <1>4, <2>2, <2>3 DEF NoTime, Epoch
  <2>6. HasStarted(r, sel, before)
    BY <2>2, <2>5 DEF HasStarted
  <2> QED
    BY <2>4, <2>6 DEF r
<1>5. CASE ~(Room(s.sel) <= 0) /\ ~(s.before < Epoch)
  <2> DEFINE found == BackfillFound(view, flaky, s)
             next  == (IF found.oldest # NoTime THEN found.oldest
                       ELSE BackfillStart(s.before)) - 1
             e     == Extend(s.sel, found)
  <2>1. r = [sel |-> e, before |-> next, moved |-> next, complete |-> FALSE]
    BY <1>5 DEF BackfillRound, BackfillTo
  <2>2. Room(s.sel) > 0 /\ s.before >= Epoch
    <3>1. Len(s.sel.targets) \in Nat /\ maxTargets \in Nat
      BY <1>1, LenProperties, LimitsArePositive DEF IsSelection
    <3> QED
      BY <1>1, <1>5, <3>1 DEF Room, Epoch
  <2>3. /\ next \in Int /\ next < s.before /\ next >= Epoch - 1
        /\ IsSelection(e, view) /\ Reached(s.sel) \subseteq Reached(e)
        /\ \A p \in view : next < Created[p] /\ Created[p] <= s.before => p \in Reached(e)
    BY <1>1, <2>2, WindowMoves
  <2> HIDE DEF next, e, found
  <2>4. /\ r.sel = e /\ r.before = next /\ r.moved = next /\ ~r.complete
        /\ r = [sel |-> r.sel, before |-> r.before, moved |-> r.moved, complete |-> r.complete]
    BY <2>1
  <2> HIDE DEF r
  <2>5. next < before /\ next <= before
    BY <1>1, <2>3
  <2>6. ASSUME NEW p \in view, next < Created[p], Created[p] <= before PROVE p \in Reached(e)
    <3>1. Created[p] \in Nat
      BY HistoryAssumption
    <3>2. Created[p] <= s.before \/ s.before < Created[p]
      BY <1>1, <3>1
    <3> QED
      BY <1>1, <2>3, <2>6, <3>2
  <2>7. Reached(sel) \subseteq Reached(e)
    BY <1>1, <2>3
  <2>8. IsBackfill(r, view, sel, before, complete)
    BY <2>3, <2>4, <2>5, <2>6, <2>7 DEF IsBackfill
  <2>9. r.moved # NoTime
    BY <2>3, <2>4 DEF NoTime, Epoch
  <2> QED
    BY <2>8, <2>9 DEF r, HasStarted
<1> QED
  BY <1>3, <1>4, <1>5

\* f is the loop, round by round.
AreRounds(f, view, flaky, sel, before, complete) ==
  f = [n \in 0 .. MaxWindows |->
         IF n = 0
         THEN [sel |-> sel, before |-> before, moved |-> NoTime, complete |-> complete]
         ELSE BackfillRound(view, flaky, f[n - 1])]

\* The loop defines a function of the round.
LEMMA BackfillExists ==
  ASSUME NEW view, NEW flaky, NEW sel, NEW before, NEW complete
  PROVE  \E f : AreRounds(f, view, flaky, sel, before, complete)
<1> DEFINE first == [sel |-> sel, before |-> before, moved |-> NoTime, complete |-> complete]
           Turn(s) == BackfillRound(view, flaky, s)
<1> HIDE DEF first, Turn
<1> DEFINE ok(f, k) == /\ f = [n \in 0 .. k |-> f[n]] /\ f[0] = first
                       /\ \A n \in 1 .. k : f[n] = Turn(f[n - 1])
           K == {k \in Nat : \E f : ok(f, k)}
<1>1. 0 \in K
  <2>1. ok([n \in 0 .. 0 |-> first], 0)
    OBVIOUS
  <2> QED
    BY <2>1
<1>2. ASSUME NEW k \in Nat, k \in K PROVE k + 1 \in K
  <2>1. PICK f : ok(f, k)
    BY <1>2
  <2> DEFINE g == [n \in 0 .. (k + 1) |-> IF n <= k THEN f[n] ELSE Turn(f[k])]
  <2>2. g = [n \in 0 .. (k + 1) |-> g[n]] /\ g[0] = first
    BY <2>1
  <2>3. ASSUME NEW n \in 1 .. (k + 1) PROVE g[n] = Turn(g[n - 1])
    <3>1. CASE n <= k
      <4>1. n \in 1 .. k /\ n \in 0 .. (k + 1) /\ n - 1 \in 0 .. (k + 1) /\ n - 1 <= k
        BY <3>1
      <4>2. g[n] = f[n] /\ g[n - 1] = f[n - 1]
        BY <3>1, <4>1
      <4> QED
        BY <2>1, <4>1, <4>2
    <3>2. CASE n = k + 1
      <4>1. ~(n <= k) /\ n - 1 = k /\ k \in 0 .. (k + 1) /\ n \in 0 .. (k + 1)
        BY <3>2
      <4>2. g[n] = Turn(f[k]) /\ g[k] = f[k]
        BY <4>1
      <4> QED
        BY <4>1, <4>2
    <3> QED
      BY <3>1, <3>2
  <2> HIDE DEF g
  <2>4. ok(g, k + 1)
    BY <2>2, <2>3
  <2> HIDE DEF ok
  <2> QED
    BY <2>4
<1> HIDE DEF K
<1>3. MaxWindows \in Nat
  BY HistoryAssumption
<1>4. MaxWindows \in K
  BY <1>1, <1>2, <1>3, NatsAreReached
<1>5. PICK f : ok(f, MaxWindows)
  BY <1>4 DEF K
<1>6. \A n \in 0 .. MaxWindows : f[n] = IF n = 0 THEN first ELSE Turn(f[n - 1])
  <2>1. \A n \in 0 .. MaxWindows : n = 0 \/ n \in 1 .. MaxWindows
    BY <1>3
  <2> QED
    BY <1>5, <2>1
<1>7. f = [n \in 0 .. MaxWindows |-> IF n = 0 THEN first ELSE Turn(f[n - 1])]
  BY <1>5, <1>6
<1> QED
  BY <1>7 DEF first, Turn, AreRounds

\* The loop, round by round.
LEMMA BackfillUnfolds ==
  ASSUME NEW view, NEW flaky, NEW sel, NEW before, NEW complete
  PROVE  \E f : /\ Backfill(view, flaky, sel, before, complete) = f[MaxWindows]
                /\ f[0] = [sel |-> sel, before |-> before, moved |-> NoTime, complete |-> complete]
                /\ \A n \in 1 .. MaxWindows : f[n] = BackfillRound(view, flaky, f[n - 1])
<1> DEFINE p(f) == AreRounds(f, view, flaky, sel, before, complete)
           f == CHOOSE g : p(g)
<1>1. Backfill(view, flaky, sel, before, complete) = f[MaxWindows]
  BY Zenon DEF Backfill, AreRounds
<1>2. \E g : p(g)
  BY BackfillExists
<1> HIDE DEF p
<1>3. p(f)
  BY Zenon, <1>2
<1> HIDE DEF f
<1>4. MaxWindows \in Nat
  BY HistoryAssumption
<1>5. f[0] = [sel |-> sel, before |-> before, moved |-> NoTime, complete |-> complete]
  BY <1>3, <1>4 DEF p, AreRounds
<1>6. ASSUME NEW n \in 1 .. MaxWindows PROVE f[n] = BackfillRound(view, flaky, f[n - 1])
  <2>1. n \in 0 .. MaxWindows /\ n # 0
    BY <1>4
  <2> QED
    BY <1>3, <2>1 DEF p, AreRounds
<1> QED
  BY <1>1, <1>5, <1>6

\* What the backfill returns.
LEMMA BackfillHolds ==
  ASSUME updated \in [PRs -> Nat], NEW view \in SUBSET PRs, NEW flaky,
         NEW sel, IsSelection(sel, view), NEW before \in Int, before >= Epoch - 1, NEW complete
  PROVE  /\ IsBackfill(Backfill(view, flaky, sel, before, complete), view, sel, before, complete)
         /\ HasStarted(Backfill(view, flaky, sel, before, complete), sel, before)
<1>1. PICK f : /\ Backfill(view, flaky, sel, before, complete) = f[MaxWindows]
               /\ f[0] = [sel |-> sel, before |-> before, moved |-> NoTime, complete |-> complete]
               /\ \A n \in 1 .. MaxWindows : f[n] = BackfillRound(view, flaky, f[n - 1])
  BY BackfillUnfolds
<1>2. MaxWindows \in Nat /\ MaxWindows > 0
  BY HistoryAssumption
<1>3. IsBackfill(f[0], view, sel, before, complete)
  BY <1>1, BackfillBegins
<1> DEFINE ok(n) == /\ IsBackfill(f[n], view, sel, before, complete)
                    /\ (n > 0 => HasStarted(f[n], sel, before))
           K == {n \in Nat : n <= MaxWindows => ok(n)}
<1>4. 0 \in K
  BY <1>3
<1>5. ASSUME NEW n \in Nat, n \in K PROVE n + 1 \in K
  <2> SUFFICES ASSUME n + 1 <= MaxWindows PROVE ok(n + 1)
    OBVIOUS
  <2>1. n <= MaxWindows /\ n + 1 \in 1 .. MaxWindows /\ (n + 1) - 1 = n
    BY <1>2
  <2>2. f[n + 1] = BackfillRound(view, flaky, f[n])
    BY <1>1, <2>1
  <2>3. IsBackfill(f[n], view, sel, before, complete)
    BY <1>5, <2>1
  <2>4. /\ IsBackfill(BackfillRound(view, flaky, f[n]), view, sel, before, complete)
        /\ HasStarted(BackfillRound(view, flaky, f[n]), sel, before)
    BY <2>3, RoundGoesOn
  <2> QED
    BY <2>2, <2>4
<1> HIDE DEF K
<1>6. MaxWindows \in K
  BY <1>2, <1>4, <1>5, NatsAreReached
<1>7. ok(MaxWindows)
  BY <1>2, <1>6 DEF K
<1> QED
  BY <1>1, <1>2, <1>7

----------------------------------------------------------------------------
(* The windows up to now.                                                *)

\* A view is part of what there is by now.
IsView(view) == view \subseteq PRs /\ \A p \in view : Created[p] <= now

\* Of the variables, a search reads these.  Nothing was changed before it was
\* created, or is by a time that is still to come.
Clocks ==
  /\ now \in Nat /\ Start <= now /\ updated \in [PRs -> Nat]
  /\ \A p \in PRs : Created[p] <= updated[p] /\ (updated[p] = Created[p] \/ updated[p] <= now)

\* minAuthoredTimestamp gives one of its arguments, a time if one is.
LEMMA EarliestHolds ==
  ASSUME NEW a \in Nat \cup {NoTime}, NEW b \in Nat \cup {NoTime}
  PROVE  /\ Earliest(a, b) \in Nat \cup {NoTime}
         /\ Earliest(a, b) \in {a, b}
         /\ (Earliest(a, b) = NoTime <=> a = NoTime /\ b = NoTime)
<1>1. CASE a = NoTime \/ b = NoTime
  BY <1>1 DEF Earliest
<1>2. CASE a # NoTime /\ b # NoTime
  <2>1. a \in Nat /\ b \in Nat
    BY <1>2
  <2>2. Min({a, b}) \in {a, b}
    BY <2>1, MinOfTwo
  <2>3. Earliest(a, b) = Min({a, b})
    BY <1>2 DEF Earliest
  <2> QED
    BY <1>2, <2>2, <2>3
<1> QED
  BY <1>1, <1>2

\* All that is as new as the oldest result of a selection is reached, but for
\* gap.
GaplessBut(sel, view, gap) ==
  sel.oldest # NoTime => \A p \in view : Created[p] >= sel.oldest => p \in Reached(sel) \cup gap

Gapless(sel, view) == GaplessBut(sel, view, {})

\* What is behind an old pull request that the search by time of update found.
Behind(view, r) ==
  {p \in view : \E t \in ToSet(r.targets) : updated[t] > Created[t] /\ Created[t] <= Created[p]}

\* No room is left only in a full selection.
LEMMA RoomIsNumber ==
  ASSUME NEW view, NEW sel, IsSelection(sel, view)
  PROVE  /\ Room(sel) \in Int
         /\ (Room(sel) <= 0 => sel.targets # <<>> /\ Len(sel.targets) = maxTargets)
         /\ (sel.targets = <<>> => Room(sel) = maxTargets)
<1>1. Len(sel.targets) \in Nat /\ maxTargets \in Nat /\ maxTargets > 0 /\ Len(sel.targets) <= maxTargets
  BY LenProperties, LimitsArePositive DEF IsSelection
<1>2. sel.targets = <<>> => Len(sel.targets) = 0
  BY EmptySeq
<1> QED
  BY <1>1, <1>2 DEF Room

\* A further search, by whatever time, loses nothing.
LEMMA FurtherSearch ==
  ASSUME NEW view \in SUBSET PRs, NEW W, NEW from, NEW to, NEW limit \in Int, NEW r,
         Found(r, view, W, from, to, limit),
         NEW sel, IsSelection(sel, view), limit <= Room(sel)
  PROVE  /\ IsSelection(Extend(sel, r), view)
         /\ Reached(sel) \subseteq Reached(Extend(sel, r))
<1>1. IsResult(r, view, limit)
  BY FoundIsTyped
<1> QED
  BY <1>1, ExtendAdds

\* A search by time of creation up to now leaves no other gap.
LEMMA StaysGapless ==
  ASSUME now \in Nat, NEW view, IsView(view),
         NEW from \in Int, NEW limit \in Int, NEW r,
         Found(r, view, Created, from, now, limit),
         NEW sel, IsSelection(sel, view), limit <= Room(sel),
         NEW gap, GaplessBut(sel, view, gap)
  PROVE  GaplessBut(Extend(sel, r), view, gap)
<1> DEFINE e == Extend(sel, r)
<1>0. view \in SUBSET PRs /\ \A p \in view : Created[p] \in Nat /\ Created[p] <= now
  BY HistoryAssumption DEF IsView
<1>1. IsResult(r, view, limit)
  BY <1>0, FoundIsTyped
<1>2. e.oldest = Earliest(sel.oldest, r.oldest) /\ Reached(sel) \subseteq Reached(e)
  BY ZenonT(60), <1>0, <1>1, ExtendAdds
<1>3. sel.oldest \in Nat \cup {NoTime} /\ r.oldest \in Nat \cup {NoTime}
  BY <1>1 DEF IsSelection, IsResult
<1>4. e.oldest \in {sel.oldest, r.oldest}
  BY <1>2, <1>3, EarliestHolds
<1>5. ASSUME r.oldest # NoTime
      PROVE  \A p \in view : Created[p] >= r.oldest => p \in Reached(e)
  <2>1. limit > 0
    <3>1. r.targets # <<>>
      BY <1>1, <1>5 DEF IsResult
    <3>2. ~(limit <= 0)
      BY <1>1, <3>1 DEF IsResult
    <3> QED
      BY <3>2
  <2>2. /\ \A p \in view : /\ Created[p] \in from .. now
                           /\ r.oldest = NoTime \/ Created[p] >= r.oldest
                           => p \in Reached(e)
        /\ r.oldest # NoTime => r.oldest \in Nat /\ r.oldest \in from .. now
    BY <1>0, <2>1, ExtendReaches
  <2> HIDE DEF e
  <2>3. r.oldest \in Nat /\ r.oldest \in from .. now
    BY <1>5, <2>2
  <2> TAKE p \in view
  <2> HAVE Created[p] >= r.oldest
  <2>4. Created[p] \in from .. now
    BY <1>0, <2>3
  <2> QED
    BY <2>2, <2>4
<1> HIDE DEF e
<1>6. ASSUME e.oldest # NoTime, NEW p \in view, Created[p] >= e.oldest PROVE p \in Reached(e) \cup gap
  <2>1. CASE e.oldest = sel.oldest
    BY <1>2, <1>6, <2>1 DEF GaplessBut
  <2>2. CASE e.oldest = r.oldest
    BY <1>5, <1>6, <2>2
  <2> QED
    BY <1>4, <2>1, <2>2
<1>7. GaplessBut(e, view, gap)
  BY <1>6 DEF GaplessBut
<1> QED
  BY <1>7 DEF e

\* A search by time of update may find an old pull request and leave a gap behind
\* it, and nowhere else: what it leaves out was changed before all that it found.
LEMMA UpdatesLeaveGap ==
  ASSUME Clocks, NEW view, IsView(view),
         NEW from \in Int, NEW limit \in Int, NEW r,
         Found(r, view, updated, from, now, limit),
         NEW sel, IsSelection(sel, view), limit <= Room(sel), Gapless(sel, view)
  PROVE  GaplessBut(Extend(sel, r), view, Behind(view, r))
<1> DEFINE e == Extend(sel, r)
<1>0. /\ view \in SUBSET PRs /\ now \in Nat /\ updated \in [PRs -> Nat]
      /\ Created \in [PRs -> Nat]
      /\ \A p \in view : Created[p] <= now /\ Created[p] <= updated[p] /\ updated[p] <= now
  BY HistoryAssumption DEF IsView, Clocks
<1>1. IsResult(r, view, limit) /\ ToSet(r.targets) \subseteq Within(view, updated, from, now)
  BY <1>0, FoundIsTyped
<1>2. /\ e.oldest = Earliest(sel.oldest, r.oldest) /\ Reached(sel) \subseteq Reached(e)
      /\ ToSet(r.targets) \cup {p \in r.cut : Created[p] >= r.oldest} \subseteq Reached(e)
  BY <1>0, <1>1, ExtendAdds DEF Reached
<1>3. sel.oldest \in Nat \cup {NoTime} /\ r.oldest \in Nat \cup {NoTime}
  BY <1>1 DEF IsSelection, IsResult
<1>4. e.oldest \in {sel.oldest, r.oldest}
  BY <1>2, <1>3, EarliestHolds
<1> HIDE DEF e
<1>5. ASSUME r.oldest # NoTime, NEW p \in view, Created[p] >= r.oldest, p \notin Behind(view, r)
      PROVE  p \in Reached(e)
  <2>1. PICK t \in ToSet(r.targets) : Created[t] = r.oldest
    BY <1>1, <1>5 DEF IsResult
  <2>2. t \in view /\ t \in PRs /\ updated[t] \in from .. now
    BY <1>0, <1>1 DEF Within
  <2>3. updated[t] = Created[t]
    BY <1>0, <1>5, <2>1, <2>2 DEF Behind
  <2>4. updated[p] \in from .. now /\ updated[t] <= updated[p]
    BY <1>0, <1>5, <2>1, <2>2, <2>3
  <2>5. p \in ToSet(r.targets) \cup r.cut
    <3> DEFINE w == [from |-> from, to |-> now, limit |-> limit, depth |-> 0]
    <3>1. w.from = from /\ w.to = now /\ w.limit = limit
      OBVIOUS
    <3>2. IsAnswer(r, view, updated, w)
      BY DEF Found
    <3> HIDE DEF w
    <3>3. p \in Within(view, updated, from, now)
      BY <2>4 DEF Within
    <3>4. limit > 0
      <4>1. r.targets # <<>>
        BY <1>1, <1>5 DEF IsResult
      <4>2. ~(limit <= 0)
        BY <1>1, <4>1 DEF IsResult
      <4> QED
        BY <4>2
    <3>5. \/ p \in ToSet(r.targets) \cup r.cut
          \/ \A q \in ToSet(r.targets) : updated[q] > updated[p]
      BY Zenon, <3>1, <3>2, <3>3, <3>4 DEF IsAnswer
    <3>6. ~(updated[t] > updated[p])
      BY <1>0, <2>2, <2>4
    <3> QED
      BY <2>1, <3>5, <3>6
  <2> QED
    BY <1>2, <1>5, <2>5
<1>6. ASSUME e.oldest # NoTime, NEW p \in view, Created[p] >= e.oldest
      PROVE  p \in Reached(e) \cup Behind(view, r)
  <2>1. CASE e.oldest = sel.oldest
    BY <1>2, <1>6, <2>1 DEF Gapless, GaplessBut
  <2>2. CASE e.oldest = r.oldest
    BY <1>5, <1>6, <2>2
  <2> QED
    BY <1>4, <2>1, <2>2
<1>7. GaplessBut(e, view, Behind(view, r))
  BY <1>6 DEF GaplessBut
<1> QED
  BY <1>7 DEF e

\* What a search did not leave out, it found.
LEMMA FoundUnlessLeftOut ==
  ASSUME NEW view \in SUBSET PRs, NEW W,
         NEW from \in Int, NEW to \in Int, NEW limit \in Int, NEW r,
         Found(r, view, W, from, to, limit),
         NEW p \in view, W[p] \in from .. to, ~LeftOut(r, limit, p)
  PROVE  p \in ToSet(r.targets)
<1> DEFINE w == [from |-> from, to |-> to, limit |-> limit, depth |-> 0]
<1>1. w.from = from /\ w.to = to /\ w.limit = limit
  OBVIOUS
<1>2. IsAnswer(r, view, W, w)
  BY DEF Found
<1> HIDE DEF w
<1>3. p \in Within(view, W, from, to)
  BY DEF Within
<1>4. /\ (limit <= 0 => r.targets = <<>>)
      /\ (limit > 0 => \/ p \in ToSet(r.targets) \cup r.cut \/ Len(r.targets) >= limit)
  BY Zenon, <1>1, <1>2, <1>3 DEF IsAnswer
<1>5. ~(Len(r.targets) >= limit) /\ p \notin r.cut
  BY DEF LeftOut
<1>6. limit > 0
  <2>1. r.targets = <<>> => Len(r.targets) = 0
    BY EmptySeq
  <2>2. ~(limit <= 0)
    BY <1>4, <1>5, <2>1
  <2> QED
    BY <2>2
<1> QED
  BY <1>4, <1>5, <1>6

\* The first search of a selection: the recent seed.
LEMMA SeedHolds ==
  ASSUME Clocks, NEW view, IsView(view), NEW flaky
  PROVE  IsSelection(RecentSeed(view, flaky), view) /\ Gapless(RecentSeed(view, flaky), view)
<1> DEFINE from == Max({Epoch, now - SeedLookback})
           r    == Find(view, flaky, "created", from, recentSeedLimit)
<1>1. from \in Int
  <2>1. SeedLookback \in Nat /\ now \in Nat
    BY HistoryAssumption DEF Clocks
  <2> QED
    BY <2>1, MaxOfTwo DEF Epoch
<1>2. recentSeedLimit \in Int /\ recentSeedLimit <= Room(Nothing) /\ IsSelection(Nothing, view)
  <2>1. IsSelection(Nothing, view) /\ Nothing.targets = <<>>
    BY NothingIsSelection DEF Nothing
  <2>2. Room(Nothing) = maxTargets
    BY <2>1, RoomIsNumber
  <2> DEFINE m == Max({2 * SyncLimit, MinSeed})
  <2>3. m \in Int
    BY HistoryAssumption, MaxOfTwo
  <2>5. recentSeedLimit = Min({maxTargets, m})
    BY DEF recentSeedLimit
  <2> HIDE DEF m
  <2>6. maxTargets \in Int
    BY LimitsArePositive
  <2>4. maxTargets \in Int /\ recentSeedLimit \in Int /\ recentSeedLimit <= maxTargets
    BY <2>3, <2>5, <2>6, MinOfTwo
  <2> QED
    BY <2>1, <2>2, <2>4
<1>3. now \in Nat /\ view \in SUBSET PRs /\ updated \in [PRs -> Nat]
  BY DEF Clocks, IsView
<1> HIDE DEF from
<1>4. Found(r, view, Created, from, now, recentSeedLimit)
  BY <1>1, <1>2, <1>3, DiscoveryFinds, TimesOfQualifiers DEF Find
<1> HIDE DEF r
<1>5. Gapless(Nothing, view)
  BY DEF Gapless, GaplessBut, Nothing
<1>6. IsSelection(Extend(Nothing, r), view)
  BY <1>2, <1>3, <1>4, FurtherSearch
<1>7. Gapless(Extend(Nothing, r), view)
  BY <1>1, <1>2, <1>3, <1>4, <1>5, StaysGapless DEF Gapless
<1> QED
  BY <1>6, <1>7 DEF RecentSeed, r, from

\* The four rows of a cursor.
Cursors ==
  [lastSyncedAt : Nat \cup {NoTime}, oldestSeenAt : Nat \cup {NoTime},
   backfillBeforeAt : Int, bootstrapComplete : BOOLEAN]

\* What the database says of the history so far.
IsCursor(c, t) ==
  /\ c.lastSyncedAt \in Nat \cup {NoTime} /\ c.lastSyncedAt <= t
  /\ c.oldestSeenAt \in Nat \cup {NoTime}
  /\ c.backfillBeforeAt \in Int /\ c.backfillBeforeAt >= Epoch - 1
  /\ c.bootstrapComplete \in BOOLEAN
  /\ (c.bootstrapComplete => c.backfillBeforeAt = Epoch - 1)

\* Where the incremental windows begin.
LEMMA IncrementalStartIsTime ==
  ASSUME Clocks, NEW cur, cur = EmptyCursor \/ IsCursor(cur, now)
  PROVE  /\ IncrementalStart(cur) \in Int
         /\ (cur = EmptyCursor => IncrementalStart(cur) = now - BootstrapLookback)
         /\ (cur.lastSyncedAt # NoTime => cur.lastSyncedAt \in Nat /\ IncrementalStart(cur) <= cur.lastSyncedAt)
<1>1. now \in Nat /\ BootstrapLookback \in Nat /\ Overlap \in Nat
  BY HistoryAssumption DEF Clocks
<1>2. cur.lastSyncedAt \in Nat \cup {NoTime}
  BY DEF IsCursor, EmptyCursor
<1>3. cur = EmptyCursor => cur.lastSyncedAt = NoTime
  BY DEF EmptyCursor
<1> QED
  BY <1>1, <1>2, <1>3 DEF IncrementalStart

\* The incremental searches: what the selection holds then, and what it may
\* leave to an earlier sync.
NewerCovers(sel, view, cur) ==
  /\ (cur.backfillBeforeAt = NoTime => Gapless(sel, view))
  /\ (sel.oldest = NoTime =>
        \A p \in view : Created[p] >= IncrementalStart(cur) => p \in Reached(sel))
  /\ (cur.backfillBeforeAt # NoTime =>
        \A p \in view : \/ p \in Reached(sel) \/ Created[p] <= Start
                        \/ cur.lastSyncedAt # NoTime /\ Created[p] <= cur.lastSyncedAt)

\* The selection after the incremental searches.
LEMMA NewerHolds ==
  ASSUME Clocks, NEW view, IsView(view), NEW flaky,
         NEW cur, cur = EmptyCursor \/ IsCursor(cur, now),
         NEW seed, IsSelection(seed, view), Gapless(seed, view)
  PROVE  /\ IsSelection(Newer(view, flaky, cur, seed), view)
         /\ NewerCovers(Newer(view, flaky, cur, seed), view, cur)
<1> DEFINE ul      == UpdatedLimit(cur, seed)
           updates == IncrementalUpdated(view, flaky, cur, seed)
           sel     == Extend(seed, updates)
           cl      == CreatedLimit(sel)
           creates == IncrementalCreated(view, flaky, cur, sel)
           both    == Extend(sel, creates)
           passed  == PassedBy(view, cur, updates, ul, creates, cl)
                        \cup PulledBack(view, cur, updates)
           newer   == Newer(view, flaky, cur, seed)
           start   == IncrementalStart(cur)
<1>1. /\ newer.targets = both.targets /\ newer.oldest = both.oldest
      /\ newer.cut = both.cut \cup passed
  BY DEF Newer, Extend
<1>2. passed \subseteq view
  BY DEF PassedBy, PulledBack
<1>3. /\ start \in Int
      /\ (cur.lastSyncedAt # NoTime => cur.lastSyncedAt \in Nat /\ start <= cur.lastSyncedAt)
  BY IncrementalStartIsTime
<1>4. /\ now \in Nat /\ view \in SUBSET PRs /\ updated \in [PRs -> Nat] /\ Start \in Nat
      /\ \A p \in view : Created[p] \in Nat /\ Created[p] <= now
      /\ \A p \in view : updated[p] \in Nat /\ Created[p] <= updated[p] /\ updated[p] <= now
  BY HistoryAssumption DEF Clocks, IsView
<1>5. ul \in Int /\ ul <= Room(seed) /\ (seed.targets = <<>> => ul > 0)
  <2>1. /\ incrementalTargetLimit(cur) \in Nat /\ incrementalTargetLimit(cur) > 0
        /\ maxTargets \in Nat /\ maxTargets > 0
    BY LimitsArePositive
  <2>2. Room(seed) \in Int /\ (seed.targets = <<>> => Room(seed) = maxTargets)
    BY RoomIsNumber
  <2> QED
    BY <2>1, <2>2, MinOfTwo DEF UpdatedLimit
<1>6. Found(updates, view, updated, start, now, ul)
  BY <1>3, <1>4, <1>5, DiscoveryFinds, TimesOfQualifiers DEF IncrementalUpdated, Find
<1> HIDE DEF updates, ul, start
<1>7. IsSelection(sel, view) /\ Reached(seed) \subseteq Reached(sel)
  BY <1>4, <1>5, <1>6, FurtherSearch
<1> HIDE DEF sel
<1>8. cl \in Int /\ cl <= Room(sel)
  <2>1. Max({SyncLimit, maxTargets \div 3}) \in Nat
    BY LimitsArePositive
  <2>2. Room(sel) \in Int
    BY <1>7, RoomIsNumber
  <2> QED
    BY <2>1, <2>2, MinOfTwo DEF CreatedLimit
<1>9. Found(creates, view, Created, start, now, cl)
  BY <1>3, <1>4, <1>8, DiscoveryFinds, TimesOfQualifiers DEF IncrementalCreated, Find, start
<1> HIDE DEF creates, cl
<1>10. IsSelection(both, view) /\ Reached(sel) \subseteq Reached(both)
  BY <1>4, <1>7, <1>8, <1>9, FurtherSearch
<1>11. IsResult(updates, view, ul) /\ IsResult(creates, view, cl)
  BY <1>4, <1>6, <1>9, FoundIsTyped
<1>12. ToSet(updates.targets) \subseteq Reached(both)
  <2>1. ToSet(updates.targets) \subseteq ToSet(sel.targets)
    BY <1>4, <1>5, <1>11, ExtendAdds DEF sel
  <2> QED
    BY <1>10, <2>1 DEF Reached
<1>13. ToSet(creates.targets) \subseteq Reached(both)
  <2>1. ToSet(creates.targets) \subseteq ToSet(both.targets)
    BY <1>4, <1>7, <1>8, <1>11, ExtendAdds
  <2> QED
    BY <2>1 DEF Reached
<1>14. Reached(both) \cup passed = Reached(newer)
  BY <1>1 DEF Reached
<1>15. IsSelection(newer, view)
  BY <1>1, <1>2, <1>10 DEF IsSelection
<1>16. NewerCovers(newer, view, cur)
  <2>2. GaplessBut(sel, view, Behind(view, updates))
    BY <1>3, <1>4, <1>5, <1>6, UpdatesLeaveGap DEF sel
  <2>3. GaplessBut(both, view, Behind(view, updates))
    BY <1>3, <1>4, <1>7, <1>8, <1>9, <2>2, StaysGapless
  <2>4. cur.backfillBeforeAt = NoTime => Gapless(newer, view)
    <3>1. cur.backfillBeforeAt = NoTime => Behind(view, updates) \subseteq passed
      BY DEF Behind, PulledBack
    <3> QED
      BY <1>1, <1>14, <2>3, <3>1 DEF Gapless, GaplessBut
  <2>5. ASSUME newer.oldest = NoTime, NEW p \in view, Created[p] >= start
        PROVE  p \in Reached(newer)
    <3>1. both.oldest = Earliest(sel.oldest, creates.oldest)
          /\ sel.oldest = Earliest(seed.oldest, updates.oldest)
      BY DEF Extend, sel
    <3>2. /\ seed.oldest \in Nat \cup {NoTime} /\ updates.oldest \in Nat \cup {NoTime}
          /\ sel.oldest \in Nat \cup {NoTime} /\ creates.oldest \in Nat \cup {NoTime}
      BY <1>7, <1>11 DEF IsSelection, IsResult
    <3>3. sel.oldest = NoTime
      BY <1>1, <2>5, <3>1, <3>2, EarliestHolds
    <3>4. seed.oldest = NoTime /\ updates.oldest = NoTime
      BY <3>1, <3>2, <3>3, EarliestHolds
    <3>5. ul > 0
      BY <1>5, <3>4 DEF IsSelection
    <3>6. updated[p] \in start .. now
      BY <1>3, <1>4, <2>5
    <3>7. p \in updates.cut
      <4>1. ~(Len(updates.targets) >= ul) /\ ToSet(updates.targets) = {}
        <5>1. updates.targets = <<>>
          BY <1>11, <3>4 DEF IsResult
        <5>2. Len(updates.targets) = 0
          BY <5>1, EmptySeq
        <5> QED
          BY <1>5, <3>5, <5>1, <5>2 DEF ToSet
      <4>2. p \in ToSet(updates.targets) \/ LeftOut(updates, ul, p)
        BY <1>3, <1>4, <1>5, <1>6, <3>6, FoundUnlessLeftOut
      <4> QED
        BY <4>1, <4>2 DEF LeftOut
    <3>8. Created[p] >= updates.oldest
      BY <1>4, <3>4 DEF NoTime
    <3>9. p \in Reached(sel)
      <4>1. {q \in updates.cut : Created[q] >= updates.oldest} \subseteq sel.cut
        BY <1>4, <1>5, <1>11, ExtendAdds DEF sel
      <4> QED
        BY <3>7, <3>8, <4>1 DEF Reached
    <3> QED
      BY <1>10, <1>14, <3>9
  <2>6. ASSUME cur.backfillBeforeAt # NoTime, NEW p \in view
        PROVE  \/ p \in Reached(newer) \/ Created[p] <= Start
               \/ cur.lastSyncedAt # NoTime /\ Created[p] <= cur.lastSyncedAt
    <3>0. Created[p] \in Nat /\ Created[p] <= now
      BY <1>4
    <3>1. CASE Created[p] < start
      <4>1. CASE cur.lastSyncedAt # NoTime
        BY <1>3, <3>0, <3>1, <4>1
      <4>2. CASE cur.lastSyncedAt = NoTime /\ ~(Created[p] <= Start)
        <5>1. Created[p] > Start
          BY <1>4, <3>0, <4>2
        <5>2. p \in passed
          BY <2>6, <3>1, <4>2, <5>1 DEF PassedBy, start
        <5> QED
          BY <1>14, <5>2
      <4> QED
        BY <4>1, <4>2
    <3>2. CASE ~(Created[p] < start)
      <4>0. Created[p] >= start /\ Created[p] \in start .. now
        BY <1>3, <1>4, <3>0, <3>2
      <4>1. CASE LeftOut(updates, ul, p) /\ LeftOut(creates, cl, p)
        <5>1. p \in passed
          BY <2>6, <3>2, <4>1 DEF PassedBy, start
        <5> QED
          BY <1>14, <5>1
      <4>2. CASE ~LeftOut(updates, ul, p)
        <5>0. updated[p] \in start .. now
          BY <1>3, <1>4, <4>0
        <5>1. p \in ToSet(updates.targets)
          BY <1>3, <1>4, <1>5, <1>6, <4>2, <5>0, FoundUnlessLeftOut
        <5> QED
          BY <1>12, <1>14, <5>1
      <4>3. CASE ~LeftOut(creates, cl, p)
        <5>1. p \in ToSet(creates.targets)
          BY <1>3, <1>4, <1>8, <1>9, <4>0, <4>3, FoundUnlessLeftOut
        <5> QED
          BY <1>13, <1>14, <5>1
      <4> QED
        BY <4>1, <4>2, <4>3
    <3> QED
      BY <3>1, <3>2
  <2> QED
    BY <2>4, <2>5, <2>6 DEF NewerCovers, start
<1> QED
  BY <1>15, <1>16

----------------------------------------------------------------------------
(* The whole selection.                                                  *)

\* The search without a window.
LEMMA BroadFinds ==
  ASSUME Clocks, NEW view, IsView(view)
  PROVE  Found(discoverAuthoredPullRequestTargetsBroad(view, maxTargets), view,
               Times("updated"), Epoch, now, maxTargets)
<1> DEFINE w     == [from |-> Epoch, to |-> now, limit |-> maxTargets, depth |-> 0]
           items == Matches(view, "updated", Epoch, now)
<1>1. /\ view \in SUBSET PRs /\ now \in Nat /\ Epoch \in Int /\ MaxDepth \in Nat
      /\ maxTargets \in Nat /\ maxTargets > 0 /\ updated \in [PRs -> Nat]
  BY HistoryAssumption, LimitsArePositive DEF Clocks, IsView, Epoch
<1>2. w.from = Epoch /\ w.to = now /\ w.limit = maxTargets /\ w \in Windows
  BY <1>1 DEF Windows
<1>3. items \in Seq(PRs) /\ ToSet(items) = Within(view, Times("updated"), Epoch, now)
  BY <1>1, MatchesAreListed
<1> HIDE DEF w, items
<1>4. IsAnswer(Page(items, w.limit, FALSE), view, Times("updated"), w)
  BY <1>1, <1>2, <1>3, PageIsAnswer
<1> QED
  BY <1>2, <1>4 DEF discoverAuthoredPullRequestTargetsBroad, Found, items, w

\* The last two searches only help a selection that is still empty.
LEMMA LastResorts ==
  ASSUME Clocks, NEW view, IsView(view), NEW flaky, NEW sel, IsSelection(sel, view)
  PROVE  LET final == BroadFallback(view, Rescan(view, flaky, sel))
         IN /\ IsSelection(final, view) /\ Reached(sel) \subseteq Reached(final)
            /\ (sel.targets # <<>> => final = sel)
<1>1. view \in SUBSET PRs /\ now \in Nat /\ updated \in [PRs -> Nat] /\ maxTargets \in Int
  BY LimitsArePositive DEF Clocks, IsView
<1> DEFINE one == Rescan(view, flaky, sel)
<1>2. /\ IsSelection(one, view) /\ Reached(sel) \subseteq Reached(one)
      /\ (sel.targets # <<>> => one = sel)
  <2>1. CASE sel.targets # <<>>
    BY <2>1 DEF Rescan
  <2>2. CASE sel.targets = <<>>
    <3> DEFINE from == Max({Epoch, now - RescanLookback})
               r    == Find(view, flaky, "created", from, maxTargets)
    <3>1. from \in Int
      <4>1. RescanLookback \in Nat
        BY HistoryAssumption
      <4> QED
        BY <1>1, <4>1, MaxOfTwo DEF Epoch
    <3>2. one = Extend(sel, r)
      BY <2>2 DEF Rescan
    <3> HIDE DEF from, one
    <3>3. Found(r, view, Created, from, now, maxTargets)
      BY <1>1, <3>1, DiscoveryFinds, TimesOfQualifiers DEF Find
    <3> HIDE DEF r
    <3>4. maxTargets <= Room(sel)
      BY <1>1, <2>2, RoomIsNumber
    <3> QED
      BY <1>1, <2>2, <3>2, <3>3, <3>4, FurtherSearch
  <2> QED
    BY <2>1, <2>2
<1> HIDE DEF one
<1> DEFINE final == BroadFallback(view, one)
<1>3. /\ IsSelection(final, view) /\ Reached(one) \subseteq Reached(final)
      /\ (one.targets # <<>> => final = one)
  <2>1. CASE one.targets # <<>>
    BY <1>2, <2>1 DEF BroadFallback
  <2>2. CASE one.targets = <<>>
    <3> DEFINE r == discoverAuthoredPullRequestTargetsBroad(view, maxTargets)
    <3>1. Found(r, view, Times("updated"), Epoch, now, maxTargets)
      BY BroadFinds
    <3>2. final = Extend(one, r)
      BY <2>2 DEF BroadFallback
    <3> HIDE DEF r, final
    <3>3. maxTargets <= Room(one)
      BY <1>1, <1>2, <2>2, RoomIsNumber
    <3> QED
      BY <1>1, <1>2, <2>2, <3>1, <3>2, <3>3, FurtherSearch
  <2> QED
    BY <2>1, <2>2
<1> HIDE DEF final
<1>4. /\ IsSelection(final, view) /\ Reached(sel) \subseteq Reached(final)
      /\ (sel.targets # <<>> => final = sel)
  BY <1>2, <1>3
<1> QED
  BY <1>4 DEF final, one

\* Where the backfill of a sync begins.
LEMMA BoundaryHolds ==
  ASSUME Clocks, NEW cur, cur = EmptyCursor \/ IsCursor(cur, now), NEW oldest \in Nat \cup {NoTime}
  PROVE  LET b == authoredPRBackfillBoundary(cur, oldest)
         IN /\ b \in Int /\ b >= Epoch - 1
            /\ (cur.backfillBeforeAt # NoTime => b = cur.backfillBeforeAt)
            /\ (cur = EmptyCursor =>
                  b = IF oldest # NoTime THEN oldest - 1 ELSE now - BootstrapLookback)
<1>1. now \in Nat /\ BootstrapLookback \in Nat /\ BootstrapLookback <= now
  BY HistoryAssumption DEF Clocks
<1>2. CASE cur = EmptyCursor
  BY <1>1, <1>2 DEF authoredPRBackfillBoundary, EmptyCursor, NoTime, Epoch
<1>3. CASE IsCursor(cur, now) /\ cur # EmptyCursor
  <2>1. /\ cur.backfillBeforeAt \in Int /\ cur.backfillBeforeAt >= -1
        /\ (cur.bootstrapComplete => cur.backfillBeforeAt = -1)
    BY <1>3 DEF IsCursor, Epoch
  <2>2. authoredPRBackfillBoundary(cur, oldest) = cur.backfillBeforeAt
    BY <2>1 DEF authoredPRBackfillBoundary, NoTime, Epoch
  <2> QED
    BY <1>3, <2>1, <2>2 DEF Epoch
<1> QED
  BY <1>2, <1>3

\* The stored cursor is nearer to the epoch than the one the sync began with,
\* unless recent work filled its selection.
Advances(base, next, full) ==
  base # EmptyCursor =>
     \/ next.backfillBeforeAt < base.backfillBeforeAt
     \/ next.bootstrapComplete /\ next.backfillBeforeAt = Epoch - 1
     \/ full /\ next.backfillBeforeAt = base.backfillBeforeAt

\* What a sync finds is all that its next cursor passes, but for what an
\* earlier sync answers for.
Passes(found, view, cur) ==
  \A p \in view : found.next.backfillBeforeAt < Created[p] =>
     \/ p \in ToSet(found.targets) \cup found.cut
     \/ /\ cur # EmptyCursor /\ cur.backfillBeforeAt < Created[p]
        /\ Created[p] <= Start \/ (cur.lastSyncedAt # NoTime /\ Created[p] <= cur.lastSyncedAt)

\* What fetchAuthoredPullRequestTargets returns for a cursor.
IsFetched(found, view, cur) ==
  /\ found.base = cur
  /\ found.targets \in Seq(PRs) /\ found.cut \subseteq view
  /\ found.next \in Cursors /\ found.unsure \in BOOLEAN
  /\ IsCursor(found.next, now) /\ found.next.lastSyncedAt = now
  /\ Advances(cur, found.next, Len(found.targets) = maxTargets)
  /\ Passes(found, view, cur)

\* It does, for any cursor the database can hold.
LEMMA FetchHolds ==
  ASSUME Clocks, NEW view, IsView(view), NEW flaky,
         NEW cur, cur = EmptyCursor \/ IsCursor(cur, now)
  PROVE  IsFetched(fetchAuthoredPullRequestTargets(view, flaky, cur), view, cur)
<1> DEFINE seed  == RecentSeed(view, flaky)
           newer == Newer(view, flaky, cur, seed)
           b     == authoredPRBackfillBoundary(cur, newer.oldest)
           done  == cur.bootstrapComplete
           back  == Backfill(view, flaky, newer, b, done)
           final == BroadFallback(view, Rescan(view, flaky, back.sel))
           found == fetchAuthoredPullRequestTargets(view, flaky, cur)
           moved == IF back.moved # NoTime THEN back.moved ELSE cur.backfillBeforeAt
           seen  == Earliest(cur.oldestSeenAt, final.oldest)
           next  == NextCursor(cur, seen, moved, back.complete)
<1>1. /\ found.base = cur /\ found.targets = final.targets /\ found.cut = final.cut
      /\ found.next = next /\ found.unsure = (flaky \/ final.overflow)
  BY DEF fetchAuthoredPullRequestTargets, Selection
<1>2. IsSelection(seed, view) /\ Gapless(seed, view)
  BY SeedHolds
<1> HIDE DEF seed, found
<1>3. IsSelection(newer, view) /\ NewerCovers(newer, view, cur)
  BY <1>2, NewerHolds
<1> HIDE DEF newer
<1>4. newer.oldest \in Nat \cup {NoTime} /\ (newer.oldest = NoTime <=> newer.targets = <<>>)
  BY <1>3 DEF IsSelection
<1>5. /\ b \in Int /\ b >= Epoch - 1
      /\ (cur.backfillBeforeAt # NoTime => b = cur.backfillBeforeAt)
      /\ (cur = EmptyCursor =>
            b = IF newer.oldest # NoTime THEN newer.oldest - 1 ELSE now - BootstrapLookback)
  BY <1>4, BoundaryHolds
<1>6. view \in SUBSET PRs /\ updated \in [PRs -> Nat] /\ now \in Nat
  BY DEF IsView, Clocks
<1> HIDE DEF b
<1>7. IsBackfill(back, view, newer, b, done) /\ HasStarted(back, newer, b)
  BY <1>3, <1>5, <1>6, BackfillHolds
<1> HIDE DEF back
<1>8. /\ IsSelection(back.sel, view) /\ Reached(newer) \subseteq Reached(back.sel)
      /\ back.before \in Int /\ back.before <= b /\ back.before >= -1
      /\ \A p \in view : back.before < Created[p] /\ Created[p] <= b => p \in Reached(back.sel)
  BY <1>7 DEF IsBackfill, Epoch
<1>9. \/ back.moved = back.before /\ back.before < b /\ (back.complete => back.before < 0)
      \/ /\ back.moved = NoTime /\ back.sel = newer /\ back.before = b
         /\ (back.complete => done \/ b < 0)
         /\ Room(newer) <= 0 \/ (b < 0 /\ back.complete)
  <2>1. back.before # NoTime
    BY <1>8 DEF NoTime
  <2> QED
    BY <1>7, <2>1 DEF IsBackfill, HasStarted, Epoch
<1>10. /\ IsSelection(final, view) /\ Reached(back.sel) \subseteq Reached(final)
       /\ (back.sel.targets # <<>> => final = back.sel)
  BY <1>8, LastResorts
<1> HIDE DEF final
<1>11. final.targets \in Seq(PRs) /\ final.cut \subseteq view /\ final.oldest \in Nat \cup {NoTime}
  BY <1>10 DEF IsSelection
<1>12. /\ cur.oldestSeenAt \in Nat \cup {NoTime}
       /\ (cur = EmptyCursor => cur.oldestSeenAt = NoTime /\ cur.backfillBeforeAt = NoTime /\ ~done)
       /\ (cur # EmptyCursor => /\ cur.backfillBeforeAt \in Int /\ cur.backfillBeforeAt >= -1
                                /\ (done => cur.backfillBeforeAt = -1))
  BY DEF EmptyCursor, IsCursor, Epoch
<1>13. seen \in Nat \cup {NoTime} /\ (cur = EmptyCursor => seen = final.oldest)
  <2>1. seen \in Nat \cup {NoTime}
    BY <1>11, <1>12, EarliestHolds
  <2>2. cur.oldestSeenAt = NoTime => seen = final.oldest
    BY DEF Earliest
  <2> QED
    BY <1>12, <2>1, <2>2
<1> HIDE DEF seen
\* A first selection that leaves its boundary is not empty.
<1>14. ASSUME back.moved = NoTime, cur = EmptyCursor
       PROVE  /\ newer.oldest # NoTime /\ newer.oldest \in Nat /\ b = newer.oldest - 1
              /\ final = newer /\ seen = newer.oldest
  <2>1. Room(newer) <= 0 \/ b < 0
    <3>1. back.moved # back.before
      BY <1>8, <1>14 DEF NoTime
    <3> QED
      BY <1>9, <3>1
  <2>2. Room(newer) <= 0 => newer.targets # <<>>
    BY <1>3, RoomIsNumber
  <2>3. BootstrapLookback \in Nat /\ BootstrapLookback <= now
    BY HistoryAssumption DEF Clocks
  <2>4. newer.oldest # NoTime
    BY <1>4, <1>5, <1>6, <1>14, <2>1, <2>2, <2>3
  <2>5. back.sel = newer
    <3>1. back.moved # back.before
      BY <1>8, <1>14 DEF NoTime
    <3> QED
      BY <1>9, <3>1
  <2>6. final = newer
    BY <1>4, <1>10, <2>4, <2>5
  <2> QED
    BY <1>4, <1>5, <1>13, <1>14, <2>4, <2>6
\* Where the next backfill begins.
<1>15. /\ next.backfillBeforeAt = back.before /\ next.backfillBeforeAt \in Int
       /\ (next.bootstrapComplete <=> back.complete \/ back.before < 0)
       /\ next.lastSyncedAt = now /\ next.oldestSeenAt = seen
  <2> DEFINE before == IF moved = NoTime /\ seen # NoTime THEN seen - 1 ELSE moved
  <2>1. /\ next.backfillBeforeAt = before /\ next.lastSyncedAt = now /\ next.oldestSeenAt = seen
        /\ next.bootstrapComplete = (back.complete \/ (before # NoTime /\ before < Epoch))
    BY DEF NextCursor
  <2>2. before = back.before
    <3>1. CASE back.moved # NoTime
      <4>1. back.moved = back.before
        BY <1>9, <3>1
      <4> QED
        BY <3>1, <4>1
    <3>2. CASE back.moved = NoTime /\ cur = EmptyCursor
      <4>1. moved = NoTime
        BY <1>12, <3>2
      <4>2. back.before = b
        BY <1>8, <1>9, <3>2 DEF NoTime
      <4> QED
        BY <1>14, <3>2, <4>1, <4>2
    <3>3. CASE back.moved = NoTime /\ cur # EmptyCursor
      <4>1. moved = cur.backfillBeforeAt /\ moved # NoTime
        BY <1>12, <3>3 DEF NoTime
      <4>2. back.before = b
        BY <1>8, <1>9, <3>3 DEF NoTime
      <4> QED
        BY <1>5, <4>1, <4>2
    <3> QED
      BY <3>1, <3>2, <3>3
  <2> HIDE DEF before, next
  <2>3. before # NoTime
    BY <1>8, <2>2 DEF NoTime
  <2> QED
    BY <1>8, <2>1, <2>2, <2>3 DEF Epoch
<1>16. next.bootstrapComplete \in BOOLEAN
  BY DEF NextCursor
<1>21. next = [lastSyncedAt |-> next.lastSyncedAt, oldestSeenAt |-> next.oldestSeenAt,
               backfillBeforeAt |-> next.backfillBeforeAt,
               bootstrapComplete |-> next.bootstrapComplete]
  BY DEF NextCursor
<1> HIDE DEF next
<1>17. back.complete => back.before = -1
  <2>0. done => b = -1
    BY <1>5, <1>12 DEF NoTime
  <2>1. back.complete => back.before < 0
    BY <1>9, <2>0
  <2> QED
    BY <1>8, <2>1
<1>18. IsCursor(next, now)
  <2>1. next.bootstrapComplete => next.backfillBeforeAt = -1
    BY <1>8, <1>15, <1>17
  <2> QED
    BY <1>6, <1>8, <1>13, <1>15, <1>16, <2>1 DEF IsCursor, Epoch
<1>19. Advances(cur, next, Len(final.targets) = maxTargets)
  <2> SUFFICES ASSUME cur # EmptyCursor
               PROVE  \/ next.backfillBeforeAt < cur.backfillBeforeAt
                      \/ next.bootstrapComplete /\ next.backfillBeforeAt = Epoch - 1
                      \/ /\ Len(final.targets) = maxTargets
                         /\ next.backfillBeforeAt = cur.backfillBeforeAt
    BY DEF Advances
  <2>1. b = cur.backfillBeforeAt
    BY <1>5, <1>12 DEF NoTime
  <2>2. CASE back.before < b
    BY <1>15, <2>1, <2>2
  <2>3. CASE ~(back.before < b)
    <3>1. back.before = b /\ back.sel = newer /\ (Room(newer) <= 0 \/ (b < 0 /\ back.complete))
      BY <1>9, <2>3
    <3>2. CASE b < 0 /\ back.complete
      BY <1>15, <1>17, <3>2 DEF Epoch
    <3>3. CASE Room(newer) <= 0
      <4>1. newer.targets # <<>> /\ Len(newer.targets) = maxTargets
        BY <1>3, <3>3, RoomIsNumber
      <4>2. final = newer
        BY <1>10, <3>1, <4>1
      <4> QED
        BY <1>15, <2>1, <3>1, <4>1, <4>2
    <3> QED
      BY <3>1, <3>2, <3>3
  <2> QED
    BY <2>2, <2>3
<1>20. Passes(found, view, cur)
  <2> SUFFICES ASSUME NEW p \in view, back.before < Created[p]
               PROVE  \/ p \in Reached(final)
                      \/ /\ cur # EmptyCursor /\ cur.backfillBeforeAt < Created[p]
                         /\ \/ Created[p] <= Start
                            \/ cur.lastSyncedAt # NoTime /\ Created[p] <= cur.lastSyncedAt
    BY <1>1, <1>15 DEF Passes, Reached
  <2>1. Created[p] \in Nat
    BY <1>6, HistoryAssumption
  <2>2. NewerCovers(newer, view, cur)
    BY <1>3
  <2>3. Reached(newer) \subseteq Reached(final) /\ Reached(back.sel) \subseteq Reached(final)
    BY <1>8, <1>10
  <2>4. CASE Created[p] <= b
    BY <1>8, <2>3, <2>4
  <2>5. CASE b < Created[p] /\ cur # EmptyCursor
    <3>1. cur.backfillBeforeAt # NoTime /\ b = cur.backfillBeforeAt
      BY <1>5, <1>12, <2>5 DEF NoTime
    <3>2. \/ p \in Reached(newer) \/ Created[p] <= Start
          \/ cur.lastSyncedAt # NoTime /\ Created[p] <= cur.lastSyncedAt
      BY <2>2, <3>1 DEF NewerCovers
    <3> QED
      BY <2>3, <2>5, <3>1, <3>2
  <2>6. CASE b < Created[p] /\ cur = EmptyCursor
    <3>1. CASE newer.oldest # NoTime
      <4>1. newer.oldest \in Nat /\ b = newer.oldest - 1
        BY <1>4, <1>5, <2>6, <3>1
      <4>2. Created[p] >= newer.oldest
        BY <2>1, <2>6, <4>1
      <4> QED
        BY <1>12, <2>2, <2>3, <2>6, <3>1, <4>2 DEF NewerCovers, Gapless, GaplessBut
    <3>2. CASE newer.oldest = NoTime
      <4>1. b = now - BootstrapLookback /\ IncrementalStart(cur) = b
        BY <1>5, <2>6, <3>2, IncrementalStartIsTime
      <4>2. Created[p] >= IncrementalStart(cur)
        BY <1>5, <2>1, <2>6, <4>1
      <4> QED
        BY <2>2, <2>3, <3>2, <4>2 DEF NewerCovers
    <3> QED
      BY <3>1, <3>2
  <2>7. Created[p] <= b \/ b < Created[p]
    BY <1>5, <2>1
  <2> QED
    BY <2>4, <2>5, <2>6, <2>7
<1>22. next \in Cursors
  BY <1>6, <1>13, <1>15, <1>16, <1>21 DEF Cursors
<1>23. found.unsure \in BOOLEAN
  BY <1>1
<1> QED
  BY <1>1, <1>11, <1>15, <1>18, <1>19, <1>20, <1>22, <1>23 DEF IsFetched, found

----------------------------------------------------------------------------
(* The steps of a sync.                                                  *)

\* The running sync.
Syncs ==
  [pc : {"idle", "hydrate"}, held : Nat \cup {NoTime}, base : Cursors, next : Cursors,
   targets : Seq(PRs), full : BOOLEAN, unsure : BOOLEAN,
   selected : Nat, skipped : Nat, retryable : Nat, denied : BOOLEAN]

\* A sync that hydrates works on what it selected from the stored cursor, or
\* from none, and will store one that is nearer to the epoch.
IsSync ==
  sync.pc = "hydrate" =>
        /\ sync.held \in {NoTime, cursor.lastSyncedAt}
        /\ IsCursor(sync.next, now) /\ Start <= sync.next.lastSyncedAt
        /\ sync.next.lastSyncedAt \in Nat /\ cursor.lastSyncedAt <= sync.next.lastSyncedAt
        /\ Advances(sync.base, sync.next, sync.full)

\* What lies between the boundary of the backfill and the last sync is stored
\* or accounted for: now, and after the sync that goes on.
CursorCovers ==
  cursor # EmptyCursor =>
     \A p \in PRs :
        /\ cursor.backfillBeforeAt < Created[p]
        /\ Created[p] <= Start \/ (cursor.lastSyncedAt # NoTime /\ Created[p] <= cursor.lastSyncedAt)
        => p \in stored \cup missed

SyncCovers ==
  sync.pc = "hydrate" =>
     \A p \in PRs :
        sync.next.backfillBeforeAt < Created[p] /\ Created[p] <= sync.next.lastSyncedAt =>
           p \in stored \cup missed \cup ToSet(sync.targets)

\* Types, and a clock that is past the first sync.
HistoryTypes ==
  /\ Clocks
  /\ stored \subseteq PRs /\ missed \subseteq PRs
  /\ cursor \in Cursors /\ sync \in Syncs
  /\ cursor = EmptyCursor \/ IsCursor(cursor, now)

\* The inductive invariant.
HistoryInv == HistoryTypes /\ IsSync /\ CursorCovers /\ SyncCovers

\* No sync and no cursor are as they should be.
LEMMA NoSyncIsSync == EmptyCursor \in Cursors /\ NoSync \in Syncs /\ NoSync.pc = "idle"
<1>1. EmptyCursor \in Cursors
  BY DEF EmptyCursor, Cursors, NoTime
<1> QED
  BY <1>1 DEF NoSync, Syncs

\* Before the first sync.
LEMMA HistoryInitInv == HistoryInit => HistoryInv
<1> SUFFICES ASSUME HistoryInit PROVE HistoryInv
  OBVIOUS
<1>1. /\ now = Start /\ updated = Created /\ stored = {} /\ missed = {} /\ cursor = EmptyCursor
      /\ sync = NoSync
  BY DEF HistoryInit
<1>2. Start \in Nat /\ Created \in [PRs -> Nat]
  BY HistoryAssumption
<1>3. Clocks
  BY <1>1, <1>2 DEF Clocks
<1>4. cursor \in Cursors /\ sync \in Syncs /\ sync.pc = "idle"
  BY <1>1, NoSyncIsSync
<1> QED
  BY <1>1, <1>3, <1>4 DEF HistoryInv, HistoryTypes, IsSync, CursorCovers, SyncCovers

\* A list of targets can be reversed.
LEMMA ReverseIsSeq == ASSUME NEW s \in Seq(PRs) PROVE Reverse(s) \in Seq(PRs)
<1>1. Len(s) \in Nat /\ \A i \in 1 .. Len(s) : s[i] \in PRs
  BY LenProperties, ElementOfSeq
<1> DEFINE n == Len(s)
<1> HIDE DEF n
<1>2. \A i \in 1 .. n : (n - i) + 1 \in 1 .. n
  BY <1>1 DEF n
<1>3. Reverse(s) = [i \in 1 .. n |-> s[(n - i) + 1]]
  BY DEF Reverse, n
<1>4. Reverse(s) \in [1 .. n -> PRs]
  BY <1>1, <1>2, <1>3 DEF n
<1> QED
  BY <1>1, <1>4, SeqDef DEF n

LEMMA SyncLimitIsPositive == SyncLimit \in Nat /\ SyncLimit > 0
BY HistoryAssumption

\* What is kept of a selection is a list of pull requests.
LEMMA KeptIsSeq ==
  ASSUME NEW targets \in Seq(PRs), NEW complete, NEW seeded
  PROVE  prioritizeAuthoredPullRequestTargets(targets, complete, seeded) \in Seq(PRs)
<1>1. SyncLimit \in Nat /\ SyncLimit > 0
  BY SyncLimitIsPositive
<1> DEFINE quota    == Min({Max({1, SyncLimit \div 3}), SyncLimit - 1})
           recent   == IF seeded \in 1 .. (SyncLimit - quota - 1) THEN seeded
                       ELSE SyncLimit - quota
           historic == SyncLimit - recent
<1>2. quota \in Nat /\ quota <= SyncLimit - 1
  <2> DEFINE m == Max({1, SyncLimit \div 3})
  <2>1. SyncLimit \div 3 \in Int
    BY <1>1
  <2>2. m \in Int /\ m >= 1
    BY <2>1, MaxOfTwo
  <2> HIDE DEF m
  <2>3. SyncLimit - 1 \in Int
    BY <1>1
  <2>4. Min({m, SyncLimit - 1}) = IF m <= SyncLimit - 1 THEN m ELSE SyncLimit - 1
    BY <2>2, <2>3, MinOfTwo
  <2>5. quota = Min({m, SyncLimit - 1})
    BY DEF m
  <2> HIDE DEF quota
  <2> QED
    BY <1>1, <2>2, <2>4, <2>5
<1> HIDE DEF quota
<1>3. recent \in Nat /\ historic \in Nat
  BY <1>1, <1>2
<1>4. prioritizeAuthoredPullRequestTargets(targets, complete, seeded)
        \in {targets, FirstN(targets, SyncLimit),
             FirstN(targets, recent) \o FirstN(Reverse(targets), historic)}
  BY Zenon DEF prioritizeAuthoredPullRequestTargets, quota
<1> HIDE DEF recent, historic
<1>5. FirstN(targets, SyncLimit) \in Seq(PRs) /\ FirstN(targets, recent) \in Seq(PRs)
  BY <1>1, <1>3, FirstNHolds
<1>6. FirstN(Reverse(targets), historic) \in Seq(PRs)
  BY <1>3, ReverseIsSeq, FirstNHolds
<1>7. FirstN(targets, recent) \o FirstN(Reverse(targets), historic) \in Seq(PRs)
  BY <1>5, <1>6, ConcatHolds
<1> QED
  BY <1>4, <1>5, <1>7

\* A sync goes on with what it found from its cursor, or from none.
LEMMA SelectFetches ==
  ASSUME NEW cur, NEW hidden, Select(cur, hidden)
  PROVE  \E c \in {cur, EmptyCursor} :
            Keep(cur, hidden, fetchAuthoredPullRequestTargets(
                                {p \in PRs : Created[p] <= now} \ hidden, hidden # {}, c))
<1> DEFINE F(c) == fetchAuthoredPullRequestTargets(
                     {p \in PRs : Created[p] <= now} \ hidden, hidden # {}, c)
<1>1. Keep(cur, hidden, F(cur)) \/ Keep(cur, hidden, F(EmptyCursor))
  BY Zenon DEF Select
<1> QED
  BY <1>1

\* What of the selection is not hydrated is recorded as missed.
LEMMA KeepHolds ==
  ASSUME NEW cur, NEW hidden \in SUBSET PRs, NEW view, NEW found, NEW c, IsFetched(found, view, c),
         cur \in Cursors, c \in Cursors, view \subseteq PRs, missed \subseteq PRs, Keep(cur, hidden, found)
  PROVE  /\ sync' \in Syncs
         /\ sync'.pc = "hydrate" /\ sync'.held = cur.lastSyncedAt /\ sync'.base = found.base
         /\ sync'.next = found.next /\ sync'.targets \in Seq(PRs)
         /\ (sync'.full <=> Len(found.targets) = maxTargets)
         /\ missed' \subseteq PRs /\ missed \subseteq missed'
         /\ hidden \cup ToSet(found.targets) \cup found.cut
              \subseteq stored \cup missed' \cup ToSet(sync'.targets)
<1> DEFINE kept == prioritizeAuthoredPullRequestTargets(
                     found.targets, found.next.bootstrapComplete, found.seeded)
           full == Len(found.targets) = maxTargets
<1>1. /\ found.targets \in Seq(PRs) /\ found.cut \subseteq PRs /\ found.base = c
      /\ found.next \in Cursors /\ found.unsure \in BOOLEAN
  BY DEF IsFetched
<1>2. kept \in Seq(PRs)
  BY <1>1, KeptIsSeq
<1>3. ToSet(found.targets) \subseteq PRs
  BY <1>1, ElementOfSeq, LenProperties DEF ToSet
<1>4. missed' = missed \cup (hidden \ stored)
                  \cup ((ToSet(found.targets) \cup found.cut) \ (ToSet(kept) \cup stored))
  BY Zenon DEF Keep
<1>5. sync' = [NoSync EXCEPT !.pc = "hydrate", !.held = cur.lastSyncedAt,
                  !.base = found.base, !.next = found.next, !.targets = kept,
                  !.selected = Len(kept), !.unsure = found.unsure,
                  !.full = full]
  BY Zenon DEF Keep
<1>7. full \in BOOLEAN
  OBVIOUS
<1> HIDE DEF kept, full
<1>8. cur.lastSyncedAt \in Nat \cup {NoTime} /\ Len(kept) \in Nat
  BY <1>2, LenProperties DEF Cursors
<1>9. sync' \in Syncs
  BY <1>1, <1>2, <1>5, <1>7, <1>8, NoSyncIsSync DEF Syncs
<1>6. /\ sync'.pc = "hydrate" /\ sync'.held = cur.lastSyncedAt /\ sync'.base = found.base
      /\ sync'.next = found.next /\ sync'.targets = kept /\ sync'.full = full
  BY <1>5 DEF NoSync
<1> QED
  BY <1>1, <1>2, <1>3, <1>4, <1>6, <1>9 DEF full

\* The sync that begins covers what its next cursor passes.
LEMMA SelectInv ==
  ASSUME HistoryInv, sync.pc = "idle", NEW cur \in {cursor, EmptyCursor},
         NEW hidden \in SUBSET PRs, \A p \in hidden : Created[p] <= now,
         Select(cur, hidden), UNCHANGED <<now, updated, stored, cursor>>
  PROVE  HistoryInv'
<1> DEFINE view == {p \in PRs : Created[p] <= now} \ hidden
<1>1. PICK c \in {cur, EmptyCursor} :
         Keep(cur, hidden, fetchAuthoredPullRequestTargets(view, hidden # {}, c))
  BY SelectFetches
<1> DEFINE found == fetchAuthoredPullRequestTargets(view, hidden # {}, c)
<1>2. /\ Clocks /\ stored \subseteq PRs /\ missed \subseteq PRs
      /\ cursor = EmptyCursor \/ IsCursor(cursor, now)
  BY DEF HistoryInv, HistoryTypes
<1>3. IsView(view)
  BY DEF IsView
<1>4. \A p \in PRs : Created[p] <= now => p \in view \cup hidden
  OBVIOUS
<1> HIDE DEF view
<1>5. IsFetched(found, view, c)
  BY <1>2, <1>3, FetchHolds
<1>6. Keep(cur, hidden, found)
  BY <1>1
<1>17. cur \in Cursors /\ c \in Cursors
  BY <1>1, NoSyncIsSync DEF HistoryInv, HistoryTypes
<1> HIDE DEF found
<1>7. /\ sync' \in Syncs
      /\ sync'.pc = "hydrate" /\ sync'.held = cur.lastSyncedAt /\ sync'.base = found.base
      /\ sync'.next = found.next /\ sync'.targets \in Seq(PRs)
      /\ (sync'.full <=> Len(found.targets) = maxTargets)
      /\ missed' \subseteq PRs /\ missed \subseteq missed'
      /\ hidden \cup ToSet(found.targets) \cup found.cut
           \subseteq stored \cup missed' \cup ToSet(sync'.targets)
  BY <1>2, <1>3, <1>5, <1>6, <1>17, KeepHolds DEF IsView
<1>8. /\ found.base = c /\ IsCursor(found.next, now) /\ found.next.lastSyncedAt = now
      /\ Advances(c, found.next, Len(found.targets) = maxTargets)
  BY <1>5 DEF IsFetched
<1>9. now \in Nat /\ Start <= now /\ Start \in Nat
  BY <1>2, HistoryAssumption DEF Clocks
<1>10. cursor.lastSyncedAt <= now /\ EmptyCursor.lastSyncedAt = NoTime
  BY <1>2, <1>9 DEF IsCursor, EmptyCursor, NoTime
<1>11. HistoryTypes'
  BY <1>2, <1>7 DEF HistoryInv, HistoryTypes, Clocks, IsCursor, Cursors, Syncs
<1>12. Advances(sync'.base, sync'.next, sync'.full)
  BY <1>7, <1>8 DEF Advances
<1>13. IsSync'
  BY <1>7, <1>8, <1>9, <1>10, <1>12 DEF IsSync, IsCursor, Advances
<1>14. CursorCovers'
  BY <1>7 DEF HistoryInv, CursorCovers
<1>15. ASSUME NEW p \in PRs,
              found.next.backfillBeforeAt < Created[p], Created[p] <= now
       PROVE  p \in stored \cup missed' \cup ToSet(sync'.targets)
  <2>1. CASE p \in hidden
    BY <1>7, <2>1
  <2>2. CASE p \in view
    <3>1. \/ p \in ToSet(found.targets) \cup found.cut
          \/ /\ c # EmptyCursor /\ c.backfillBeforeAt < Created[p]
             /\ Created[p] <= Start \/ (c.lastSyncedAt # NoTime /\ Created[p] <= c.lastSyncedAt)
      BY <1>5, <1>15, <2>2 DEF IsFetched, Passes
    <3>2. c # EmptyCursor => c = cursor
      BY <1>1
    <3>3. \/ p \in ToSet(found.targets) \cup found.cut
          \/ p \in stored \cup missed
      BY <1>15, <3>1, <3>2 DEF HistoryInv, CursorCovers
    <3> QED
      BY <1>7, <3>3
  <2> QED
    BY <1>4, <1>15, <2>1, <2>2
<1>16. SyncCovers'
  BY <1>7, <1>8, <1>15 DEF SyncCovers
<1> QED
  BY <1>11, <1>13, <1>14, <1>16 DEF HistoryInv

\* Each step in turn.
LEMMA StartSyncInv == HistoryInv /\ StartSync => HistoryInv'
<1> SUFFICES ASSUME HistoryInv, StartSync PROVE HistoryInv'
  OBVIOUS
<1>1. sync.pc = "idle" /\ UNCHANGED <<now, updated, stored, cursor>>
  BY Zenon DEF StartSync
<1>2. now \in Nat
  BY DEF HistoryInv, HistoryTypes, Clocks
<1>3. CASE Select(cursor, {})
  BY <1>1, <1>3, SelectInv
<1>4. CASE Select(EmptyCursor, {})
  BY <1>1, <1>4, SelectInv
<1>5. CASE \E p \in PRs : Created[p] <= now /\ Select(cursor, {p})
  <2>1. PICK p \in PRs : Created[p] <= now /\ Select(cursor, {p})
    BY <1>5
  <2>2. {p} \in SUBSET PRs /\ \A q \in {p} : Created[q] <= now
    BY <2>1
  <2> QED
    BY <1>1, <2>1, <2>2, SelectInv
<1>6. Select(cursor, {}) \/ Select(EmptyCursor, {}) \/ \E p \in PRs : Created[p] <= now /\ Select(cursor, {p})
  BY Zenon DEF StartSync
<1> QED
  BY <1>3, <1>4, <1>5, <1>6

\* One target less, stored or accounted for.
LEMMA TargetDone ==
  ASSUME HistoryInv, sync.pc = "hydrate", sync.targets # <<>>,
         sync'.pc = sync.pc, sync'.held = sync.held, sync'.base = sync.base,
         sync' \in Syncs, sync'.next = sync.next, sync'.full = sync.full,
         sync'.targets = Tail(sync.targets),
         UNCHANGED <<now, updated, cursor>>,
         stored \subseteq stored', stored' \subseteq stored \cup {Target},
         missed' \subseteq missed \cup {Target},
         stored \cup missed \cup {Target} \subseteq stored' \cup missed'
  PROVE  HistoryInv'
<1>1. sync.targets \in Seq(PRs)
  BY DEF HistoryInv, HistoryTypes, Syncs
<1>2. /\ Target \in PRs /\ Tail(sync.targets) \in Seq(PRs)
      /\ ToSet(sync.targets) \subseteq {Target} \cup ToSet(Tail(sync.targets))
  <2> DEFINE s == sync.targets
             t == Tail(s)
             n == Len(s)
  <2>1. n \in Nat /\ n # 0
    BY <1>1, LenProperties, EmptySeq
  <2>2. /\ s[1] \in PRs /\ Head(s) = s[1] /\ t \in Seq(PRs) /\ Len(t) = n - 1
        /\ \A i \in 1 .. Len(t) : t[i] = s[i + 1]
    BY <1>1, <2>1, HeadTailProperties, ElementOfSeq
  <2>3. DOMAIN s = 1 .. n /\ DOMAIN t = 1 .. (n - 1)
    BY <1>1, <2>2, LenProperties
  <2> HIDE DEF n, t, s
  <2>4. ASSUME NEW i \in 1 .. n PROVE s[i] \in {Head(s)} \cup ToSet(t)
    <3>1. CASE i = 1
      BY <2>2, <3>1
    <3>2. CASE i # 1
      <4>1. i - 1 \in 1 .. (n - 1) /\ (i - 1) + 1 = i
        BY <2>1, <3>2
      <4>2. t[i - 1] = s[i]
        BY <2>1, <2>2, <4>1
      <4> QED
        BY <2>3, <4>1, <4>2 DEF ToSet
    <3> QED
      BY <3>1, <3>2
  <2>5. ToSet(s) \subseteq {Head(s)} \cup ToSet(t)
    BY <2>3, <2>4 DEF ToSet
  <2> QED
    BY <2>2, <2>5 DEF Target, t, s
<1>3. HistoryTypes'
  BY <1>2 DEF HistoryInv, HistoryTypes, Clocks, IsCursor
<1>4. IsSync'
  BY <1>2 DEF HistoryInv, IsSync, IsCursor, Advances
<1>5. CursorCovers'
  BY DEF HistoryInv, CursorCovers
<1>6. SyncCovers'
  BY <1>2 DEF HistoryInv, SyncCovers
<1> QED
  BY <1>3, <1>4, <1>5, <1>6 DEF HistoryInv

LEMMA HydrateInv == HistoryInv /\ Hydrate => HistoryInv'
<1> SUFFICES ASSUME HistoryInv, Hydrate PROVE HistoryInv'
  OBVIOUS
<1>1. /\ sync.pc = "hydrate" /\ sync.targets # <<>>
      /\ sync' = [sync EXCEPT !.targets = Tail(sync.targets)]
      /\ stored' = stored \cup {Target} /\ missed' = missed \ {Target}
      /\ UNCHANGED <<now, updated, cursor>>
  BY DEF Hydrate
<1>2. sync \in Syncs
  BY DEF HistoryInv, HistoryTypes
<1> DEFINE t == Tail(sync.targets)
<1>3. t \in Seq(PRs)
  BY <1>1, <1>2, HeadTailProperties DEF Syncs
<1>4. sync' = [sync EXCEPT !.targets = t]
  BY <1>1
<1> HIDE DEF t
<1>5. /\ sync' \in Syncs /\ sync'.pc = sync.pc /\ sync'.held = sync.held
      /\ sync'.base = sync.base /\ sync'.next = sync.next /\ sync'.full = sync.full
      /\ sync'.targets = t
  BY <1>2, <1>3, <1>4 DEF Syncs
<1> QED
  BY <1>1, <1>5, TargetDone DEF t

LEMMA SkipTargetInv == HistoryInv /\ SkipTarget => HistoryInv'
<1> SUFFICES ASSUME HistoryInv, SkipTarget PROVE HistoryInv'
  OBVIOUS
<1>1. /\ sync.pc = "hydrate" /\ sync.targets # <<>>
      /\ missed' = missed \cup ({Target} \ stored)
      /\ UNCHANGED <<now, updated, stored, cursor>>
  BY DEF SkipTarget
<1>2. sync \in Syncs
  BY DEF HistoryInv, HistoryTypes
<1> DEFINE t == Tail(sync.targets)
<1>3. PICK kind \in {"denied", "retryable", "other"} :
         sync' = [sync EXCEPT !.targets = t, !.skipped = sync.skipped + 1,
                              !.denied = sync.denied \/ kind = "denied",
                              !.retryable = IF kind = "retryable" THEN sync.retryable + 1
                                            ELSE sync.retryable]
  BY DEF SkipTarget
<1>4. t \in Seq(PRs)
  BY <1>1, <1>2, HeadTailProperties DEF Syncs
<1> DEFINE d == sync.denied \/ kind = "denied"
           k == sync.skipped + 1
           r == IF kind = "retryable" THEN sync.retryable + 1 ELSE sync.retryable
<1>5. d \in BOOLEAN /\ k \in Nat /\ r \in Nat
  BY <1>2 DEF Syncs
<1>6. sync' = [sync EXCEPT !.targets = t, !.skipped = k, !.denied = d, !.retryable = r]
  BY <1>3
<1> HIDE DEF t, d, k, r
<1>7. /\ sync' \in Syncs /\ sync'.pc = sync.pc /\ sync'.held = sync.held
      /\ sync'.base = sync.base /\ sync'.next = sync.next /\ sync'.full = sync.full
      /\ sync'.targets = t
  BY <1>2, <1>4, <1>5, <1>6 DEF Syncs
<1> QED
  BY <1>1, <1>7, TargetDone DEF t

\* What a sync stores as the cursor of the user.
LEMMA CursorMoves ==
  ASSUME HistoryInv, sync.pc = "hydrate", FinishSync, cursor' # cursor
  PROVE  /\ cursor' \in Cursors
         /\ cursor'.backfillBeforeAt = sync.next.backfillBeforeAt
         /\ cursor'.bootstrapComplete = sync.next.bootstrapComplete
         /\ cursor'.lastSyncedAt \in {sync.next.lastSyncedAt, cursor.lastSyncedAt}
<1> DEFINE next == IF shouldAdvanceAuthoredPRLastSynced THEN sync.next
                   ELSE [sync.next EXCEPT !.lastSyncedAt = sync.held]
           Kept(new, old) == IF new = NoTime THEN old ELSE new
<1>1. UpsertAuthoredPRHistoryCursor(next)
  BY Zenon DEF FinishSync
<1>2. /\ sync.next \in Cursors /\ cursor \in Cursors /\ sync \in Syncs
      /\ IsCursor(sync.next, now) /\ sync.held \in {NoTime, cursor.lastSyncedAt}
  BY DEF HistoryInv, HistoryTypes, IsSync, Syncs
<1>3. /\ next \in Cursors
      /\ next.backfillBeforeAt = sync.next.backfillBeforeAt
      /\ next.bootstrapComplete = sync.next.bootstrapComplete
      /\ next.lastSyncedAt \in {sync.next.lastSyncedAt, NoTime, cursor.lastSyncedAt}
  BY <1>2 DEF Cursors, Syncs
<1> HIDE DEF next
<1>4. cursor' = [lastSyncedAt |-> Kept(next.lastSyncedAt, cursor.lastSyncedAt),
                 oldestSeenAt |-> Kept(next.oldestSeenAt, cursor.oldestSeenAt),
                 backfillBeforeAt |-> Kept(next.backfillBeforeAt, cursor.backfillBeforeAt),
                 bootstrapComplete |-> next.bootstrapComplete]
  BY <1>1 DEF UpsertAuthoredPRHistoryCursor
<1>5. next.backfillBeforeAt # NoTime
  BY <1>2, <1>3 DEF IsCursor, Epoch, NoTime
<1> QED
  BY <1>2, <1>3, <1>4, <1>5 DEF Cursors

LEMMA FinishSyncInv == HistoryInv /\ FinishSync => HistoryInv'
<1> SUFFICES ASSUME HistoryInv, FinishSync PROVE HistoryInv'
  OBVIOUS
<1>1. /\ sync.pc = "hydrate" /\ sync.targets = <<>> /\ sync' = NoSync
      /\ UNCHANGED <<now, updated, stored, missed>>
  BY Zenon DEF FinishSync
<1>2. sync' \in Syncs /\ sync'.pc = "idle"
  BY <1>1, NoSyncIsSync
<1>3. IsSync' /\ SyncCovers'
  BY <1>2 DEF IsSync, SyncCovers
<1>4. CASE cursor' = cursor
  <2>1. HistoryTypes'
    BY <1>1, <1>2, <1>4 DEF HistoryInv, HistoryTypes, Clocks, IsCursor
  <2>2. CursorCovers'
    BY <1>1, <1>4 DEF HistoryInv, CursorCovers
  <2> QED
    BY <1>3, <2>1, <2>2 DEF HistoryInv
<1>5. CASE cursor' # cursor
  <2>1. /\ cursor' \in Cursors
        /\ cursor'.backfillBeforeAt = sync.next.backfillBeforeAt
        /\ cursor'.bootstrapComplete = sync.next.bootstrapComplete
        /\ cursor'.lastSyncedAt \in {sync.next.lastSyncedAt, cursor.lastSyncedAt}
    BY <1>1, <1>5, CursorMoves
  <2>2. /\ IsCursor(sync.next, now) /\ Start <= sync.next.lastSyncedAt
        /\ sync.next.lastSyncedAt \in Nat /\ cursor.lastSyncedAt <= sync.next.lastSyncedAt
        /\ now \in Nat /\ Start \in Nat /\ cursor.lastSyncedAt \in Nat \cup {NoTime}
    BY <1>1, HistoryAssumption DEF HistoryInv, HistoryTypes, Clocks, IsSync, Cursors
  <2>3. sync.next.lastSyncedAt <= now /\ cursor.lastSyncedAt <= now
    BY <2>2 DEF IsCursor, NoTime
  <2>4. IsCursor(cursor', now)
    BY <2>1, <2>2, <2>3 DEF IsCursor, Cursors
  <2>5. HistoryTypes'
    BY <1>1, <1>2, <2>1, <2>4 DEF HistoryInv, HistoryTypes, Clocks, IsCursor
  <2>6. ASSUME NEW p \in PRs, sync.next.backfillBeforeAt < Created[p],
               \/ Created[p] <= Start
               \/ cursor'.lastSyncedAt # NoTime /\ Created[p] <= cursor'.lastSyncedAt
        PROVE  p \in stored \cup missed
    <3>1. Created[p] \in Nat
      BY HistoryAssumption
    <3>2. Created[p] <= sync.next.lastSyncedAt
      BY <2>1, <2>2, <2>6, <3>1 DEF NoTime
    <3>3. p \in stored \cup missed \cup ToSet(sync.targets)
      BY <1>1, <2>6, <3>2 DEF HistoryInv, SyncCovers
    <3>4. ToSet(sync.targets) = {}
      BY <1>1 DEF ToSet
    <3> QED
      BY <3>3, <3>4
  <2>7. CursorCovers'
    BY <1>1, <2>1, <2>6 DEF CursorCovers
  <2> QED
    BY <1>3, <2>5, <2>7 DEF HistoryInv
<1> QED
  BY <1>4, <1>5

LEMMA PodDiesInv == HistoryInv /\ PodDies => HistoryInv'
<1> SUFFICES ASSUME HistoryInv, PodDies PROVE HistoryInv'
  OBVIOUS
<1>1. sync' = NoSync /\ UNCHANGED <<now, updated, stored, cursor, missed>>
  BY Zenon DEF PodDies
<1>2. sync' \in Syncs /\ sync'.pc = "idle"
  BY <1>1, NoSyncIsSync
<1>3. HistoryTypes'
  BY <1>1, <1>2 DEF HistoryInv, HistoryTypes, Clocks, IsCursor
<1>4. IsSync' /\ SyncCovers' /\ CursorCovers'
  BY <1>1, <1>2 DEF HistoryInv, IsSync, SyncCovers, CursorCovers
<1> QED
  BY <1>3, <1>4 DEF HistoryInv

LEMMA HistoryTickInv == HistoryInv /\ HistoryTick => HistoryInv'
<1> SUFFICES ASSUME HistoryInv, HistoryTick PROVE HistoryInv'
  OBVIOUS
<1>1. now' = now + 1 /\ UNCHANGED <<updated, stored, cursor, sync, missed>>
  BY Zenon DEF HistoryTick
<1>2. now \in Nat /\ Start <= now /\ Start \in Nat
  BY HistoryAssumption DEF HistoryInv, HistoryTypes, Clocks
<1>3. Clocks'
  BY <1>1, <1>2 DEF HistoryInv, HistoryTypes, Clocks
<1>4. ASSUME NEW c \in Cursors, IsCursor(c, now) PROVE IsCursor(c, now')
  BY <1>1, <1>2, <1>4 DEF IsCursor, Cursors, NoTime
<1>5. HistoryTypes'
  BY <1>1, <1>3, <1>4 DEF HistoryInv, HistoryTypes
<1>6. IsSync'
  BY <1>1, <1>4 DEF HistoryInv, HistoryTypes, IsSync, Syncs, Advances
<1>7. CursorCovers' /\ SyncCovers'
  BY <1>1 DEF HistoryInv, CursorCovers, SyncCovers
<1> QED
  BY <1>5, <1>6, <1>7 DEF HistoryInv

LEMMA TouchInv == ASSUME NEW p \in PRs PROVE HistoryInv /\ Touch(p) => HistoryInv'
<1> SUFFICES ASSUME HistoryInv, Touch(p) PROVE HistoryInv'
  OBVIOUS
<1>1. /\ updated[p] < now /\ updated' = [updated EXCEPT ![p] = now]
      /\ UNCHANGED <<now, stored, cursor, sync, missed>>
  BY Zenon DEF Touch
<1>2. now \in Nat /\ Clocks
  BY DEF HistoryInv, HistoryTypes, Clocks
<1>3. Created \in [PRs -> Nat]
  BY HistoryAssumption
<1>4. Clocks'
  BY <1>1, <1>2, <1>3 DEF Clocks, Touch
<1>5. HistoryTypes'
  BY <1>1, <1>4 DEF HistoryInv, HistoryTypes, IsCursor
<1>6. IsSync'
  BY <1>1 DEF HistoryInv, IsSync, IsCursor, Advances
<1>7. CursorCovers' /\ SyncCovers'
  BY <1>1 DEF HistoryInv, CursorCovers, SyncCovers
<1> QED
  BY <1>5, <1>6, <1>7 DEF HistoryInv

LEMMA HistoryNextInv == HistoryInv /\ [HistoryNext]_historyVars => HistoryInv'
<1> SUFFICES ASSUME HistoryInv, [HistoryNext]_historyVars PROVE HistoryInv'
  OBVIOUS
<1>1. CASE StartSync
  BY <1>1, StartSyncInv
<1>2. CASE Hydrate
  BY <1>2, HydrateInv
<1>3. CASE SkipTarget
  BY <1>3, SkipTargetInv
<1>4. CASE FinishSync
  BY <1>4, FinishSyncInv
<1>5. CASE PodDies
  BY <1>5, PodDiesInv
<1>6. CASE HistoryTick
  BY <1>6, HistoryTickInv
<1>7. CASE \E p \in PRs : Touch(p)
  BY <1>7, TouchInv
<1>8. CASE UNCHANGED historyVars
  BY <1>8 DEF historyVars, HistoryInv, HistoryTypes, Clocks, IsCursor, IsSync, Advances,
              CursorCovers, SyncCovers
<1> QED
  BY <1>1, <1>2, <1>3, <1>4, <1>5, <1>6, <1>7, <1>8 DEF HistoryNext

\* The inductive invariant always holds: what lies between the boundary of
\* the backfill and the last sync that counted (UpsertAuthoredPRHistoryCursor)
\* is stored, or known to be missed.
THEOREM HistoryAlways == HistorySpec => []HistoryInv
<1>1. HistoryInit => HistoryInv
  BY HistoryInitInv
<1>2. HistoryInv /\ [HistoryNext]_historyVars => HistoryInv'
  BY HistoryNextInv
<1> QED
  BY <1>1, <1>2, PTL DEF HistorySpec

\* The windows of fetchAuthoredPullRequestTargets leave no gap but the known
\* ones, for any pull requests, limits, lookbacks, windows and hard limit of
\* GitHub, however pull requests are touched, and over any crashes, failed
\* hydrations and cursors lost on loading.
THEOREM NothingElseIsMissing == HistorySpec => []NoOtherGap
<1>1. HistoryInv => NoOtherGap
  <2> SUFFICES ASSUME HistoryInv, cursor.bootstrapComplete, NEW p \in PRs,
                      Created[p] <= Max({Start, cursor.lastSyncedAt})
               PROVE  p \in stored \cup missed
    BY DEF NoOtherGap
  <2>1. cursor # EmptyCursor /\ cursor.backfillBeforeAt = -1
    BY DEF HistoryInv, HistoryTypes, EmptyCursor, IsCursor, Epoch
  <2>2. Created[p] \in Nat /\ Start \in Nat
    BY HistoryAssumption
  <2>3. cursor.lastSyncedAt \in Int
    BY DEF HistoryInv, HistoryTypes, Cursors, NoTime
  <2>4. \/ Created[p] <= Start
        \/ cursor.lastSyncedAt # NoTime /\ Created[p] <= cursor.lastSyncedAt
    BY <2>2, <2>3, MaxOfTwo DEF NoTime
  <2>5. cursor.backfillBeforeAt < Created[p]
    BY <2>1, <2>2
  <2> QED
    BY <2>1, <2>4, <2>5 DEF HistoryInv, CursorCovers
<1> QED
  BY <1>1, HistoryAlways, PTL

\* A sync whose cursor is stored has moved the backfill towards the epoch, over
\* any gap in the history, unless recent work filled its selection
\* (fetchAuthoredPullRequestTargets, BackfillBeforeAt).
THEOREM BackfillMovesOn == HistorySpec => BackfillProgress
<1> DEFINE Progress == cursor' # cursor /\ sync.base = cursor /\ cursor # EmptyCursor =>
       \/ cursor'.bootstrapComplete /\ cursor'.backfillBeforeAt = Epoch - 1
       \/ cursor'.backfillBeforeAt < cursor.backfillBeforeAt
       \/ sync.full /\ cursor'.backfillBeforeAt = cursor.backfillBeforeAt
<1>1. HistoryInv /\ [HistoryNext]_historyVars => Progress
  <2> SUFFICES ASSUME HistoryInv, [HistoryNext]_historyVars,
                      cursor' # cursor, sync.base = cursor, cursor # EmptyCursor
               PROVE  \/ cursor'.bootstrapComplete /\ cursor'.backfillBeforeAt = Epoch - 1
                      \/ cursor'.backfillBeforeAt < cursor.backfillBeforeAt
                      \/ sync.full /\ cursor'.backfillBeforeAt = cursor.backfillBeforeAt
    OBVIOUS
  <2>1. FinishSync
    BY Zenon DEF HistoryNext, historyVars, StartSync, Hydrate, SkipTarget, PodDies,
                 HistoryTick, Touch
  <2>2. sync.pc = "hydrate"
    BY Zenon, <2>1 DEF FinishSync
  <2>3. /\ cursor'.backfillBeforeAt = sync.next.backfillBeforeAt
        /\ cursor'.bootstrapComplete = sync.next.bootstrapComplete
    BY <2>1, <2>2, CursorMoves
  <2>4. Advances(sync.base, sync.next, sync.full)
    BY <2>2 DEF HistoryInv, IsSync
  <2> QED
    BY <2>3, <2>4 DEF Advances
<1> QED
  BY <1>1, HistoryAlways, PTL DEF HistorySpec, BackfillProgress
=============================================================================
