---------------------------- MODULE BackfillPlans ---------------------------
(***************************************************************************)
(* The scheduler's recurring backfill plans: replicas tick, run the plans  *)
(* whose cron slot has come and enqueue their targets through the scope    *)
(* rate limiters, while an operator creates, pauses, resumes, deletes and  *)
(* cancels.                                                                *)
(*                                                                         *)
(* In persistent mode every operation runs under the lock of the shared    *)
(* counters row and a failed commit restores what it found; in memory mode *)
(* there is one replica, and a tick holds the mutex only to collect the    *)
(* due plans and to update each of them.  Of the queue this module keeps   *)
(* the active jobs, by dedupe key, each with the run that queued it; of    *)
(* the cron schedule that slots are the multiples of Period.               *)
(***************************************************************************)
EXTENDS Integers, FiniteSets, Sequences

CONSTANTS PlanIds,        \* numbers, in the order of creation
          Targets,        \* [PlanIds -> Seq of target]: a plan's requests
          Jobs,           \* [target -> set of dedupe keys]: BuildSyncJobs
          Scopes,         \* [target -> Seq of limiter keys]: user, installation
          Existing,       \* how many plans there are at the beginning
          UserTargets,    \* targets that users ask for themselves
          Tickers,        \* replicas, and callers of /v1/jobs/tick
          Modes,          \* [mode -> the tickers it has], of the modes
                          \* "memory" and "persistent"
          Window, MaxHits,    \* of the scope rate limiters
          Period,         \* the time between two cron slots
          Lag,            \* how old a tick or an operator's request may be
          MaxOps, MaxClock

\* What CreateBackfillPlan and BuildSyncJobs accept
ASSUME BackfillAssumption ==
    /\ PlanIds \subseteq Nat /\ Existing \in Nat /\ 1 .. Existing \subseteq PlanIds
    /\ \A p \in PlanIds : Targets[p] \in Seq(DOMAIN Jobs)
    /\ \A t \in DOMAIN Jobs : IsFiniteSet(Jobs[t])
    /\ IsFiniteSet(Tickers)
    /\ Period \in Nat \ {0}

VARIABLES mode,
          plans,          \* existing plans, by id
          active,         \* active jobs: [dedupe key -> run]
          hits,           \* limiter windows: [limiter key -> [start, count]]
          counters,       \* tickCounters: executed, queued, dedup, limited
          rowLock,        \* who holds the counters row; the state it found
          tick,           \* every ticker's tick in progress
          gone,           \* totals of the plans that were deleted
          run,            \* the number of the latest run, for correlation ids
          made,           \* how many plans were ever created
          ops, time

state == <<plans, active, hits, counters, gone, run>>
planVars == <<mode, plans, active, hits, counters, rowLock, tick, gone, run, made, ops, time>>

-----------------------------------------------------------------------------
Without(f, S) == [x \in DOMAIN f \ S |-> f[x]]
With(f, x, v) == [y \in DOMAIN f \cup {x} |-> IF y = x THEN v ELSE f[y]]

\* schedule.Next: the first slot after t
NextSlot(t) == (t \div Period + 1) * Period

None == [queued |-> 0, dedup |-> 0, limited |-> 0]

Sum(a, b) == [x \in DOMAIN a |-> a[x] + b[x]]

NoTick == [at |-> "idle", now |-> 0, due |-> << >>, left |-> << >>, run |-> 0,
           part |-> None, total |-> None]

Free == rowLock = << >>

\* A plan that is created disabled has a next run all the same
newBackfillPlan(now, enabled) ==
    [enabled |-> enabled, last |-> 0, next |-> NextSlot(now), resumed |-> FALSE,
     run |-> 0, totals |-> None]

\* Some plans were created when time begins
PlansInit ==
    /\ mode \in DOMAIN Modes
    /\ made = Existing
    /\ plans = [p \in 1 .. made |-> newBackfillPlan(1, TRUE)]
    /\ active = << >> /\ hits = << >>
    /\ counters = None /\ gone = None
    /\ rowLock = << >>
    /\ tick = [p \in Tickers |-> NoTick]
    /\ run = 0 /\ ops = 0 /\ time = 1

\* now.UTC() of a request or of the ticker's buffered tick
Recent == {t \in (time - Lag) .. time : t >= 0}

-----------------------------------------------------------------------------
(* The operator.  In persistent mode a request waits for the row lock.     *)

Operate == /\ mode = "persistent" => Free
           /\ ops < MaxOps
           /\ ops' = ops + 1
           /\ UNCHANGED <<mode, hits, counters, rowLock, tick, run, time>>

CreateBackfillPlan(p, now, enabled) ==
    /\ Operate
    /\ p = made + 1 /\ made' = p
    /\ plans' = With(plans, p, newBackfillPlan(now, enabled))
    /\ UNCHANGED <<active, gone>>

PauseBackfillPlan(p) ==
    /\ Operate
    /\ plans' = [plans EXCEPT ![p] =
                   [plans[p] EXCEPT !.enabled = FALSE, !.next = 0]]
    /\ UNCHANGED <<active, gone, made>>

\* Mutant: resuming computes no next slot.
ResumedWithoutNext(plan, now) == [plan EXCEPT !.enabled = TRUE, !.resumed = TRUE]

\* Also of a plan that is enabled and due: its slot is skipped
Resumed(plan, now) == [plan EXCEPT !.enabled = TRUE, !.next = NextSlot(now), !.resumed = TRUE]

ResumeBackfillPlan(p, now) ==
    /\ Operate
    /\ plans' = [plans EXCEPT ![p] = Resumed(@, now)]
    /\ UNCHANGED <<active, gone, made>>

DeleteBackfillPlan(p) ==
    /\ Operate
    /\ plans' = Without(plans, {p})
    /\ gone' = Sum(gone, plans[p].totals)
    /\ UNCHANGED <<active, made>>

\* The jobs of the latest run; those an earlier run queued stay
CancelBackfillPlanJobs(p) ==
    /\ Operate
    /\ plans[p].run # 0
    /\ active' = Without(active, {k \in DOMAIN active : active[k] = plans[p].run})
    /\ UNCHANGED <<plans, gone, made>>

-----------------------------------------------------------------------------
(* Enqueueing.                                                             *)

\* A new window counts its first request
Allow(h, key, now) ==
    IF key \notin DOMAIN h \/ now - h[key].start >= Window
    THEN [ok |-> TRUE, hits |-> With(h, key, [start |-> now, count |-> 1])]
    ELSE IF h[key].count >= MaxHits THEN [ok |-> FALSE, hits |-> h]
    ELSE [ok |-> TRUE, hits |-> With(h, key, [h[key] EXCEPT !.count = @ + 1])]

\* The user is asked first; an installation that refuses keeps the user's hit
allowScopedRates(h, keys, now) ==
    LET first == Allow(h, keys[1], now)
    IN  IF ~first.ok \/ Len(keys) = 1 THEN first ELSE Allow(first.hits, keys[2], now)

\* One call of enqueueSyncRequest: what it returns and leaves behind
enqueueSyncRequest(target, now, r) ==
    LET rate == allowScopedRates(hits, Scopes[target], now)
        new == Jobs[target] \ DOMAIN active
        size == Cardinality(Jobs[target])
    IN  [hits |-> rate.hits,
         active |-> IF rate.ok THEN [k \in DOMAIN active \cup new |->
                                       IF k \in new THEN r ELSE active[k]] ELSE active,
         part |-> IF ~rate.ok THEN [None EXCEPT !.limited = 1]
                  ELSE IF new = {} THEN [None EXCEPT !.dedup = size]
                  ELSE [None EXCEPT !.queued = size]]

\* A user's own sync request; run 0 is no plan's.  In persistent mode a refusal
\* rolls the mutation back, and with it the hits it had counted
UserEnqueuesSync(target, now) ==
    /\ mode = "persistent" => Free
    /\ ops < MaxOps /\ ops' = ops + 1
    /\ LET got == enqueueSyncRequest(target, now, 0)
       IN  /\ hits' = IF mode = "persistent" /\ got.part.limited # 0 THEN hits ELSE got.hits
           /\ active' = got.active
    /\ UNCHANGED <<mode, plans, counters, rowLock, tick, gone, run, made, time>>

\* A worker finishes a job, or an operator cancels it
JobEnds(key) ==
    /\ mode = "persistent" => Free
    /\ active' = Without(active, {key})
    /\ UNCHANGED <<mode, plans, hits, counters, rowLock, tick, gone, run, made, ops, time>>

-----------------------------------------------------------------------------
(* tickLocal.                                                              *)

Due(now) == {p \in DOMAIN plans : plans[p].enabled /\ plans[p].next # 0 /\ plans[p].next <= now}

\* By next run, then by creation
InOrder(S) ==
    CHOOSE s \in [1 .. Cardinality(S) -> S] :
        \A i, j \in DOMAIN s : i < j =>
            \/ plans[s[i]].next < plans[s[j]].next
            \/ plans[s[i]].next = plans[s[j]].next /\ s[i] < s[j]

\* Mutant: a persistent tick runs without the row lock.
TakesNoLock(p) == rowLock' = rowLock

\* withDurableMutation: the row lock, and the state to restore
TakesLock(p) ==
    IF mode = "persistent" THEN Free /\ rowLock' = <<p, state>> ELSE rowLock' = rowLock

\* A tick without due plans changes nothing but a count of ticks
StartTick(p, now) ==
    /\ p \in Modes[mode] /\ tick[p].at = "idle"
    /\ Due(now) # {}
    /\ TakesLock(p)
    /\ tick' = [tick EXCEPT ![p] = [NoTick EXCEPT !.at = "plan", !.now = now, !.due = InOrder(Due(now))]]
    /\ UNCHANGED <<mode, plans, active, hits, counters, gone, run, made, ops, time>>

\* The next due plan gets its correlation id
StartPlan(p) ==
    /\ tick[p].at = "plan" /\ tick[p].due # << >>
    /\ run' = run + 1
    /\ tick' = [tick EXCEPT ![p] = [tick[p] EXCEPT !.at = "target", !.run = run + 1, !.part = None,
                                                   !.left = Targets[Head(tick[p].due)]]]
    /\ UNCHANGED <<mode, plans, active, hits, counters, rowLock, gone, made, ops, time>>

\* A target that is rate limited is left for the next slot
EnqueueTarget(p) ==
    /\ tick[p].at = "target" /\ tick[p].left # << >>
    /\ LET got == enqueueSyncRequest(Head(tick[p].left), tick[p].now, tick[p].run)
       IN  /\ hits' = got.hits /\ active' = got.active
           /\ tick' = [tick EXCEPT ![p] = [tick[p] EXCEPT !.left = Tail(@), !.part = Sum(@, got.part)]]
    /\ UNCHANGED <<mode, plans, counters, rowLock, gone, run, made, ops, time>>

\* Mutant: a run leaves the next slot in the past.
RanCatchesUp(plan, t) ==
    [plan EXCEPT !.last = t.now, !.next = NextSlot(plan.next), !.resumed = FALSE, !.run = t.run,
                 !.totals = Sum(@, t.part)]

\* What a run leaves in its plan, also if the plan was paused meanwhile
Ran(plan, t) ==
    [plan EXCEPT !.last = t.now, !.next = NextSlot(t.now), !.resumed = FALSE, !.run = t.run,
                 !.totals = Sum(@, t.part)]

\* A plan that was deleted meanwhile is updated where nobody sees it
FinishPlan(p) ==
    /\ tick[p].at = "target" /\ tick[p].left = << >>
    /\ LET q == Head(tick[p].due)
       IN  IF q \in DOMAIN plans
           THEN plans' = [plans EXCEPT ![q] = Ran(@, tick[p])] /\ gone' = gone
           ELSE plans' = plans /\ gone' = Sum(gone, tick[p].part)
    /\ tick' = [tick EXCEPT ![p] = [tick[p] EXCEPT !.at = "plan", !.due = Tail(@),
                                                   !.total = Sum(@, tick[p].part), !.part = None]]
    /\ UNCHANGED <<mode, active, hits, counters, rowLock, run, made, ops, time>>

recordTick(p) ==
    /\ tick[p].at = "plan" /\ tick[p].due = << >>
    /\ counters' = Sum(counters, tick[p].total)
    /\ tick' = [tick EXCEPT ![p] = [NoTick EXCEPT !.at = "commit"]]
    /\ UNCHANGED <<mode, plans, active, hits, rowLock, gone, run, made, ops, time>>

CommitTick(p) ==
    /\ tick[p].at = "commit"
    /\ tick' = [tick EXCEPT ![p] = NoTick]
    /\ rowLock' = << >>
    /\ UNCHANGED <<mode, plans, active, hits, counters, gone, run, made, ops, time>>

\* Mutant: a rollback forgets the tick counters.
RestoreAllButCounters(found) ==
    /\ plans' = found[1] /\ active' = found[2] /\ hits' = found[3] /\ gone' = found[5]
    /\ counters' = counters

restoreDurableState(found) ==
    /\ plans' = found[1] /\ active' = found[2] /\ hits' = found[3] /\ gone' = found[5]
    /\ counters' = found[4]

\* The transaction fails, or the replica dies inside it
TickRollsBack(p) ==
    /\ mode = "persistent" /\ rowLock # << >> /\ rowLock[1] = p
    /\ ops < MaxOps /\ ops' = ops + 1
    /\ restoreDurableState(rowLock[2])
    /\ tick' = [tick EXCEPT ![p] = NoTick]
    /\ rowLock' = << >>
    /\ UNCHANGED <<mode, run, made, time>>

Tock ==
    /\ time < MaxClock
    /\ time' = time + 1
    /\ UNCHANGED <<mode, plans, active, hits, counters, rowLock, tick, gone, run, made, ops>>

Step(p) == StartPlan(p) \/ EnqueueTarget(p) \/ FinishPlan(p) \/ recordTick(p) \/ CommitTick(p)

PlansNext ==
    \/ \E p \in Tickers : \/ \E now \in Recent : StartTick(p, now)
                          \/ Step(p) \/ TickRollsBack(p)
    \/ \E q \in PlanIds, on \in BOOLEAN : CreateBackfillPlan(q, time, on)
    \/ \E q \in DOMAIN plans :
          \/ PauseBackfillPlan(q) \/ DeleteBackfillPlan(q) \/ CancelBackfillPlanJobs(q)
          \/ \E now \in Recent : ResumeBackfillPlan(q, now)
    \/ \E t \in UserTargets : UserEnqueuesSync(t, time)
    \/ \E k \in DOMAIN active : JobEnds(k)
    \/ Tock

\* Every replica's ticker goes on, and a tick that began is carried through
PlansFairness ==
    /\ WF_planVars(Tock)
    /\ \A p \in Tickers : WF_planVars(Step(p)) /\ SF_planVars(StartTick(p, time))

PlansSpec == PlansInit /\ [][PlansNext]_planVars /\ PlansFairness

-----------------------------------------------------------------------------
(* Properties.                                                             *)

\* The sum of a function's values: as many units as its arguments have
Units(f) == UNION {{i} \X (1 .. f[i]) : i \in DOMAIN f}

SumOf(f) == Cardinality(Units(f))

Total(x) == gone[x] + SumOf([q \in DOMAIN plans |-> plans[q].totals[x]])

\* Whenever no tick is under way the scheduler's counters are the sum of what
\* the plans report, through failed commits, deletions and concurrent ticks.
CountersAgree ==
    (\A p \in Tickers : tick[p].at = "idle") =>
        \A x \in DOMAIN counters : counters[x] = Total(x)

\* In persistent mode a run only queues jobs for a plan that exists and is
\* enabled: a pause or a deletion that was answered stops the plan at once,
\* whichever replica is ticking.
PausedPlansAreSilent ==
    [][\A p \in Tickers : mode = "persistent" /\ tick[p].at = "target" /\ tick[p].left # tick'[p].left =>
          /\ Head(tick[p].due) \in DOMAIN plans
          /\ plans[Head(tick[p].due)].enabled]_planVars

\* In persistent mode a plan that was not resumed since its last run does not
\* run again before the next slot, however many replicas tick, with however
\* old a clock, and however many slots were missed.
SlotRunsOnce ==
    [][\A q \in DOMAIN plans \cap DOMAIN plans' :
          /\ mode = "persistent" /\ plans[q].last # 0 /\ ~plans[q].resumed
          /\ plans'[q].run > plans[q].run
          => plans'[q].last >= NextSlot(plans[q].last)]_planVars

\* A plan that is enabled before a slot has run for it later, unless it is
\* paused or deleted, or resumed after the slot.
EverySlotIsServed ==
    \A q \in PlanIds, k \in {n * Period : n \in 1 .. (MaxClock \div Period)} :
        (q \in DOMAIN plans /\ plans[q].enabled /\ time < k) ~>
            \/ q \notin DOMAIN plans
            \/ ~plans[q].enabled
            \/ plans[q].last >= k
            \/ plans[q].next > k

=============================================================================
