# GitRank: a TLA+ verification project

GitRank reads contributors' GitHub activity, scores it and shows profiles and
leaderboards. The backend is a set of Go services under `src/gitrank/services`
on shared packages under `src/gitrank/packages`. This directory models the part
of it where order, failure and concurrency decide whether it is right: how work
is queued and executed, how data comes from GitHub into the database, what is
derived from it and shown, and who is logged in meanwhile.

## The system and its parts

| part | state | operations | module |
|---|---|---|---|
| `packages/store` job queue | jobs, dead letters, counters, under one mutex | enqueue, lease, complete, fail, pause, resume, cancel, replay | `JobQueue`, `InMemoryJobQueue` |
| scheduler-worker: workers | a loop per worker: ticker, leased job | poll, execute, report | `SchedulerWorkers`, `JobContract` |
| scheduler-worker: durable state | PostgreSQL tables, a legacy snapshot, a copy per pod | mutate under a row lock, load, save, migrate | `SchedulerState` |
| scheduler-worker: backfill plans, rate limiter | plans with cron slots; fixed windows; counters | create, pause, resume, delete, cancel, tick; allow | `BackfillPlans` |
| `packages/githubapi` client | circuit breaker, semaphore | calls with retries | `GitHubClient` |
| github-ingestor: authored history | cursor rows of a user, stored pull requests | search in windows, hydrate, move the cursor | `AuthoredHistory` |
| github-ingestor: sync runs | `github_sync_runs`, per-pod map, advisory lock | queue, begin, lock, finish, reap, list | `SyncRuns` |
| github-ingestor and delivery store: webhooks | deliveries, the rows payloads become | receive, store, mark, requeue | `WebhookIntake` |
| pr-analyzer, scoring-engine, profile-service: insights | analyses, replays, badges, snapshots, quest boards | analyse, replay, refresh, materialise, report | `Insights` |
| profile-service: public pages | leaderboard seasons, privacy settings, page cache | materialise, change settings, show | `PublicPages` |
| auth-service with the gateway's session check | users, accounts, GitHub tokens, OAuth states, sessions | login, link, rotate, refresh, logout, unlink, delete | `AuthSessions` |
| frontend, deployments, shared packages | - | - | not modelled |

The parts meet in these places. The scheduler executes a job by calling the
ingestor, the analyzer, the scoring engine and the profile service one after
another; a failed stage fails the job, and its retry repeats every stage
(`SchedulerWorkers` sees an execution as one step that succeeds or fails,
`Insights` sees the stages). Syncs and webhooks write the same rows
(`WebhookIntake`); `AuthoredHistory` is what a user's sync does between the
locks of `SyncRuns`. Quest rewards and replays share the badge table. Boards
read what refreshes write and what owners hide. The gateway asks auth-service
about every request and passes rotated cookies on.

What is hard in them: workers hold leases that carry no owner and report after
the lease has gone; ticks are read minutes after they fired; replicas replace
one another's whole state and are kept apart by one row lock; calls admitted
before the breaker opened report after it did; requests stamp their writes with
the time they began and write much later, so that the latest is not the last;
transactions run in READ COMMITTED and read before they lock; browsers send
requests in parallel with tokens that rotate; GitHub repeats and reorders what
it sends; callers give up at any point and pods die between two statements.
`hazards` in `PROJECT.json` lists these by line with the properties about them,
and for those without one the reason.

What makes the parts right:

* queue and workers: one unfinished job per dedupe key, leases within the
  concurrency, a finished job stays finished, dead letters are exact, success
  is earned, and every job is settled in the end;
* durable state: what was acknowledged stays stored, replicas do not erase each
  other's mutations;
* plans: a slot is served, once, and never for a paused plan; counters add up
  through failed commits;
* client: the breaker limits its probes and recovers when GitHub does;
* history: no gap in a complete history that nothing explains; the backfill
  moves to the epoch;
* sync runs: one sync per user as long as the session of its lock lives; what a
  caller was told is what is listed, unless two statements wrote the same row;
  every run ends;
* webhooks: each delivery passes the duplicate check once and is stored at
  last; the database catches up with GitHub;
* insights: what was graded stays on the profile, quests pay once a week,
  badges outlive replays;
* public pages: a season is one board but for the places of deleted users, a
  private user leaves it, a cached page shows what its request read, but for
  changes that its key cannot tell apart;
* auth: a session matches its account, an ended session stays ended, a careful
  browser stays logged in, a spent refresh token is not kept as a good one.

## Modules

* `JobQueue` - the operations of `store.InMemoryJobQueue` as operators from
  queue to queue. A job's ID is its place in `jobs`, since jobs are appended and
  never removed. Times are relative to now (`delay`, `lease`), which makes the
  state space finite. Operations that take the caller's `now` take `lag`, how
  old that reading is. Payloads, texts and IDs are left out.
* `InMemoryJobQueue` - the queue with every operation as an action, in any order
  and with any arguments. `Read` stands for `Jobs`, `Job`, `Snapshot` and
  `ExportState`, which reap expired leases as they read. `Enqueue` (without
  deduplication) is used only by the ingestor, on a queue nobody leases from, and
  `RecordDeadLetter` by nobody: neither is an action.
* `SchedulerWorkers` - composes the queue with workers and operators, in
  persistent mode: an action is one committed mutation, which ends with
  `ExportState` because `captureDurableState` exports the queue. A worker
  executes for any length of time; `clock[w]` gives the age of the tick that its
  next poll will use. `Lose` is a pod's death or a report whose transaction
  failed.
* `JobContract` - what a client may rely on: accepted jobs with their key, end
  and failures so far, without leases, clocks, pauses or workers.
  `SchedulerWorkers!Contract` maps the queue to it: `LifeOf(job)` forgets how an
  open job waits, `LettersIn` the contents of a dead letter.
* `SchedulerState` - replicas and PostgreSQL, statement by statement where they
  are not under the row lock. A state is the set of mutations it contains. The
  counters row is inserted or locked by every writer, so `LockFree` guards both
  `LockAndLoad` and the save of a migration. A commit whose answer is lost is a
  disjunct of `CommitMutate`.
* `BackfillPlans` - plans, limiters and the part of the queue they need, in
  both modes. A tick is `StartTick`, then a step per plan and target; in
  persistent mode it holds the counters row from the first to the last
  (PostgreSQL serves its lock queue in order) and `TickRollsBack` restores what it
  found, in memory it holds the mutex only at its two ends. Cron slots are the
  multiples of `Period`. Restarting the memory mode, which loses everything, is
  not an action.
* `GitHubClient` - breaker and calls. A response is what the retry loop and
  `observeCircuitResult` make of it. `healthy` is the environment: while it is
  TRUE, no response counts as a failure and nobody gives up.
* `AuthoredHistory` - one user's pull requests, the search with its windows
  (newest, updated, created, backfill, rescan, anything), splitting, limits and
  cap, and the cursor. A search is one step, because its answers come from
  GitHub and not from the database; hydration is a step per pull request. The
  splitting is a recursive function over windows, the backfill one over rounds.
  `missed` is a history variable: what the cap or a limit left out (`cut`), what
  an answer hid, what failed to hydrate, and what no later window looks for
  (`PassedBy`, `PulledBack`), until a later sync stores it after all. A pull
  request may be touched at any age, also before the first sync. The syncs of
  the user follow one another; two at once (`SyncRuns` has them) are not modelled
  here.
* `SyncRuns` - the table of runs and the executions that report to it. The
  outcome of fetching is chosen among those the code can compute from its
  partial failures (`Outcomes`). Rows have ages instead of times. The statements
  that mark a row running or finish it read a candidate without a lock and then
  update by its id, in READ COMMITTED: each is two steps, with `row` the candidate
  in between, and others may finish that row meanwhile. The reaper updates by a
  condition that PostgreSQL evaluates again on the locked row: one step.
  `LoseSession` breaks the connection that holds a user's lock while its sync goes
  on; `EndSession` is PostgreSQL noticing.
* `WebhookIntake` - deliveries, request handlers and the rows. What GitHub has is
  a version; a row holds the version it was written from. The in-memory queue
  into which the ingestor puts jobs is read by nobody and leaves no trace, except
  that a job that cannot be built or queued marks the stored delivery failed
  (`EnqueueFails`).
* `Insights` - one user's pull requests from the stored row to the report. Every
  request is a process of steps (`Stages`), each a statement or a transaction,
  that stamps what it writes with the time it began. The stamps of all requests
  come from one clock that never gives a time twice: what pods with differing
  clocks, or two requests of one microsecond, do to the order of snapshots is not
  modelled. Quests have names of their
  own, and so have their badges (`TemplatesAssumption`).
* `PublicPages` - requests for boards, pages and settings as sequences of steps.
  From the lock of a season's row to the commit no other run of that season
  works, so that part is one step. Snapshots may carry equal times, of which
  `DISTINCT ON` keeps any one. A user hides several repositories, each with the
  time of its own last change; the key of a page has the latest of them.
  `DeleteAccount` is auth-service's, with what the foreign keys take along;
  `late` counts the changes that do not move the latest time on, `lost` holds
  the entries that went with their users. Both are history.
* `AuthSessions` - requests of browsers as processes; a step is a statement, a
  transaction or a call to GitHub. Secrets are named after the request that made
  them, so that reuse of an old one is visible. `Careful` browsers send one
  request at a time. Transactions that complete a login, unlink or delete are
  one step each: all of them write the account's row. `mislaid` is history: the
  refresh tokens spent by requests that could not report it. Whether a refresh
  token has expired is decided by each reading of it. GitHub revoking a token of
  its own accord is not among its steps, and the roles of a session are left
  out.
* `MC*` - what TLC needs beside the cfg: instances, plans, symmetry sets.
* `JobQueueLemmas`, `InMemoryJobQueueProofs`, `SchedulerProofs`,
  `GitHubClientProofs`, `IngestorProofs`, `AuthSessionsProofs`,
  `PublicPagesProofs`, `InsightsProofs` - theorems. A service's proofs are one
  module: `SchedulerProofs` extends `SchedulerWorkers`, `SchedulerState` and
  `BackfillPlans`, `IngestorProofs` extends `SyncRuns`, `WebhookIntake`
  and `AuthoredHistory`. For
  that all but the first prefix the names they would share (`StateInit`,
  `PlansNext`, `IntakeNext`).

Definitions whose comment begins with "Mutant:" are plausible bugs. They are
used by no specification; each property is known to fail when the definition
below the mutant is replaced by it (`mutants` in `PROJECT.json`).

## Runs

States are distinct states; a run takes at most four minutes. All runs pass.

| run | instance | states | shows |
|---|---|---|---|
| `queue` | 3 jobs, 1 key, concurrency 2, 2 attempts | 416k | queue properties under every order of operations |
| `workers_safety` | 2 workers, 2 jobs, 2 keys, ticks up to 2 old, 1 loss | 924k | `ImplementsContract`, success is earned |
| `workers_liveness` | 2 workers, 2 jobs, concurrency 1, 1 loss | 95k | every job is settled |
| `client_recovers` | 3 callers, limit 2, 2 probes, 2 slots, 3 requests | 11k | breaker limits and recovery, patient callers |
| `state_serialised` | 3 pods, 3 mutations, a legacy snapshot | 21k | row lock and migration |
| `backfill` | 2 plans with a common job, 1 ticker in memory or 2 in persistent mode, 2 slots, 2 operator requests | 91k | counters, pauses, slots |
| `history` | 7 pull requests with a gap, 2 faults, 1 touch, windows of 4 in a calendar of 15 | 468k | no unexplained gap, progress of the backfill |
| `sync_runs` | a user's request, 2 executions on 2 pods, 2 rows, 1 fault | 667k | one sync per user but for lost sessions, honest and final rows, every run ends |
| `webhooks` | 2 deliveries (review and comment, or issue and push), 2 handlers, 1 fault | 202k | one intake, no lost delivery, current rows |
| `insights` | 2 pull requests, 6 pairs of jobs, 2 weeks, 1 fault | 95k | profile, badges, quests, report |
| `public_pages` | 2 users, 2 repositories each, 4 requests in 12 combinations | 526k | seasons, privacy, deleted accounts, cached pages |
| `auth` | 2 GitHub users, 2 active browsers, 4 requests in 14 combinations | 147k | sessions, rotation, refresh, logout |

Bounds, and why they are enough.

* Queue and workers. `MaxJobs` caps the jobs ever appended: two are needed for a
  key to be taken by another job and a third to replay beside both. Two attempts
  give a retry and a dead letter. A lease of one or two units expires while
  another worker polls. `MaxLag` is how old a tick may be; beyond it a lease is
  born expired all the same. `MaxLosses` limits losses, which without end would
  refute progress. `MaxFailures` stops the breaker's counter above its limit.
* Plans. `MaxClock` leaves room for two slots and one missed one; `MaxHits = 1` makes
  the limiters bite, `Window` is as long as a period so that a window ends
  between slots; `MaxOps` operator requests can pause and resume, or create and
  delete, around a tick.
* History. The calendar has a gap longer than a window and more pull requests
  than a sync may hydrate or a selection may hold, pairs of them created in the
  same second and four after the first sync, and it is long enough for a sync
  that comes later than the look-back of the first. `HardLimit` is reached by one
  window, so that splitting happens; `MaxDepth` ends it. Two faults lose the
  cursor and a hydration in one behaviour. Each kind of exception in `missed`
  occurs: without any one of them TLC refutes `NoOtherGap` on this instance. The
  literals 60 and 12 of the code are constants, scaled down with the limits.
* Sync runs. Two executions on different pods contend for the advisory lock
  and for the rows of one correlation. An execution slot is used again and again,
  so that late statements meet rows of requests begun after them. Two rows are
  the open and the late one of a correlation; a row is overdue after one unit in
  either state. One fault is a crash, a lost session, a failed statement or
  unlock, or a caller that leaves. What the instance leaves out is left to the
  theorems, which hold for any pods, requests and faults: two executions of one
  pod, kept apart by its map; the other kinds of request, which take no lock; and
  two faults together.
* Webhooks. One fault, anywhere, and a crash is one of them; the versions of two
  events can arrive and be fetched in every order.
* Insights. Two jobs are the pairs that race; the second week begins while both
  may still run. The quest's goal is scaled to 1, the badge's repositories to 2.
* Pages. Times are seconds, three of them in one week, and a TTL of 1 expires
  within the run. Two of a plan's requests rebuild a board at once, of this week
  or of the one before, while settings of its users change, snapshots are
  refreshed and accounts are deleted. Two repositories are the late change and the
  one whose later time hides it; two readers are the one that fills the cache and
  the one it answers. `PagesInTwoSeconds` ends plans with pages one second early:
  two seconds order the changes in every way that their times can differ. That
  a run of one week may commit in the next is left to the theorems.
* Auth. `MCPlans` lists the combinations of requests that touch the same
  session, account or state, and the deadlines (an access token, a rotation, a
  session) that fall due among them, once each.

`CHECK_DEADLOCK FALSE` is set where a behaviour ends because its requests, its
clock or its faults are used up (`backfill`, `history`, `sync_runs`, `webhooks`,
`insights`, `public_pages`, `auth`). In the others time can always pass, a pod can
always load, GitHub's health can always change.

Fairness. `SchedulerWorkers`: time passes, a worker's loop receives its ticks
(`runWorkerLoop`) and an execution ends, which the HTTP clients' timeouts
guarantee. `GitHubClient`: requests and pauses end (client timeout, timer),
goroutines keep calling, and strong fairness of taking a semaphore slot: Go's
channels queue waiting senders. `BackfillPlans`: tickers go on, a tick is carried
through, and strong fairness of beginning one with the current time: PostgreSQL
queues the waiters of a row lock. `SyncRuns`: time passes and somebody lists the
runs again and again; nothing is assumed of executions. `WebhookIntake`: GitHub
delivers at least once and the operator requeues what is not marked enqueued
(strong fairness, since handlers may be busy), handlers go on, syncs are
repeated. `Insights`: a leased job is executed to its end and retried when a
stage fails, for which `SchedulerWorkers` shows the ground. Nothing is assumed
of users, operators' other requests, losses, faults and crashes. `history`,
`public_pages`, `auth` and `state_serialised` check safety only.

## Where the code disagrees with its documents

The modules follow the code, so the properties leave room for what the code
does; `findings` in `PROJECT.json` quotes each document.

* A late failure report makes a paused job pending again, and it clears the
  lease of the worker that holds the job now.
* An expired lease does not count as an attempt: a job that kills its workers
  is retried for ever (`MaxLosses` bounds that).
* A caller that gives up during a retry pause keeps a half-open breaker's probe
  slot; `Recovers` is about `SpecPatient`, callers that do not.
* `Load` saves a legacy snapshot it read before any lock and may replace what
  another replica has committed: the exception in `OnlyMigrationForgets`.
* A sync that loses the session of its lock goes on, and another pod may sync
  the same user: `OneSyncPerUser` says that nothing else leads there.
* A run that was finished after a statement picked its row is finished again
  with another end, or set running: `AnsweredIsShown` and
  `FinishedRunsAreFinal` speak of rows that no other statement has picked.
* A first sync that finds an old pull request by its update begins the backfill
  before it, and what lies between is never searched: `PulledBack` in `missed`.
* A cached page may show a repository that its request read as hidden,
  when the change came in the second of another or was stored after a later one:
  `late` in `PageIsAsRead`.
* The history cursor moves past pull requests that the cap left out or whose
  hydration failed (`missed` in `NoOtherGap`), also when all of them failed with
  a conflict; past those created in the same second as the oldest result of a full
  selection; and past those created after a first sync that did not count, when
  the next one comes later than its look-back.
* A pull request's public report is composed from the live tables, not from
  a stored snapshot.
* A refresh whose CSRF check fails has rotated the session and answers without
  the new token; `CarefulBrowserKeepsSession` is about the right header.

## Proofs

All theorems hold for every value of the constants that satisfies the named
assumptions: `packages/config` rejects settings that are not positive
(`SettingsAssumption`, `WorkersAssumption`, `ClientAssumption`,
`SyncRunsAssumption`); names are distinct (`NamesAssumption`, `StateAssumption`);
there is a request to begin with (`SyncRunsAssumption`); powers of two are
numbers, which the provers must be told (`PowersAssumption`); users, pull requests
and quest templates are finitely many, there is a skill lane, and a template's
names are neither a lane's nor a replay's badge (`PagesAssumption`,
`InsightsAssumption`, `TemplatesAssumption`); the plans of requests and jobs are
of the kinds the modules have, and careful browsers send the right CSRF token and
wait for every answer (the three `PlansAssumption`s); backfill plans are numbered
in the order of their creation, their targets are requests `BuildSyncJobs` accepts
and yield finitely many jobs, there are finitely many replicas, and a cron period
is positive (`BackfillAssumption`); a user has finitely many pull requests, the
limits and windows of a search are positive, and the first sync comes after the
epoch (1 January 2008) by at least its look-back (`HistoryAssumption`).

*Queue.* `QueueInv` is inductive: the type, unique keys, the attempt budget, the
ledger, and that no job is `running` or `failed`. The last is needed because no
operation sets those statuses while several test for them; a `failed` job that
could be completed or paused is neither active nor terminal and would break the
keys. Every operation is one of three kinds of step: it rewrites jobs in place
(`Rewrites`), appends a job under a free key, or dead-letters one job. The lemmas
show the invariant for each kind and that each operation is of its kind. The
lease bound needs counting: `FirstOfBound` maps the jobs that `LeaseReady` picks
injectively to their ranks. `Keeps(q, p)` sums up what an operation preserves and
is transitive, so that composed operations need no new argument.

*Workers.* Each step is a sequence of queue operations followed by
`ExportState`; with `Keeps` it remains to show that workers hold jobs the queue
knows and that the lag of a tick lies within its bound.

*Contract.* `Implements` shows that the workers' specification implements
`JobContract`. `Shows(q, p, done, done')` names what a client can see
of a step (nothing, a job accepted, worked on, ended, tried again or given up);
one lemma per queue operation says which of them it shows, and exporting the
state adds nothing. That an operation on a paused, leased or expired job shows
no more than on a pending one is where late reports, reaping and resuming come
in. `SuccessIsEarned` follows: `worked` only grows, and only `Work` ends a job as
succeeded.

*Durable state.* While the snapshot exists nothing is stored; a transaction that
saw rows began after the snapshot was gone; hence what the lock's holder loaded
contains the legacy state and everything stored. `MutationsSerialise` follows:
what a step acknowledges is stored by that step or before, and only a
migration removes anything.

*Plans.* `BackfillInv` states the books with what is under way: the counters plus
what ticks have yet to record are what deleted plans reported plus what plans
report. Each step of a tick moves a number from one side to the other, and a
deletion moves a plan's report to the deleted ones. Sums are cardinalities of sets
of units (`Units`), so that they need no induction. In persistent mode the row
lock's holder is the only one who ticks (`LockFits`), so what it found balanced
when it took the lock, which is what a rollback restores; and what it listed
still exists, is enabled and is due once. `SlotRunsOnce` adds that a plan that ran
and was not resumed since waits for the slot after its run, and that runs are
numbered in order (`RunsFit`), for a rollback must not look like a run. That the
due plans can be listed in order at all (`Sorted`) is shown by their ranks.

*Client.* A closed breaker is below its limit because every path to `closed`
resets the counter or counts below the limit. `ProbesAreInFlight` holds because
any report, of a probe or of an older call, leaves the half-open state.

*Sync runs.* One sync per user needs both directions between leases and
executions: whoever is between taking and returning the lease and has not lost
its session is named by it (`HoldersAreNamed`), and whoever it names is there, for
that user (`NamedAreHolders`). A crash keeps both because the goroutines go with
the pod, a lost session because it is remembered in the execution that lost it.
Two on one pod are kept apart by its map, whatever the leases say.
What rows become rests on `TableInv`: the type of the table (`RowsOK`), that a
picked row is in it (`PickedOK`), and that an execution that reports knows one of
the three ends. A finished row is no candidate, so once nobody has picked it
nobody will, and its end stays (`Stays`); the row of an answer that was not
contested is such a row from the step that gives the answer (`Told`). Finishing a
finished row leaves it finished, and marking it running keeps its `finished_at`,
which is why a listing shows it as ended whatever its status is.

*Authored history.* `HistoryInv` says where a pull request can be. Whatever was
created after the backfill boundary and up to the last sync is stored or in
`missed` (`CursorCovers`); whatever a running sync's next cursor would cover is
stored, in `missed`, or among the targets still to hydrate (`SyncCovers`). While the
backfill has no boundary, a selection's oldest creation time may come from an
update; what was created after it is then in the created windows or in
`PulledBack`. Hence
a sync may die, fail or lose its cursor at any point, since only its end moves
the boundary. When the bootstrap is complete the boundary lies before the epoch,
which gives `NoOtherGap`. That a selection covers what its cursor passes is shown
window by window: an answer that stops at its limit has everything newer than the
oldest it found or counts it as cut (`WindowIsAnswer`), the two halves of a split
window adjoin, and joining selections keeps what each of them covers
(`ExtendAdds`, `StaysGapless`). The recursive functions exist and are what they say by
induction on the depth of a window and on the rounds of the backfill
(`SearchExists`, `BackfillExists`). An earlier form of the model counted only the
cap and failed hydrations as missed; the attempt to prove it led to the larger
instances that refute it, and to the disagreement above.
`BackfillProgress` follows from what one round does to the boundary.

*Webhooks.* A delivery that passed the check has a row in the delivery store
(`IntakeLeavesRow`), and rows are never deleted; a handler comes to the step that
marks a delivery enqueued only from a committed transaction.

*Sessions.* `Inv` is about names: a token is named after the request that made
it, a session's owner owns its account, and what a request holds was made by it
or handed to it. `HonouredUnlessRevoked` adds `GrantInv`: a request that has
spent a refresh token works for the account of its session, and a grant stored
as good is the last one GitHub gave unless such a request is under way or died.
`CarefulBrowserKeepsSession` adds `CarefulInv`: a careful browser has one request
in flight, the token of its session is the one the browser holds or the one this
request will hand it, and the request's copy is stale only when it has rotated
and is about to rotate again.

*Pages.* Counting gives the ranks: a board of n users that each have as many
above them as their rank says has the ranks 1 to n, once each. A deletion moves
an entry from `entries` to `lost`, so their union is still the board that was
written. A user on a board that is read or stored was on it when its run began,
so whoever left it before the TTL is on no board that is still fresh; the stamp of
a board is never later than the read it came from. For cached pages `LinesFit`
puts the readings of one user's settings or repositories in a line, whether a
request or the cache holds them: none is ahead of the table, and two with the
same latest time and the same count of late changes are the same reading. Each
change either moves the latest time on or counts as late, which keeps this for any
number of repositories.

*Insights.* `Inv` has a part for each property.
Quests: a quest's name determines it (the weakest lane is some lane, by taking a
minimum), so a key is paid at most once; a replay deletes and replaces badges of
its own names only, which no template uses; assignments are unique by key, so the
best progress is a maximum of two numbers.
Grades: `RunsCover(.., t)` says that every run stamped `t` or later, saved or still
in a request, covers a row and an analysis, and `SnapsCover` the same for
snapshots. Both hold vacuously the moment a stamp is taken, because nothing is
stamped later, and what is stamped afterwards reads afterwards: so the order in
which the writes land does not matter. `GradeFits` lists what a grade job has
achieved at each of its places; that a failed job starts over costs nothing.
Replays: one that is alone (`solo`) is the only one under way, has the latest
stamp, and its transaction has seen every badge a replay has issued.
The tables at the beginning of `InsightsProofs` spell out the steps of each kind
of job, since the provers do not compute concatenations by themselves; all later
lemmas use only what stands before and after what (`Orderly`).

Model-checked only: the liveness properties (`EventuallySettled`, `Recovers`,
`EverySlotIsServed`, `EveryRunEnds`, `EveryDeliveryIsStored`, `EventuallyCurrent`,
`EventuallyShown`), which are out of the prover's reach, as is everything about
fairness. Every invariant and every action property of the runs is a theorem.

## Not modelled

* githubapi: the installation token broker is a cache filled on a miss, with no
  promise but freshness; OAuth and search helpers only build requests.
* scheduler-worker: the HTTP API decodes and routes; the lease endpoint for
  workers outside the process; a restart in memory mode, which loses all state
  by design; status reads that mix two commits (`Load` reads several tables,
  which affects reports only); cancelling a plan's jobs of earlier runs.
* github-ingestor: the batch fetch by GraphQL, equal to its REST fallback as far
  as these modules tell; caches of repository metadata; two syncs of one user
  that move its history cursor at once, after a lost session.
* auth-service: GitHub revoking tokens of its own accord, the roles in a session,
  the authorisation status (displayed only), the idle extension,
  the request rate limiter and audit rows. api-gateway: rate limits, analytics
  and path checks.
* pr-analyzer and scoring-engine: heuristics and score arithmetic are functions
  of the stored text; `VerifyReplay` and the reads change nothing.
* profile-service: cards, exports and the contents of a profile.
* Shared packages (configuration, parsing, logging, HTTP plumbing), the frontend,
  SQL layout and deployment.

Exceptions worth knowing. `BackfillProgress` compares a stored cursor with the one
before it: it says nothing of a user's first cursor, nor of a sync that could not
load the cursor and may set the boundary back. `GradedIsShown` assumes one
strictly increasing clock. `ProbesAreInFlight` and `Recovers` are about callers that
wait out their pauses. In `workers_liveness` no tick is old.

Worth doing next: two syncs of one user at once in `AuthoredHistory`, where the
later cursor overwrites the earlier.
