--------------------------- MODULE AuthoredHistory ---------------------------
(***************************************************************************)
(* How the ingestor collects the pull requests a user ever authored        *)
(* (executor.go, SyncUser): a sync searches GitHub in windows of time,     *)
(* hydrates what it selects one pull request at a time, and moves a cursor *)
(* of four rows (store.go) from which the next sync continues.             *)
(*                                                                         *)
(* Time is counted in seconds of a small calendar that starts at the       *)
(* search epoch; both ends of a search window are inclusive.  One user and *)
(* one sync at a time: the lease of SyncRuns gives that as long as no      *)
(* session is lost under a running sync, and two syncs of one user at once *)
(* are not modelled here.  A sync that fails before it selects changes     *)
(* nothing here.                                                           *)
(***************************************************************************)
EXTENDS Integers, Sequences, SequencesExt, FiniteSetsExt

CONSTANTS
  PRs, Created,        \* the authored pull requests and their creation times
  Start,               \* the time of the first sync
  SyncLimit,           \* AuthoredPRSyncLimit: hydrated in one sync
  SearchLimit,         \* AuthoredPRSearchLimit
  MinTargets, MinSeed, \* the literals 60 and 12
  SeedLookback, BootstrapLookback, RescanLookback, BackfillWindow, Overlap,
  MaxWindows,          \* authoredPRBackfillMaxWindows
  HardLimit,           \* the most results GitHub gives for one query
  MinSpan, MaxDepth,   \* where the splitting of a window ends
  MaxTime, MaxMishaps, MaxTouches   \* bounds

\* The first sync comes after the epoch by at least the first look back.
ASSUME HistoryAssumption ==
  /\ IsFiniteSet(PRs) /\ Created \in [PRs -> Nat]
  /\ {Start, SyncLimit, SearchLimit, MinTargets, MinSeed, MaxWindows,
      HardLimit, BackfillWindow} \subseteq Nat \ {0}
  /\ {SeedLookback, BootstrapLookback, RescanLookback, Overlap, MinSpan,
      MaxDepth, MaxTime, MaxMishaps, MaxTouches} \subseteq Nat
  /\ BootstrapLookback <= Start

VARIABLES
  now,       \* GitHub's and the pods' clock
  updated,   \* updated[p]: when p last changed on GitHub
  stored,    \* pull requests in the database
  cursor,    \* github_sync_cursors of the user
  sync,      \* the running sync
  missed,    \* history: left out by a limit, hidden from a search, or failed
  mishaps, touches

historyVars == <<now, updated, stored, cursor, sync, missed, mishaps, touches>>

Epoch == 0
NoTime == -2

EmptyCursor ==
  [lastSyncedAt |-> NoTime, oldestSeenAt |-> NoTime,
   backfillBeforeAt |-> NoTime, bootstrapComplete |-> FALSE]

NoSync ==
  [pc |-> "idle", held |-> NoTime, base |-> EmptyCursor, next |-> EmptyCursor,
   targets |-> <<>>, full |-> FALSE, unsure |-> FALSE,
   selected |-> 0, skipped |-> 0, retryable |-> 0, denied |-> FALSE]

HistoryInit ==
  /\ now = Start
  /\ updated = Created
  /\ stored = {}
  /\ cursor = EmptyCursor
  /\ sync = NoSync
  /\ missed = {}
  /\ mishaps = 0
  /\ touches = 0

----------------------------------------------------------------------------
(* Searching.  view is what GitHub's index shows during the selection,     *)
(* flaky says that its answers carry incomplete_results.                   *)

\* minAuthoredTimestamp, with NoTime for a nil time.
Earliest(a, b) ==
  IF b = NoTime THEN a ELSE IF a = NoTime THEN b ELSE Min({a, b})

OldestOf(targets) ==
  IF targets = <<>> THEN NoTime ELSE Min({Created[p] : p \in ToSet(targets)})

When(qualifier, p) ==
  IF qualifier = "created" THEN Created[p] ELSE updated[p]

\* The answer to a query, newest first.
Matches(view, qualifier, from, to) ==
  LET found == {p \in view : When(qualifier, p) \in from .. to}
  IN CHOOSE s \in [1 .. Cardinality(found) -> found] :
       \A i, j \in DOMAIN s :
          i < j => s[i] # s[j] /\ When(qualifier, s[i]) >= When(qualifier, s[j])

FirstN(s, n) == SubSeq(s, 1, Min({n, Len(s)}))

shouldSplitAuthoredSearchWindow(total, flaky, w) ==
  /\ w.depth < MaxDepth
  /\ flaky \/ total >= HardLimit
  /\ w.to > w.from
  /\ w.to - w.from >= MinSpan

\* What was found and when the oldest of it was created; cut is what an
\* answer held or hid and a limit left out.
Nothing == [targets |-> <<>>, oldest |-> NoTime, overflow |-> FALSE, cut |-> {}]

\* What one query gives when it is not split: never more than HardLimit
\* results, however many pages are read.
Page(items, limit, overflow) ==
  LET targets == FirstN(FirstN(items, HardLimit), limit)
  IN [targets |-> targets, oldest |-> OldestOf(targets),
      overflow |-> overflow \/ Len(items) >= HardLimit,
      cut |-> ToSet(items) \ ToSet(targets)]

\* The newer half of a window and, when it leaves room, the older half.
Both(recent, older) ==
  [targets  |-> recent.targets \o older.targets,
   oldest   |-> Earliest(recent.oldest, older.oldest),
   overflow |-> recent.overflow \/ older.overflow,
   cut      |-> recent.cut \cup older.cut]

Windows == [from : Int, to : Int, limit : Int, depth : 0 .. MaxDepth]

\* One window, where deeper gives what its halves hold.
SearchWindow(view, flaky, qualifier, deeper, w) ==
  LET items    == Matches(view, qualifier, w.from, w.to)
      midpoint == w.from + (w.to - w.from) \div 2
      split    == shouldSplitAuthoredSearchWindow(Len(items), flaky, w)
      Half(first, last, room) ==
        deeper[[from |-> first, to |-> last, limit |-> room, depth |-> w.depth + 1]]
      Then(recent) ==
        IF Len(recent.targets) >= w.limit THEN recent
        ELSE Both(recent, Half(w.from, midpoint, w.limit - Len(recent.targets)))
  IN IF w.limit <= 0 \/ w.to < w.from THEN Nothing
     ELSE IF split /\ midpoint > w.from THEN Then(Half(midpoint + 1, w.to, w.limit))
     ELSE Page(items, w.limit, split)

Searches(view, flaky, qualifier) ==
  LET found[w \in Windows] == SearchWindow(view, flaky, qualifier, found, w)
  IN found

discoverAuthoredPullRequestTargetsInWindow(view, flaky, qualifier, from, to, limit) ==
  Searches(view, flaky, qualifier)[
    [from |-> from, to |-> to, limit |-> limit, depth |-> 0]]

\* The last resort: no window at all, by time of update.
discoverAuthoredPullRequestTargetsBroad(view, limit) ==
  Page(Matches(view, "updated", Epoch, now), limit, FALSE)

----------------------------------------------------------------------------
(* Selecting: fetchAuthoredPullRequestTargets.                             *)

maxTargets == Min({Max({MinTargets, 6 * SyncLimit}), SearchLimit})
recentSeedLimit == Min({maxTargets, Max({2 * SyncLimit, MinSeed})})

shouldReserveAuthoredPRBackfill(cur) ==
  IF cur.backfillBeforeAt # NoTime THEN cur.backfillBeforeAt > Epoch
  ELSE ~cur.bootstrapComplete
       /\ (cur.oldestSeenAt = NoTime \/ cur.oldestSeenAt > Epoch)

incrementalTargetLimit(cur) ==
  IF shouldReserveAuthoredPRBackfill(cur) /\ maxTargets > 1
  THEN Min({Max({2 * SyncLimit, maxTargets \div 2}), maxTargets - 1})
  ELSE maxTargets

AppendUnique(targets, p) ==
  IF Len(targets) >= maxTargets \/ p \in ToSet(targets) THEN targets
  ELSE Append(targets, p)

appendUniqueAuthoredPullRequestTargets(base, next) ==
  LET merged[i \in 0 .. Len(next)] ==
        IF i = 0 THEN base ELSE AppendUnique(merged[i - 1], next[i])
  IN merged[Len(next)]

\* The targets and the statistics of a further search.  What it left out and
\* is older than all that it found is not lost to a later one.
Extend(sel, found) ==
  [targets  |-> appendUniqueAuthoredPullRequestTargets(sel.targets, found.targets),
   oldest   |-> Earliest(sel.oldest, found.oldest),
   overflow |-> sel.overflow \/ found.overflow,
   cut      |-> sel.cut \cup {p \in found.cut : Created[p] >= found.oldest}]

Room(sel) == maxTargets - Len(sel.targets)

authoredPRBackfillBoundary(cur, oldest) ==
  IF cur.backfillBeforeAt > Epoch THEN cur.backfillBeforeAt
  ELSE IF cur.bootstrapComplete THEN Epoch - 1
  ELSE IF cur.backfillBeforeAt # NoTime THEN cur.backfillBeforeAt
  ELSE IF oldest # NoTime THEN oldest - 1
  ELSE IF cur.oldestSeenAt # NoTime THEN cur.oldestSeenAt - 1
  ELSE now - BootstrapLookback

BackfillStart(before) == Max({before - BackfillWindow, Epoch})

BackfillFound(view, flaky, s) ==
  discoverAuthoredPullRequestTargetsInWindow(
    view, flaky, "created", BackfillStart(s.before), s.before, Room(s.sel))

BackfillTo(s, found, next) ==
  [sel |-> Extend(s.sel, found), before |-> next, moved |-> next, complete |-> FALSE]

\* Mutants.  The boundary passes the whole window although a full selection
\* left its older part out.
BackfillSkipsRest(view, flaky, s) ==
  IF Room(s.sel) <= 0 THEN s
  ELSE IF s.before < Epoch THEN [s EXCEPT !.complete = TRUE]
  ELSE BackfillTo(s, BackfillFound(view, flaky, s), BackfillStart(s.before) - 1)

\* An empty window leaves the boundary where it was.
BackfillStaysAtGap(view, flaky, s) ==
  LET found == BackfillFound(view, flaky, s)
  IN IF Room(s.sel) <= 0 THEN s
     ELSE IF s.before < Epoch THEN [s EXCEPT !.complete = TRUE]
     ELSE BackfillTo(s, found, IF found.oldest # NoTime THEN found.oldest - 1 ELSE s.before)

\* One turn of the loop over backfill windows.  moved is the new
\* BackfillBeforeAt, or NoTime when no window was searched.
BackfillRound(view, flaky, s) ==
  LET found == BackfillFound(view, flaky, s)
  IN IF Room(s.sel) <= 0 THEN s
     ELSE IF s.before < Epoch THEN [s EXCEPT !.complete = TRUE]
     ELSE BackfillTo(s, found, (IF found.oldest # NoTime THEN found.oldest
                                ELSE BackfillStart(s.before)) - 1)

Backfill(view, flaky, sel, before, complete) ==
  LET rounds[n \in 0 .. MaxWindows] ==
        IF n = 0
        THEN [sel |-> sel, before |-> before, moved |-> NoTime, complete |-> complete]
        ELSE BackfillRound(view, flaky, rounds[n - 1])
  IN rounds[MaxWindows]

\* The windows in the order of the code, each for what room the ones before
\* it left.
Find(view, flaky, qualifier, from, limit) ==
  discoverAuthoredPullRequestTargetsInWindow(view, flaky, qualifier, from, now, limit)

RecentSeed(view, flaky) ==
  Extend(Nothing, Find(view, flaky, "created", Max({Epoch, now - SeedLookback}),
                       recentSeedLimit))

IncrementalStart(cur) ==
  IF cur.lastSyncedAt = NoTime THEN now - BootstrapLookback ELSE cur.lastSyncedAt - Overlap

UpdatedLimit(cur, sel) == Min({incrementalTargetLimit(cur), Room(sel)})
IncrementalUpdated(view, flaky, cur, sel) ==
  Find(view, flaky, "updated", IncrementalStart(cur), UpdatedLimit(cur, sel))

CreatedLimit(sel) == Min({Room(sel), Max({SyncLimit, maxTargets \div 3})})
IncrementalCreated(view, flaky, cur, sel) ==
  Find(view, flaky, "created", IncrementalStart(cur), CreatedLimit(sel))

LeftOut(found, limit, p) == Len(found.targets) >= limit \/ p \in found.cut

\* New pull requests no later sync looks for, as the backfill has a boundary
\* before them: created before the incremental windows, while no sync has
\* counted yet, or more than both these windows took.
PassedBy(view, cur, updates, updatedLimit, creates, createdLimit) ==
  {p \in view :
     /\ cur.backfillBeforeAt # NoTime
     /\ IF Created[p] < IncrementalStart(cur)
        THEN cur.lastSyncedAt = NoTime /\ Created[p] > Start
        ELSE LeftOut(updates, updatedLimit, p) /\ LeftOut(creates, createdLimit, p)}

\* A pull request changed after it was created is found by its update, however
\* old it is.  When the backfill has no boundary yet, it begins before that one:
\* behind what was created later and no window of this selection held.
PulledBack(view, cur, updates) ==
  {p \in view :
     /\ cur.backfillBeforeAt = NoTime
     /\ \E t \in ToSet(updates.targets) :
          updated[t] > Created[t] /\ Created[t] <= Created[p]}

Newer(view, flaky, cur, seed) ==
  LET updates == IncrementalUpdated(view, flaky, cur, seed)
      sel     == Extend(seed, updates)
      creates == IncrementalCreated(view, flaky, cur, sel)
      both    == Extend(sel, creates)
  IN [both EXCEPT !.cut = @ \cup PassedBy(view, cur, updates, UpdatedLimit(cur, seed),
                                          creates, CreatedLimit(sel))
                            \cup PulledBack(view, cur, updates)]

Rescan(view, flaky, sel) ==
  IF sel.targets # <<>> THEN sel
  ELSE Extend(sel, Find(view, flaky, "created", Max({Epoch, now - RescanLookback}), maxTargets))

BroadFallback(view, sel) ==
  IF sel.targets # <<>> THEN sel
  ELSE Extend(sel, discoverAuthoredPullRequestTargetsBroad(view, maxTargets))

\* The cursor after a selection whose backfill moved to moved.
NextCursor(cur, oldest, moved, complete) ==
  LET before == IF moved = NoTime /\ oldest # NoTime THEN oldest - 1 ELSE moved
  IN [lastSyncedAt |-> now, oldestSeenAt |-> oldest, backfillBeforeAt |-> before,
      bootstrapComplete |-> complete \/ (before # NoTime /\ before < Epoch)]

\* What the windows have found in the end.
Selection(flaky, cur, seed, back, final) ==
  [base    |-> cur,
   targets |-> final.targets,
   cut     |-> final.cut,
   seeded  |-> Len(seed.targets),
   unsure  |-> flaky \/ final.overflow,
   next    |-> NextCursor(cur, Earliest(cur.oldestSeenAt, final.oldest),
                 IF back.moved # NoTime THEN back.moved ELSE cur.backfillBeforeAt,
                 back.complete)]

fetchAuthoredPullRequestTargets(view, flaky, cur) ==
  LET Finally(seed, back) ==
        Selection(flaky, cur, seed, back,
                  BroadFallback(view, Rescan(view, flaky, back.sel)))
      History(seed, newer) ==
        Finally(seed, Backfill(view, flaky, newer,
                               authoredPRBackfillBoundary(cur, newer.oldest),
                               cur.bootstrapComplete))
      From(seed) == History(seed, Newer(view, flaky, cur, seed))
  IN From(RecentSeed(view, flaky))

\* What is kept of a selection above SyncLimit: newest first and, while the
\* bootstrap goes on, a share of the oldest.
prioritizeAuthoredPullRequestTargets(targets, complete, seeded) ==
  LET quota    == Min({Max({1, SyncLimit \div 3}), SyncLimit - 1})
      recent   == IF seeded \in 1 .. (SyncLimit - quota - 1) THEN seeded
                  ELSE SyncLimit - quota
      historic == SyncLimit - recent
  IN IF Len(targets) <= SyncLimit THEN targets
     ELSE IF complete THEN FirstN(targets, SyncLimit)
     ELSE FirstN(targets, recent) \o FirstN(Reverse(targets), historic)

hasAuthoredPRCursorState(cur) == cur # EmptyCursor

----------------------------------------------------------------------------
(* One sync.                                                               *)

Mishap == mishaps < MaxMishaps /\ mishaps' = mishaps + 1

\* What a sync goes on with.
Keep(cur, hidden, sel) ==
  LET kept == prioritizeAuthoredPullRequestTargets(
                sel.targets, sel.next.bootstrapComplete, sel.seeded)
  IN /\ sync' = [NoSync EXCEPT !.pc = "hydrate", !.held = cur.lastSyncedAt,
                  !.base = sel.base, !.next = sel.next, !.targets = kept,
                  !.selected = Len(kept), !.unsure = sel.unsure,
                  !.full = Len(sel.targets) = maxTargets]
     /\ missed' = missed \cup (hidden \ stored)
                         \cup ((ToSet(sel.targets) \cup sel.cut) \ (ToSet(kept) \cup stored))

\* SyncUser up to the selection.  A cursor that cannot be loaded counts as
\* empty; an empty selection for a user without stored pull requests is
\* repeated with the empty cursor.
Select(cur, hidden) ==
  LET Fetch(c) == fetchAuthoredPullRequestTargets(
                    {p \in PRs : Created[p] <= now} \ hidden, hidden # {}, c)
      OrRepeat(sel) ==
        IF sel.targets = <<>> /\ stored = {} /\ hasAuthoredPRCursorState(cur)
        THEN Fetch(EmptyCursor) ELSE sel
  IN Keep(cur, hidden, OrRepeat(Fetch(cur)))

StartSync ==
  /\ sync.pc = "idle"
  /\ \/ Select(cursor, {}) /\ UNCHANGED mishaps
     \/ Select(EmptyCursor, {}) /\ cursor # EmptyCursor /\ Mishap
     \/ \E p \in PRs : Created[p] <= now /\ Select(cursor, {p}) /\ Mishap
  /\ UNCHANGED <<now, updated, stored, cursor, touches>>

Target == Head(sync.targets)

\* syncPullRequestSurface stores one pull request in one transaction.
Hydrate ==
  /\ sync.pc = "hydrate" /\ sync.targets # <<>>
  /\ sync' = [sync EXCEPT !.targets = Tail(@)]
  /\ stored' = stored \cup {Target}
  /\ missed' = missed \ {Target}
  /\ UNCHANGED <<now, updated, cursor, mishaps, touches>>

\* classifyAuthoredPullRequestHydrationError: 401, 403 and 404 are denied,
\* 409 and an unsupported version are neither, all others retryable.
SkipTarget ==
  /\ sync.pc = "hydrate" /\ sync.targets # <<>>
  /\ Mishap
  /\ \E kind \in {"denied", "retryable", "other"} :
       sync' = [sync EXCEPT !.targets = Tail(@), !.skipped = @ + 1,
                            !.denied = @ \/ kind = "denied",
                            !.retryable = IF kind = "retryable" THEN @ + 1 ELSE @]
  /\ missed' = missed \cup ({Target} \ stored)
  /\ UNCHANGED <<now, updated, stored, cursor, touches>>

shouldAdvanceAuthoredPRLastSynced ==
  /\ ~sync.unsure
  /\ sync.selected > 0
  /\ ~sync.denied
  /\ sync.retryable > 0 => sync.skipped < sync.selected

\* UpsertAuthoredPRHistoryCursor: a nil time leaves its row as it was.
UpsertAuthoredPRHistoryCursor(next) ==
  LET Row(new, old) == IF new = NoTime THEN old ELSE new
  IN cursor' = [lastSyncedAt |-> Row(next.lastSyncedAt, cursor.lastSyncedAt),
                oldestSeenAt |-> Row(next.oldestSeenAt, cursor.oldestSeenAt),
                backfillBeforeAt |-> Row(next.backfillBeforeAt, cursor.backfillBeforeAt),
                bootstrapComplete |-> next.bootstrapComplete]

FinishSync ==
  /\ sync.pc = "hydrate" /\ sync.targets = <<>>
  /\ sync' = NoSync
  /\ \/ /\ UpsertAuthoredPRHistoryCursor(
             IF shouldAdvanceAuthoredPRLastSynced THEN sync.next
             ELSE [sync.next EXCEPT !.lastSyncedAt = sync.held])
        /\ UNCHANGED mishaps
     \/ Mishap /\ UNCHANGED cursor      \* the run ends partial
  /\ UNCHANGED <<now, updated, stored, missed, touches>>

\* The pod dies: what was hydrated stays, the cursor does not move.
PodDies ==
  /\ sync.pc # "idle" /\ Mishap
  /\ sync' = NoSync
  /\ UNCHANGED <<now, updated, stored, cursor, missed, touches>>

----------------------------------------------------------------------------
(* GitHub.                                                                 *)

HistoryTick ==
  /\ now < MaxTime
  /\ now' = now + 1
  /\ UNCHANGED <<updated, stored, cursor, sync, missed, mishaps, touches>>

\* Someone comments on a pull request, closes it or pushes to it.
Touch(p) ==
  /\ Created[p] <= now /\ updated[p] < now /\ touches < MaxTouches
  /\ updated' = [updated EXCEPT ![p] = now]
  /\ touches' = touches + 1
  /\ UNCHANGED <<now, stored, cursor, sync, missed, mishaps>>

HistoryNext ==
  \/ StartSync \/ Hydrate \/ SkipTarget \/ FinishSync \/ PodDies
  \/ HistoryTick \/ \E p \in PRs : Touch(p)

HistorySpec == HistoryInit /\ [][HistoryNext]_historyVars

----------------------------------------------------------------------------
\* When the bootstrap is complete, all that was created up to the last sync is
\* in the database, except what a sync knew of or passed by (missed): left out
\* by the cap or a limit, hidden by an incomplete answer of GitHub, not hydrated,
\* created in a hole between two syncs, or behind an old pull request that was
\* touched before the first sync.  The windows of fetchAuthoredPullRequestTargets
\* leave no other gap, whatever the splitting, touches, crashes and lost cursors.
NoOtherGap ==
  cursor.bootstrapComplete =>
     \A p \in PRs :
        Created[p] <= Max({Start, cursor.lastSyncedAt}) => p \in stored \cup missed

\* Every sync whose cursor is stored brings the backfill nearer to the
\* epoch, over any gap of the history, and declares the bootstrap complete only
\* there; only a selection that recent work has filled leaves it in place.  The
\* first cursor has none to compare with, and a sync that could not load the
\* cursor may set the boundary back (sync.base # cursor): both are excepted.
BackfillProgress ==
  [][cursor' # cursor /\ sync.base = cursor /\ cursor # EmptyCursor =>
       \/ cursor'.bootstrapComplete /\ cursor'.backfillBeforeAt = Epoch - 1
       \/ cursor'.backfillBeforeAt < cursor.backfillBeforeAt
       \/ sync.full /\ cursor'.backfillBeforeAt = cursor.backfillBeforeAt]_historyVars
============================================================================
