---------------------------- MODULE PublicPages ----------------------------
(***************************************************************************)
(* What profile-service shows in public: the weekly leaderboard seasons    *)
(* and the profile page, while owners change their privacy settings, hide  *)
(* repositories and delete their accounts (auth-service).                  *)
(*                                                                         *)
(* A season is rebuilt in one READ COMMITTED transaction that reads its    *)
(* candidates first and takes the season's row lock second; from the lock  *)
(* to the commit no other rebuild of that season runs, so that part is one *)
(* step.  A page is assembled from several reads and kept in a cache whose *)
(* key names the second of the latest change, not the change.              *)
(***************************************************************************)
EXTENDS Integers, FiniteSets, FiniteSetsExt, Sequences

CONSTANTS Users,          \* numbers, in the order of their ids
          Repos,          \* repositories a user may hide
          Requests,       \* the requests of a behaviour
          Plans,          \* what each request asks for
          MaxLimit,       \* LeaderboardMaxLimit
          Week, TTL,      \* a week and leaderboardSeasonRefreshTTL, in seconds
          Start, MaxClock

ASSUME PagesAssumption ==
    /\ Users \subseteq Int /\ IsFiniteSet(Users)
    /\ MaxLimit \in Nat /\ TTL \in Nat
    /\ Week \in Nat \ {0}
    /\ Start \in Nat \ {0} /\ MaxClock \in Nat /\ Start <= MaxClock

Kinds == {"board", "job", "history", "update", "hide", "page", "refresh", "delete"}

ASSUME PlansAssumption ==
    \A plan \in Plans, r \in Requests :
        /\ plan[r].kind \in Kinds
        /\ plan[r].kind \in {"board", "job", "history"} => plan[r].limit \in Nat
        /\ plan[r].kind \notin {"board", "job", "history"} => plan[r].user \in Users
        /\ plan[r].kind = "refresh" => plan[r].total \in Int
        /\ plan[r].kind = "hide" => plan[r].repo \in Repos /\ plan[r].hidden \in BOOLEAN
        /\ plan[r].kind = "update" =>
              \A field \in {"public", "shows"} :
                  field \in DOMAIN plan[r].set => plan[r].set[field] \in BOOLEAN

VARIABLES settings,       \* users.profile_visibility and user_profile_settings
          visibility,     \* user_repository_visibility
          snaps,          \* profile_snapshots: [user, at, total]
          seasons,        \* leaderboard_seasons and their entries, by week
          events,         \* leaderboard_rank_movement_events, by event_key
          cache,          \* the page cache: a function of the keys it holds
          gone,           \* the users whose accounts are deleted
          out,            \* since when each user is off the board, 0 if on it
          req, clock

vars == <<settings, visibility, snaps, seasons, events, cache, gone, out, req, clock>>

-----------------------------------------------------------------------------
(* Requests: what is asked, where it is, and what it has read.             *)

Steps(kind) ==
    CASE kind = "board"   -> <<"fresh", "candidates", "commit">>
      [] kind = "job"     -> <<"candidates", "commit">>
      [] kind = "history" -> <<"candidates", "commit", "candidates", "commit">>
      [] kind = "update"  -> <<"load", "users", "settings">>
      [] kind = "hide"    -> <<"visibility">>
      [] kind = "page"    -> <<"settings?", "visibility?", "snapshot?", "get", "set">>
      [] kind = "refresh" -> <<"insert">>
      [] kind = "delete"  -> <<"delete">>

At(r, step) == /\ req[r].pc \in 1 .. Len(Steps(req[r].ask.kind))
               /\ Steps(req[r].ask.kind)[req[r].pc] = step

Go(r, f) == req' = [req EXCEPT ![r] =
                [x \in DOMAIN @ |-> IF x = "pc" THEN @.pc + 1
                                    ELSE IF x \in DOMAIN f THEN f[x] ELSE @[x]]]

Answer(r, what) == req' = [req EXCEPT ![r].pc = 100, ![r].answer = {what}]

Answered(r) == req[r].answer # {}

\* An error is answered
Fail(r) == req' = [req EXCEPT ![r].pc = 100]

\* `lost' are the entries that went with their users' accounts
NoSeason == [at |-> 0, entries |-> {}, lost |-> {}]

\* `ver' counts the changes, `late' those that did not move the time on
Defaults == [public |-> TRUE, shows |-> TRUE, exact |-> TRUE,
             at |-> 0, ver |-> 0, late |-> 0]

NoRows == [hidden |-> {}, at |-> 0, ver |-> 0, late |-> 0]

Late(old, new, late) == IF new > old THEN late ELSE late + 1

\* Every user has a snapshot of last week; settings are the defaults
Init ==
    /\ settings = [u \in Users |-> Defaults]
    /\ visibility = [u \in Users |-> [hidden |-> {}, times |-> [x \in Repos |-> 0],
                                      ver |-> 0, late |-> 0]]
    /\ snaps = {[user |-> u, at |-> 1, total |-> u] : u \in Users}
    /\ seasons = [w \in 0 .. (MaxClock \div Week) |-> NoSeason]
    /\ events = {} /\ cache = << >> /\ gone = {}
    /\ out = [u \in Users |-> 0]
    /\ clock = Start
    /\ \E plan \in Plans :
          req = [r \in Requests |->
                   [ask |-> plan[r], pc |-> 0, now |-> 0, cand |-> << >>,
                    seen |-> Defaults, vis |-> NoRows, snap |-> 0, answer |-> {}]]

\* now.UTC() of the handler; a page loads its user with it
Begin(r) ==
    /\ req[r].pc = 0
    /\ IF req[r].ask.kind = "page" /\ (req[r].ask.user \in gone \/
                                       ~settings[req[r].ask.user].public)
       THEN Fail(r)
       ELSE Go(r, [now |-> clock])
    /\ UNCHANGED <<settings, visibility, snaps, seasons, events, cache, gone, out, clock>>

Tick ==
    /\ clock < MaxClock
    /\ clock' = clock + 1
    /\ UNCHANGED <<settings, visibility, snaps, seasons, events, cache, gone, out, req>>

-----------------------------------------------------------------------------
(* Leaderboard seasons.                                                    *)

currentLeaderboardSeason(now) == now \div Week

Eligible(u) == u \notin gone /\ settings[u].public /\ settings[u].shows

\* The latest snapshot of a user that is not later than asOf
LatestAsOf(u, asOf) ==
    {s \in snaps : /\ s.user = u /\ s.at <= asOf
                   /\ \A t \in snaps : t.user = u /\ t.at <= asOf => t.at <= s.at}

Above(s, t) == \/ s.total > t.total
               \/ s.total = t.total /\ s.at > t.at
               \/ s.total = t.total /\ s.at = t.at /\ s.user < t.user

\* DISTINCT ON (user_id) keeps one row of each user, any one of equal times
latest_snapshots(asOf) ==
    LET listed == {u \in Users : Eligible(u) /\ LatestAsOf(u, asOf) # {}}
    IN  {{pick[u] : u \in listed} :
            pick \in {f \in [listed -> snaps] : \A u \in listed : f[u] \in LatestAsOf(u, asOf)}}

Rank(s, all) == 1 + Cardinality({t \in all : Above(t, s)})

loadRankedLeaderboardCandidates(all, limit) ==
    {[user |-> s.user, snap |-> s, rank |-> Rank(s, all)] :
        s \in {t \in all : Rank(t, all) <= limit}}

\* The stored season, if it is of this week, generated within the TTL and not
\* empty; privacy settings are not read again
LoadFreshLeaderboardSeason(now, limit) ==
    LET season == seasons[currentLeaderboardSeason(now)]
    IN  IF season.at >= now - TTL THEN {x \in season.entries : x.rank <= limit} ELSE {}

Shown(entries) == {x.user : x \in entries}

LoadFresh(r) ==
    /\ At(r, "fresh")
    /\ LET found == LoadFreshLeaderboardSeason(req[r].now, req[r].ask.limit)
       IN  IF found # {} THEN Answer(r, Shown(found)) ELSE Go(r, << >>)
    /\ UNCHANGED <<settings, visibility, snaps, seasons, events, cache, gone, out, clock>>

\* BackfillLeaderboardHistory anchors its second season a week earlier
Anchor(r) == IF req[r].ask.kind = "history" /\ req[r].pc > 2
             THEN req[r].now - Week ELSE req[r].now

\* A reader rebuilds the whole board, a job as much of it as it is asked for
Limit(r) == IF req[r].ask.kind = "board" THEN MaxLimit ELSE req[r].ask.limit

LoadCandidates(r) ==
    /\ At(r, "candidates")
    /\ \E all \in latest_snapshots(Anchor(r)) :
          Go(r, [cand |-> loadRankedLeaderboardCandidates(all, Limit(r))])
    /\ UNCHANGED <<settings, visibility, snaps, seasons, events, cache, gone, out, clock>>

\* What the season held before the lock was taken
loadPreviousLeaderboardRanks(w, u) == {x.rank : x \in {y \in seasons[w].entries : y.user = u}}

\* movement is previous rank minus rank, 0 for a newcomer
upsertLeaderboardSeasonSnapshot(w, c) ==
    [user |-> c.user, snap |-> c.snap, rank |-> c.rank,
     move |-> IF loadPreviousLeaderboardRanks(w, c.user) = {} THEN 0
              ELSE (CHOOSE p \in loadPreviousLeaderboardRanks(w, c.user) : TRUE) - c.rank]

EventKey(w, x) == [week |-> w, user |-> x.user, snap |-> x.snap, rank |-> x.rank]

\* One event per user, snapshot and rank; a repeat overwrites its delta
upsertLeaderboardRankMovement(w, entries) ==
    LET moved == {[key |-> EventKey(w, x), delta |-> x.move] : x \in entries}
    IN  {v \in events : \A m \in moved : m.key # v.key} \cup moved

\* Mutant: the deletion of stale entries is missing.
KeepStaleSeasonSnapshots(old, new) ==
    {x \in old : x.user \notin Shown(new)} \cup new

\* Entries of users who are no candidates any more go
deleteStaleLeaderboardSeasonSnapshots(old, new) == new

\* Mutant: the season takes the time of its commit.
SeasonStampedAtCommit(at, entries) == [at |-> clock, entries |-> entries, lost |-> {}]

\* generated_at is the time the run began, before it read its candidates
upsertLeaderboardSeason(at, entries) == [at |-> at, entries |-> entries, lost |-> {}]

MaterializeLeaderboardSeason(r) ==
    /\ At(r, "commit")
    /\ \A c \in req[r].cand : c.user \notin gone
    /\ LET w == currentLeaderboardSeason(Anchor(r))
           new == {upsertLeaderboardSeasonSnapshot(w, c) : c \in req[r].cand}
       IN  /\ seasons' = [seasons EXCEPT ![w] =
                 upsertLeaderboardSeason(Anchor(r),
                     deleteStaleLeaderboardSeasonSnapshots(@.entries, new))]
           /\ events' = upsertLeaderboardRankMovement(w, new)
           /\ IF req[r].ask.kind = "board"
              THEN Answer(r, Shown({x \in new : x.rank <= req[r].ask.limit}))
              ELSE Go(r, [cand |-> << >>])
    /\ UNCHANGED <<settings, visibility, snaps, cache, gone, out, clock>>

\* The entry of a user who is deleted by now refers to no row: all is rolled back
CommitFails(r) ==
    /\ At(r, "commit")
    /\ \E c \in req[r].cand : c.user \in gone
    /\ Fail(r)
    /\ UNCHANGED <<settings, visibility, snaps, seasons, events, cache, gone, out, clock>>

-----------------------------------------------------------------------------
(* Accounts, snapshots and settings.                                       *)

\* What goes with a user (ON DELETE CASCADE): the entries of every week, while the
\* others keep their ranks, ...
WithoutEntries(season, u) ==
    LET of == {x \in season.entries : x.user = u}
    IN  [season EXCEPT !.entries = @ \ of, !.lost = @ \cup of]

\* ... and the rows of hidden repositories
WithoutRows(v) ==
    [hidden |-> {}, times |-> [x \in Repos |-> 0], ver |-> v.ver + 1, late |-> v.late + 1]

DeleteAccount(r) ==
    /\ At(r, "delete")
    /\ LET u == req[r].ask.user
       IN  /\ u \notin gone
           /\ gone' = gone \cup {u}
           /\ snaps' = {s \in snaps : s.user # u}
           /\ events' = {v \in events : v.key.user # u}
           /\ seasons' = [w \in DOMAIN seasons |-> WithoutEntries(seasons[w], u)]
           /\ visibility' = [visibility EXCEPT ![u] = WithoutRows(@)]
           /\ out' = [out EXCEPT ![u] = IF @ > 0 THEN @ ELSE clock]
    /\ Go(r, << >>)
    /\ UNCHANGED <<settings, cache, clock>>

\* These statements need the user's row
UserIsGone(r) ==
    /\ \E step \in {"delete", "insert", "load", "visibility", "settings?", "snapshot?"} :
          At(r, step)
    /\ req[r].ask.user \in gone
    /\ Fail(r)
    /\ UNCHANGED <<settings, visibility, snaps, seasons, events, cache, gone, out, clock>>

InsertSnapshot(r) ==
    /\ At(r, "insert") /\ req[r].ask.user \notin gone
    /\ snaps' = snaps \cup {[user |-> req[r].ask.user, at |-> req[r].now,
                             total |-> req[r].ask.total]}
    /\ Go(r, << >>)
    /\ UNCHANGED <<settings, visibility, seasons, events, cache, gone, out, clock>>

\* A change as the database sees it, and since when the user is off the board;
\* an update of a row that is gone changes nothing
Change(u, new) ==
    IF u \in gone THEN UNCHANGED <<settings, out>>
    ELSE /\ settings' = [settings EXCEPT ![u] = new]
         /\ out' = [out EXCEPT ![u] = IF new.public /\ new.shows THEN 0
                                      ELSE IF @ > 0 THEN @ ELSE clock]

LoadProfileSettings(r) ==
    /\ At(r, "load") /\ req[r].ask.user \notin gone
    /\ Go(r, [seen |-> settings[req[r].ask.user]])
    /\ UNCHANGED <<settings, visibility, snaps, seasons, events, cache, gone, out, clock>>

Asked(r, field, value) ==
    IF field \in DOMAIN req[r].ask.set THEN req[r].ask.set[field] ELSE value

\* profile_visibility is updated by a statement of its own, if it is asked for
UpdateUsers(r) ==
    /\ At(r, "users")
    /\ LET u == req[r].ask.user
       IN  Change(u, [settings[u] EXCEPT !.public = Asked(r, "public", @)])
    /\ Go(r, << >>)
    /\ UNCHANGED <<visibility, snaps, seasons, events, cache, gone, clock>>

\* Every other setting is written back as it was loaded or asked for
UpdateProfileSettings(r) ==
    /\ At(r, "settings")
    /\ LET u == req[r].ask.user
       IN  Change(u, [settings[u] EXCEPT !.shows = Asked(r, "shows", req[r].seen.shows),
                                         !.exact = Asked(r, "exact", req[r].seen.exact),
                                         !.at = req[r].now, !.ver = @ + 1,
                                         !.late = Late(settings[u].at, req[r].now, @)])
    /\ Go(r, << >>)
    /\ UNCHANGED <<visibility, snaps, seasons, events, cache, gone, clock>>

\* The latest time in the rows of a user, 0 if there are none
Latest(times) == Max({0} \cup {times[x] : x \in Repos})

\* The row takes the handler's time, which may be older than what is stored
UpsertRepositoryVisibility(r) ==
    /\ At(r, "visibility") /\ req[r].ask.user \notin gone
    /\ LET ask == req[r].ask
           v == visibility[ask.user]
           times == [v.times EXCEPT ![ask.repo] = req[r].now]
       IN  visibility' = [visibility EXCEPT ![ask.user] =
              [hidden |-> IF ask.hidden THEN v.hidden \cup {ask.repo} ELSE v.hidden \ {ask.repo},
               times |-> times, ver |-> v.ver + 1,
               late |-> Late(Latest(v.times), Latest(times), v.late)]]
    /\ Go(r, << >>)
    /\ UNCHANGED <<settings, snaps, seasons, events, cache, gone, out, clock>>

-----------------------------------------------------------------------------
(* The public profile page.                                                *)

\* A hidden profile answers with an error
PageSettings(r) ==
    /\ At(r, "settings?") /\ req[r].ask.user \notin gone
    /\ LET now == settings[req[r].ask.user]
       IN  IF now.public THEN Go(r, [seen |-> now]) ELSE Fail(r)
    /\ UNCHANGED <<settings, visibility, snaps, seasons, events, cache, gone, out, clock>>

\* All rows of the user, and the latest of their times
View(u) == [hidden |-> visibility[u].hidden, at |-> Latest(visibility[u].times),
            ver |-> visibility[u].ver, late |-> visibility[u].late]

LoadRepositoryVisibility(r) ==
    /\ At(r, "visibility?")
    /\ Go(r, [vis |-> View(req[r].ask.user)])
    /\ UNCHANGED <<settings, visibility, snaps, seasons, events, cache, gone, out, clock>>

PageSnapshot(r) ==
    /\ At(r, "snapshot?")
    /\ \E s \in LatestAsOf(req[r].ask.user, MaxClock) : Go(r, [snap |-> s])
    /\ UNCHANGED <<settings, visibility, snaps, seasons, events, cache, gone, out, clock>>

\* Mutant: the key leaves the repositories' visibility out.
KeyWithoutVisibility(r) == <<req[r].ask.user, req[r].snap, req[r].seen.at>>

\* Unix seconds of the last change of the settings and of any repository's row
cacheKey(r) == <<req[r].ask.user, req[r].snap, req[r].seen.at, req[r].vis.at>>

\* A page is made of what was read: the settings and what is hidden
publicResponseFromSnapshot(r) ==
    [snap |-> req[r].snap, seen |-> req[r].seen, vis |-> req[r].vis]

\* A read error counts as a miss
GetJSON(r) ==
    /\ At(r, "get")
    /\ \/ cacheKey(r) \in DOMAIN cache /\ Answer(r, cache[cacheKey(r)])
       \/ Go(r, << >>)
    /\ UNCHANGED <<settings, visibility, snaps, seasons, events, cache, gone, out, clock>>

\* The page is answered whether or not it could be stored
SetJSON(r) ==
    /\ At(r, "set")
    /\ \/ cache' = [k \in DOMAIN cache \cup {cacheKey(r)} |->
                      IF k = cacheKey(r) THEN publicResponseFromSnapshot(r) ELSE cache[k]]
       \/ cache' = cache
    /\ Answer(r, publicResponseFromSnapshot(r))
    /\ UNCHANGED <<settings, visibility, snaps, seasons, events, gone, out, clock>>

\* publicCacheTTL passes
Expire ==
    /\ DOMAIN cache # {}
    /\ cache' = << >>
    /\ UNCHANGED <<settings, visibility, snaps, seasons, events, gone, out, req, clock>>

Next ==
    \/ \E r \in Requests :
          \/ Begin(r) \/ LoadFresh(r) \/ LoadCandidates(r) \/ MaterializeLeaderboardSeason(r)
          \/ CommitFails(r) \/ DeleteAccount(r) \/ UserIsGone(r)
          \/ InsertSnapshot(r) \/ LoadProfileSettings(r) \/ UpdateUsers(r)
          \/ UpdateProfileSettings(r) \/ UpsertRepositoryVisibility(r)
          \/ PageSettings(r) \/ LoadRepositoryVisibility(r) \/ PageSnapshot(r)
          \/ GetJSON(r) \/ SetJSON(r)
    \/ Tick \/ Expire

Spec == Init /\ [][Next]_vars

-----------------------------------------------------------------------------
(* Properties.                                                             *)

\* A stored season is one board, not a mix of the runs that wrote it: ranks are
\* 1, 2, 3 ..., one per user, in the order of the totals, and the only ranks
\* nobody has are those whose users deleted their accounts since; nobody who did
\* is still on it; the season's time lies in its week and no snapshot is newer,
\* also in a week that is rebuilt later; every entry has its movement event.
SeasonIsOneBoard ==
    \A w \in DOMAIN seasons :
        LET entries == seasons[w].entries
            lost == seasons[w].lost
            written == entries \cup lost
        IN  /\ {x.rank : x \in written} = 1 .. Cardinality(written)
            /\ Cardinality(Shown(written)) = Cardinality(written)
            /\ \A x, y \in written : x.rank < y.rank => Above(x.snap, y.snap)
            /\ Shown(entries) \cap gone = {} /\ Shown(lost) \subseteq gone
            /\ seasons[w].at # 0 => currentLeaderboardSeason(seasons[w].at) = w
            /\ \A x \in entries : /\ x.snap.at <= seasons[w].at
                                  /\ \E v \in events : v.key = EventKey(w, x)

\* A user who has been private, opted out or deleted for longer than the refresh
\* TTL when a board is asked for is not on it, whichever runs raced the change.
OptedOutLeavesBoard ==
    \A r \in Requests : req[r].ask.kind = "board" /\ Answered(r) =>
        \A shown \in req[r].answer : \A u \in shown :
            ~(out[u] > 0 /\ out[u] < req[r].now - TTL)

\* A page shows the settings and the hidden repositories its request read.  The
\* cache answers with others only if, between the two readings, a change was
\* stored that did not move the latest time on: one of the same second, or one
\* whose handler began before that of a change already stored, be it of another
\* repository.  It never brings back what a change in time order replaced.
PageIsAsRead ==
    \A r \in Requests : req[r].ask.kind = "page" /\ Answered(r) =>
        \A page \in req[r].answer :
            /\ page.snap = req[r].snap
            /\ page.seen.ver = req[r].seen.ver \/ page.seen.late # req[r].seen.late
            /\ page.vis.ver = req[r].vis.ver \/ page.vis.late # req[r].vis.late

=============================================================================
