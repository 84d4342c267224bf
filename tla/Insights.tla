------------------------------ MODULE Insights ------------------------------
(***************************************************************************)
(* What is derived from one user's stored pull requests: pr-analyzer's     *)
(* analyses, scoring-engine's replays and badges, profile-service's        *)
(* snapshots, quest boards, rewards and pull request reports, and the      *)
(* scheduler's pipeline jobs and the page visits that run their stages.    *)
(*                                                                         *)
(* Every request stamps what it writes with the time it began, reads its   *)
(* input later and writes later still; "the latest" is the one with the    *)
(* greatest stamp, whichever was written last.  Requests of two jobs       *)
(* interleave at every statement or transaction.                           *)
(***************************************************************************)
EXTENDS Integers, FiniteSets, Sequences

CONSTANTS PRs,          \* the user's public pull requests
          Lanes,        \* skill lanes, in the order weakestQuestSkill prefers
          LaneOf,       \* LaneOf[p]: the lane p's score event names and feeds
          Earns(_, _),  \* Earns(p, v): version v of p's row bears score
          MinBadgePRs,  \* BadgeMultiRepoRepositoryMin, one repository a PR
          Templates,    \* liveQuestTemplates: records [id, lane, goal, badge]
          Jobs, Plans,  \* Plans: rows at first, [kind, pr] of each job, faults
          MaxFaults, MaxWeeks

LaneSet == {Lanes[i] : i \in DOMAIN Lanes}

JobKinds == {"grade", "score", "badge", "history", "visit"}

ScoreBadges == {"first_merged_pr", "multi_repo_operator"}

ASSUME InsightsAssumption ==
    /\ IsFiniteSet(PRs) /\ IsFiniteSet(Templates)
    /\ Len(Lanes) \in Nat \ {0} /\ DOMAIN Lanes = 1 .. Len(Lanes)
    /\ MinBadgePRs \in Nat \ {0}

\* Quests have names of their own, and so have the badges they give
ASSUME TemplatesAssumption ==
    \A t \in Templates :
        /\ t.goal \in Nat
        /\ t.id \notin LaneSet /\ t.badge \notin ScoreBadges
        /\ \A s \in Templates : s.id = t.id => s = t

ASSUME PlansAssumption ==
    \A plan \in Plans :
        /\ plan.row \in Nat
        /\ \A j \in Jobs : plan.jobs[j].kind \in JobKinds /\ plan.jobs[j].pr \in PRs

VARIABLES rows,         \* pull_requests: the version of each row, 0 none
          analyses,     \* contribution_analyses: created_at of the latest by PR
          replay,       \* the score_replay_runs row with the latest created_at
          scored,       \* PRs with a score event of any run
          badges,       \* user_badges: [key, run], run 0 for a quest's reward
          lone,         \* the last replay saved overlapped no other
          snapshot,     \* the profile_snapshots row with the latest refreshed_at
          board,        \* user_quest_assignments
          rewards,      \* completion, grant and quest.reward event of a quest
          graded,       \* row and analysis of the last grade jobs that completed
          jobs, clock, week, faults

vars == <<rows, analyses, replay, scored, badges, lone, snapshot, board,
          rewards, graded, jobs, clock, week, faults>>

MaxOf(S) == CHOOSE x \in S : \A y \in S : y <= x

-----------------------------------------------------------------------------
(* The stages of the pipeline jobs, each one request, as their steps.      *)

SyncStage == <<"sync">>

AnalyzePullRequest == <<"analyze">>

ReplayUser == <<"replayStart", "loadCandidates", "deleteBadges", "saveReplay">>

RefreshProfile == <<"refreshStart", "refreshLoad", "insertSnapshot", "newBoard">>

BackfillQuests == <<"ensureSnapshot", "rebuildLoad", "insertSnapshot",
                    "newBoard", "questBoard">>

MaterializeReport == <<"report">>

\* Mutant: the report is made before the analysis.
GradeReportsFirst ==
    SyncStage \o MaterializeReport \o AnalyzePullRequest \o ReplayUser \o RefreshProfile

executePullRequestGradeJob ==
    SyncStage \o AnalyzePullRequest \o ReplayUser \o RefreshProfile \o MaterializeReport

executeScoreHistoryBackfillJob == ReplayUser \o RefreshProfile

executeBadgeBackfillJob == ReplayUser \o BackfillQuests \o RefreshProfile

executeUserHistoryBackfillJob ==
    ReplayUser \o RefreshProfile \o BackfillQuests \o RefreshProfile
        \o MaterializeReport

Steps(kind) ==
    CASE kind = "grade"   -> executePullRequestGradeJob
      [] kind = "score"   -> executeScoreHistoryBackfillJob
      [] kind = "badge"   -> executeBadgeBackfillJob
      [] kind = "history" -> executeUserHistoryBackfillJob
      [] kind = "visit"   -> BackfillQuests

Done(j) == jobs[j].pc > Len(Steps(jobs[j].kind))

At(j, step) == ~Done(j) /\ Steps(jobs[j].kind)[jobs[j].pc] = step

\* Job j ends its current step and keeps fields f
Go(j, f) == jobs' = [jobs EXCEPT ![j] =
                [x \in DOMAIN @ |-> IF x = "pc" THEN @.pc + 1
                                    ELSE IF x \in DOMAIN f THEN f[x] ELSE @[x]]]

\* now.UTC() of a handler, taken before anything is read
Now == clock + 1

NoScore == [p \in PRs |-> [row |-> 0, an |-> 0]]
NoSnapshot == [at |-> 0, score |-> NoScore, rewards |-> {}, stale |-> TRUE]
NoReport == [an |-> 0, event |-> FALSE]

\* A job as it is leased
Fresh(kind, p) ==
    [kind |-> kind, pr |-> p, pc |-> 1, now |-> 0, week |-> 1, row |-> 0, an |-> 0,
     score |-> NoScore, solo |-> TRUE, seen |-> {}, snap |-> NoSnapshot,
     old |-> NoSnapshot, report |-> NoReport]

Init ==
    /\ analyses = [p \in PRs |-> 0]
    /\ replay = [at |-> 0, score |-> NoScore]
    /\ scored = {} /\ badges = {} /\ lone = TRUE
    /\ snapshot = NoSnapshot
    /\ board = {} /\ rewards = {}
    /\ graded = NoScore
    /\ \E plan \in Plans :
          /\ rows = [p \in PRs |-> plan.row]
          /\ faults = MaxFaults - plan.faults
          /\ jobs = [j \in Jobs |-> Fresh(plan.jobs[j].kind, plan.jobs[j].pr)]
    /\ clock = 0 /\ week = 1

-----------------------------------------------------------------------------
(* Sync and analysis.                                                      *)

\* SyncPullRequest writes the row whatever it held (see WebhookIntake)
SyncPullRequest(j) ==
    /\ At(j, "sync")
    /\ LET p == jobs[j].pr
       IN  /\ rows' = [rows EXCEPT ![p] = @ + 1]
           /\ Go(j, [row |-> rows[p] + 1])
    /\ UNCHANGED <<analyses, replay, scored, badges, lone, snapshot, board,
                   rewards, graded, clock, week, faults>>

\* The analysis row of the source that answered, AI or the deterministic
\* fallback, is updated or inserted with created_at = now: it is the latest
SavePullRequestAnalysis(j) ==
    /\ At(j, "analyze")
    /\ clock' = Now
    /\ analyses' = [analyses EXCEPT ![jobs[j].pr] = Now]
    /\ Go(j, [an |-> Now])
    /\ UNCHANGED <<rows, replay, scored, badges, lone, snapshot, board,
                   rewards, graded, week, faults>>

-----------------------------------------------------------------------------
(* Score replay: the stamp, one query, then one transaction.               *)

InReplay(j) == ~Done(j) /\ Steps(jobs[j].kind)[jobs[j].pc]
                  \in {"loadCandidates", "deleteBadges", "saveReplay"}

\* Every replay under way, and this one if there is any, overlaps another
StartReplay(j) ==
    /\ At(j, "replayStart")
    /\ clock' = Now
    /\ LET others == {k \in Jobs \ {j} : InReplay(k)}
       IN  jobs' = [k \in Jobs |->
              IF k = j THEN [jobs[k] EXCEPT !.pc = @ + 1, !.now = Now,
                                            !.solo = (others = {})]
              ELSE IF k \in others THEN [jobs[k] EXCEPT !.solo = FALSE]
              ELSE jobs[k]]
    /\ UNCHANGED <<rows, analyses, replay, scored, badges, lone, snapshot,
                   board, rewards, graded, week, faults>>

\* Every stored pull request with its latest analysis, or with none
LoadReplayCandidates ==
    [p \in PRs |-> [row |-> rows[p],
                    an |-> IF rows[p] = 0 THEN 0 ELSE analyses[p]]]

LoadCandidates(j) ==
    /\ At(j, "loadCandidates")
    /\ Go(j, [score |-> LoadReplayCandidates])
    /\ UNCHANGED <<rows, analyses, replay, scored, badges, lone, snapshot, board,
                   rewards, graded, clock, week, faults>>

\* buildReplay: an event per candidate, whose XP may be 0
Events(score) == {p \in PRs : score[p].row > 0}

Earning(score) == {p \in Events(score) : Earns(p, score[p].row)}

\* issueBadges counts only events that are not suspicious
issueBadges(score) ==
    {key \in ScoreBadges :
        Cardinality(Earning(score)) >= IF key = "first_merged_pr" THEN 1
                                       ELSE MinBadgePRs}

\* Mutant: a replay deletes the quests' badges too.
DeleteEveryIssuersBadges(old) == old

\* The rows that name scoring-engine as their issuer
DeletedBadges(old) == {b \in old : b.run > 0}

\* The DELETE of the transaction finds the rows committed when it begins
DeleteBadges(j) ==
    /\ At(j, "deleteBadges")
    /\ Go(j, [seen |-> DeletedBadges(badges)])
    /\ UNCHANGED <<rows, analyses, replay, scored, badges, lone, snapshot, board,
                   rewards, graded, clock, week, faults>>

\* Mutant: badges of the earlier run stay.
ReplaceBadgesKeepsOld(old, seen, keys, run) ==
    {b \in old : b.key \notin keys} \cup {[key |-> k, run |-> run] : k \in keys}

\* Rows a concurrent replay inserted meanwhile stay unless replaced by key
ReplaceBadges(old, seen, keys, run) ==
    {b \in old \ seen : b.key \notin keys} \cup {[key |-> k, run |-> run] : k \in keys}

\* Mutant: the latest replay is the one saved last.
LatestReplayIsLastSaved(r) == r

LatestReplay(r) == IF r.at > replay.at THEN r ELSE replay

SaveReplay(j) ==
    /\ At(j, "saveReplay")
    /\ LET me == jobs[j]
       IN  /\ replay' = LatestReplay([at |-> me.now, score |-> me.score])
           /\ scored' = scored \cup Events(me.score)
           /\ badges' = ReplaceBadges(badges, me.seen, issueBadges(me.score), me.now)
           /\ lone' = me.solo
    /\ Go(j, [seen |-> {}, score |-> NoScore, now |-> 0, solo |-> TRUE])
    /\ UNCHANGED <<rows, analyses, snapshot, board, rewards, graded,
                   clock, week, faults>>

-----------------------------------------------------------------------------
(* Profile snapshots.                                                      *)

StartRefresh(j) ==
    /\ At(j, "refreshStart")
    /\ clock' = Now
    /\ Go(j, [now |-> Now, week |-> week])
    /\ UNCHANGED <<rows, analyses, replay, scored, badges, lone, snapshot, board,
                   rewards, graded, week, faults>>

\* The latest run, whose events and the quest rewards are the score rows
LoadLatestScoreSelection == replay

LoadScoreRows(run) == [score |-> run.score, rewards |-> rewards]

buildSnapshot(found, now) ==
    [at |-> now, score |-> found.score, rewards |-> found.rewards, stale |-> FALSE]

loadSnapshotInputs(now) == buildSnapshot(LoadScoreRows(LoadLatestScoreSelection), now)

HasRows(snap) == Events(snap.score) # {} \/ snap.rewards # {}

\* Without score rows the refresh answers pending and stores nothing
RefreshProfileByUserID(j) ==
    /\ At(j, "refreshLoad")
    /\ LET snap == loadSnapshotInputs(jobs[j].now)
       IN  jobs' = [jobs EXCEPT ![j].pc = IF HasRows(snap) THEN @ + 1 ELSE @ + 3,
                                ![j].snap = snap]
    /\ UNCHANGED <<rows, analyses, replay, scored, badges, lone, snapshot, board,
                   rewards, graded, clock, week, faults>>

RebuildLoad(j) ==
    /\ At(j, "rebuildLoad")
    /\ Go(j, [snap |-> loadSnapshotInputs(jobs[j].now)])
    /\ UNCHANGED <<rows, analyses, replay, scored, badges, lone, snapshot, board,
                   rewards, graded, clock, week, faults>>

LatestSnapshot(snap) == IF snap.at > snapshot.at THEN snap ELSE snapshot

InsertSnapshot(j) ==
    /\ At(j, "insertSnapshot")
    /\ snapshot' = LatestSnapshot(jobs[j].snap)
    /\ Go(j, << >>)
    /\ UNCHANGED <<rows, analyses, replay, scored, badges, lone, board, rewards,
                   graded, clock, week, faults>>

\* The latest snapshot if it is not stale; else it is rebuilt
EnsureSnapshot(j) ==
    /\ At(j, "ensureSnapshot")
    /\ clock' = Now
    /\ jobs' = [jobs EXCEPT ![j].now = Now, ![j].week = week,
                            ![j].pc = IF snapshot.stale THEN @ + 1 ELSE @ + 4,
                            ![j].snap = snapshot, ![j].old = snapshot]
    /\ UNCHANGED <<rows, analyses, replay, scored, badges, lone, snapshot, board,
                   rewards, graded, week, faults>>

\* A rebuild that fails serves the snapshot there was, if there was one
RebuildFails(j) ==
    /\ faults < MaxFaults
    /\ faults' = faults + 1
    /\ ~Done(j)
    /\ \E i \in 1 .. 3 :
          /\ jobs[j].pc > i
          /\ Steps(jobs[j].kind)[jobs[j].pc - i] = "ensureSnapshot"
          /\ jobs[j].old.at > 0
          /\ jobs' = [jobs EXCEPT ![j].pc = @ + 4 - i, ![j].snap = jobs[j].old]
    /\ UNCHANGED <<rows, analyses, replay, scored, badges, lone, snapshot, board,
                   rewards, graded, clock, week>>

-----------------------------------------------------------------------------
(* Quest boards.                                                           *)

WeakGoal == 1

\* XP of a lane, in rewards' worth: score events and rewards feed their lanes
questSkillTotals(snap, lane) ==
    Cardinality({p \in Earning(snap.score) : LaneOf[p] = lane})
        + Cardinality({r \in snap.rewards : r.lane = lane})

\* The lane with the least XP, the first one in Lanes on a tie
weakestQuestSkill(snap) ==
    LET less(i, k) == \/ questSkillTotals(snap, Lanes[i]) < questSkillTotals(snap, Lanes[k])
                      \/ /\ questSkillTotals(snap, Lanes[i]) = questSkillTotals(snap, Lanes[k])
                         /\ i <= k
    IN  Lanes[CHOOSE i \in DOMAIN Lanes : \A k \in DOMAIN Lanes : less(i, k)]

\* Pull requests whose score events name the lane, and rewards whose quest does
matchingEvidence(snap, lane) ==
    [prs |-> {p \in Events(snap.score) : LaneOf[p] = lane},
     rewards |-> {r \in snap.rewards : r.lane = lane}]

weakLaneQuest(snap) ==
    LET lane == weakestQuestSkill(snap)
    IN  [id |-> lane, lane |-> lane, goal |-> WeakGoal, badge |-> ""]

\* With neither score history nor skills there is only the unpaid sync quest
buildQuestsFromSnapshot(snap) ==
    IF HasRows(snap) THEN {weakLaneQuest(snap)} \cup Templates ELSE {}

Progress(snap, quest) ==
    LET found == matchingEvidence(snap, quest.lane)
        n == Cardinality(found.prs) + Cardinality(found.rewards)
    IN  IF n < quest.goal THEN n ELSE quest.goal

\* Mutant: an assignment belongs to a snapshot instead of a week.
AssignmentKeyIsSnapshot(quest, snap, w) == [quest |-> quest.id, window |-> snap.at]

\* Quests expire at the end of the week, which the key names
questAssignmentKey(quest, snap, w) == [quest |-> quest.id, window |-> w]

Assigned(key) == {a \in board : a.key = key}

\* Mutant: an upsert overwrites progress and completion.
AssignmentReopens(key, progress, goal) ==
    [key |-> key, progress |-> progress, completed |-> progress >= goal]

\* Completed stays completed, and progress never falls
upsertQuestAssignment(key, progress, goal) ==
    LET old == Assigned(key)
        best == MaxOf({progress} \cup {a.progress : a \in old})
    IN  [key |-> key, progress |-> best,
         completed |-> progress >= goal \/ \E a \in old : a.completed]

Board(snap, w, quests) ==
    {upsertQuestAssignment(questAssignmentKey(q, snap, w), Progress(snap, q), q.goal) :
        q \in quests}

\* The quests whose assignment is completed; one completion an assignment
upsertQuestCompletion(snap, w, quests, assigned) ==
    {q \in quests : \E a \in assigned :
        a.key = questAssignmentKey(q, snap, w) /\ a.completed}

\* Grant and event are upserted by keys made of the assignment's id
upsertQuestXPReward(snap, w, quests) ==
    {r \in {[key |-> questAssignmentKey(q, snap, w), lane |-> q.lane, week |-> w] :
             q \in quests} : \A paid \in rewards : paid.key # r.key}

\* A badge the user holds already keeps its row and its issuer
upsertQuestBadgeReward(quests) ==
    {[key |-> k, run |-> 0] :
        k \in {q.badge : q \in quests} \ ({""} \cup {b.key : b \in badges})}

\* One transaction for the whole board
MaterializeQuestBoard(j) ==
    LET quests == buildQuestsFromSnapshot(jobs[j].snap)
        assigned == Board(jobs[j].snap, jobs[j].week, quests)
        completed == upsertQuestCompletion(jobs[j].snap, jobs[j].week, quests, assigned)
    IN  /\ board' = {a \in board : \A b \in assigned : b.key # a.key} \cup assigned
        /\ rewards' = rewards \cup upsertQuestXPReward(jobs[j].snap, jobs[j].week, completed)
        /\ badges' = badges \cup upsertQuestBadgeReward(completed)

NewBoard(j) ==
    /\ At(j, "newBoard") \/ At(j, "questBoard")
    /\ MaterializeQuestBoard(j)
    /\ Go(j, [snap |-> IF At(j, "newBoard") THEN jobs[j].snap ELSE NoSnapshot,
              old |-> NoSnapshot, now |-> 0])
    /\ UNCHANGED <<rows, analyses, replay, scored, lone, snapshot,
                   graded, clock, week, faults>>

-----------------------------------------------------------------------------
(* Pull request reports: what a report shows is composed when it is asked  *)
(* for; the report snapshots stored on the way are never read.             *)

\* The latest analysis, and a score event of any run: a pull request's own
\* events carry the time the work happened, a quest reward naming it is newer
LoadPullRequestReport(p) == [an |-> analyses[p], event |-> p \in scored]

\* An analysis names its source; a score event alone counts as a deterministic one
inferReportAnalysisSource(report) ==
    IF report.an > 0 THEN "persisted"
    ELSE IF report.event THEN "deterministic" ELSE "unknown"

\* The report's stale flag
reportEvidenceState(report) ==
    \/ ~report.event
    \/ report.an = 0 /\ inferReportAnalysisSource(report) # "deterministic"

\* A grade job answers with its report, a history job stores every scored one's
MaterializeReports(j) ==
    /\ At(j, "report")
    /\ Go(j, [report |-> IF jobs[j].kind = "grade"
                         THEN LoadPullRequestReport(jobs[j].pr) ELSE NoReport])
    /\ UNCHANGED <<rows, analyses, replay, scored, badges, lone, snapshot, board,
                   rewards, graded, clock, week, faults>>

-----------------------------------------------------------------------------
(* The worker.                                                             *)

Completed(j) == jobs[j].pc = Len(Steps(jobs[j].kind)) + 2

\* The job's answer is recorded; a grade's row and analysis are history
Complete(j) ==
    /\ jobs[j].pc = Len(Steps(jobs[j].kind)) + 1
    /\ jobs' = [jobs EXCEPT ![j].pc = @ + 1]
    /\ graded' = IF jobs[j].kind # "grade" THEN graded
                 ELSE [graded EXCEPT ![jobs[j].pr] =
                         [row |-> MaxOf({@.row, jobs[j].row}),
                          an |-> MaxOf({@.an, jobs[j].an})]]
    /\ UNCHANGED <<rows, analyses, replay, scored, badges, lone, snapshot, board,
                   rewards, clock, week, faults>>

\* Mutant: a failed job is not retried.
RestartNever(pc) == 100

\* A retried job runs all its stages again
Restart(pc) == 1

\* A stage fails before, within or after its effect and the worker retries
Fail(j) ==
    /\ jobs[j].pc <= Len(Steps(jobs[j].kind)) + 1
    /\ faults < MaxFaults
    /\ faults' = faults + 1
    /\ jobs' = [jobs EXCEPT ![j] = [Fresh(@.kind, @.pr) EXCEPT !.pc = Restart(jobs[j].pc),
                                    !.row = jobs[j].row, !.an = jobs[j].an]]
    /\ UNCHANGED <<rows, analyses, replay, scored, badges, lone, snapshot, board,
                   rewards, graded, clock, week>>

\* currentProfileSnapshotStaleTTL passes, and maybe the week ends
Age ==
    /\ ~snapshot.stale
    /\ snapshot' = [snapshot EXCEPT !.stale = TRUE]
    /\ week' \in {week, week + 1} /\ week' <= MaxWeeks
    /\ UNCHANGED <<rows, analyses, replay, scored, badges, lone, board, rewards,
                   graded, jobs, clock, faults>>

Step(j) ==
    \/ SyncPullRequest(j) \/ SavePullRequestAnalysis(j)
    \/ StartReplay(j) \/ LoadCandidates(j) \/ DeleteBadges(j) \/ SaveReplay(j)
    \/ StartRefresh(j) \/ RefreshProfileByUserID(j) \/ InsertSnapshot(j)
    \/ EnsureSnapshot(j) \/ RebuildLoad(j) \/ NewBoard(j)
    \/ MaterializeReports(j)
    \/ Complete(j)

Next == \/ \E j \in Jobs : Step(j) \/ Fail(j) \/ RebuildFails(j)
        \/ Age

\* A leased job is executed to its end and retried when a stage fails
Spec == Init /\ [][Next]_vars /\ \A j \in Jobs : WF_vars(Step(j))

-----------------------------------------------------------------------------
(* Properties.                                                             *)

\* Once a pull request is graded the profile shows the row and the analysis
\* that were graded or later ones, whatever other jobs and visits replay,
\* refresh and rebuild meanwhile and in whatever order their writes land.
GradedIsShown ==
    \A p \in PRs : /\ snapshot.score[p].row >= graded[p].row
                   /\ snapshot.score[p].an >= graded[p].an

\* The report a completed grade job answers with is not marked stale, and shows
\* the analysis the job itself stored or a later one.
GradedIsReported ==
    \A j \in Jobs : jobs[j].kind = "grade" /\ Completed(j) =>
        ~reportEvidenceState(jobs[j].report) /\ jobs[j].report.an >= jobs[j].an

\* After a replay that overlapped no other the user's scoring-engine badges are
\* exactly those the latest run awards: nothing of an earlier run is left over.
LoneReplayOwnsBadges ==
    lone => {b.key : b \in {x \in badges : x.run > 0}} = issueBadges(replay.score)

\* A quest pays once a week, however many refreshes, visits and retries find
\* it completed, and whoever is paid has completed it.
PaidOnceAWeek ==
    \A r \in rewards :
        /\ \E a \in board : a.key = r.key /\ a.completed
        /\ \A q \in rewards : q.week = r.week /\ q.key.quest = r.key.quest => q = r

\* A badge earned by a quest outlives every replay, though each one deletes and
\* reissues badges in the table the two services share.
QuestBadgesAreKept ==
    \A t \in Templates : t.badge # "" /\ (\E r \in rewards : r.key.quest = t.id) =>
        \E b \in badges : b.key = t.badge

\* An assignment is never taken back, even when later snapshots have lost the
\* evidence or an older snapshot's board is stored last.
CompletedStays ==
    [][\A a \in board : \E b \in board' :
          /\ b.key = a.key /\ b.progress >= a.progress
          /\ a.completed => b.completed]_vars

\* In the end the profile shows every stored row with its latest analysis.
EventuallyShown ==
    <>[](snapshot.score = LoadReplayCandidates)

=============================================================================
