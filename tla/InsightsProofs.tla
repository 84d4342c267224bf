-------------------------- MODULE InsightsProofs --------------------------
(***************************************************************************)
(* Theorems about Insights, for any pull requests, quests and jobs.        *)
(***************************************************************************)
EXTENDS Insights, FiniteSetTheorems, WellFoundedInduction, TLAPS

----------------------------------------------------------------------------
(* The steps of the jobs, one by one.                                      *)

StepNames ==
  {"sync", "analyze", "replayStart", "loadCandidates", "deleteBadges", "saveReplay",
   "refreshStart", "refreshLoad", "insertSnapshot", "newBoard", "ensureSnapshot",
   "rebuildLoad", "questBoard", "report"}

\* Where the parts of a concatenation are found.
Joins(s, t, u) ==
  /\ u \in Seq(StepNames) /\ Len(u) = Len(s) + Len(t)
  /\ \A i \in 1 .. Len(s) : u[i] = s[i]
  /\ \A k \in 1 .. Len(t) : u[Len(s) + k] = t[k]

LEMMA Join ==
  ASSUME NEW s \in Seq(StepNames), NEW t \in Seq(StepNames)
  PROVE  Joins(s, t, s \o t)
BY DEF Joins

LEMMA SyncPart ==
  /\ SyncStage \in Seq(StepNames) /\ Len(SyncStage) = 1
  /\ SyncStage[1] = "sync"
BY DEF StepNames, SyncStage

LEMMA AnalyzePart ==
  /\ AnalyzePullRequest \in Seq(StepNames) /\ Len(AnalyzePullRequest) = 1
  /\ AnalyzePullRequest[1] = "analyze"
BY DEF StepNames, AnalyzePullRequest

LEMMA ReplayPart ==
  /\ ReplayUser \in Seq(StepNames) /\ Len(ReplayUser) = 4
  /\ ReplayUser[1] = "replayStart" /\ ReplayUser[2] = "loadCandidates"
  /\ ReplayUser[3] = "deleteBadges" /\ ReplayUser[4] = "saveReplay"
BY DEF StepNames, ReplayUser

LEMMA RefreshPart ==
  /\ RefreshProfile \in Seq(StepNames) /\ Len(RefreshProfile) = 4
  /\ RefreshProfile[1] = "refreshStart" /\ RefreshProfile[2] = "refreshLoad"
  /\ RefreshProfile[3] = "insertSnapshot" /\ RefreshProfile[4] = "newBoard"
BY DEF StepNames, RefreshProfile

LEMMA QuestsPart ==
  /\ BackfillQuests \in Seq(StepNames) /\ Len(BackfillQuests) = 5
  /\ BackfillQuests[1] = "ensureSnapshot" /\ BackfillQuests[2] = "rebuildLoad"
  /\ BackfillQuests[3] = "insertSnapshot" /\ BackfillQuests[4] = "newBoard"
  /\ BackfillQuests[5] = "questBoard"
BY DEF StepNames, BackfillQuests

LEMMA ReportPart ==
  /\ MaterializeReport \in Seq(StepNames) /\ Len(MaterializeReport) = 1
  /\ MaterializeReport[1] = "report"
BY DEF StepNames, MaterializeReport

LEMMA GradeSteps ==
  /\ Len(Steps("grade")) = 11
  /\ Steps("grade")[1] = "sync" /\ Steps("grade")[2] = "analyze"
  /\ Steps("grade")[3] = "replayStart" /\ Steps("grade")[4] = "loadCandidates"
  /\ Steps("grade")[5] = "deleteBadges" /\ Steps("grade")[6] = "saveReplay"
  /\ Steps("grade")[7] = "refreshStart" /\ Steps("grade")[8] = "refreshLoad"
  /\ Steps("grade")[9] = "insertSnapshot" /\ Steps("grade")[10] = "newBoard"
  /\ Steps("grade")[11] = "report"
<1> DEFINE a == SyncStage \o AnalyzePullRequest
<1> DEFINE b == a \o ReplayUser
<1> DEFINE c == b \o RefreshProfile
<1> DEFINE d == c \o MaterializeReport
<1>1. Steps("grade") = d
  BY DEF Steps, executePullRequestGradeJob
<1> HIDE DEF a, b, c, d
<1>2. Joins(SyncStage, AnalyzePullRequest, a)
  BY SyncPart, AnalyzePart, Join DEF a
<1>3. /\ a \in Seq(StepNames) /\ Len(a) = 2
      /\ \A i \in 1 .. 1 : a[i] = SyncStage[i]
      /\ \A k \in 1 .. 1 : a[1 + k] = AnalyzePullRequest[k]
  BY <1>2, SyncPart, AnalyzePart DEF Joins
<1>4. /\ a[1 + 1] = "analyze"
  BY <1>3, AnalyzePart
<1>5. /\ a[1] = "sync" /\ a[2] = "analyze"
  BY <1>3, <1>4, SyncPart
<1>6. Joins(a, ReplayUser, b)
  BY <1>3, <1>5, ReplayPart, Join DEF b
<1>7. /\ b \in Seq(StepNames) /\ Len(b) = 6
      /\ \A i \in 1 .. 2 : b[i] = a[i]
      /\ \A k \in 1 .. 4 : b[2 + k] = ReplayUser[k]
  BY <1>6, <1>3, <1>5, ReplayPart DEF Joins
<1>8. /\ b[2 + 1] = "replayStart" /\ b[2 + 2] = "loadCandidates"
      /\ b[2 + 3] = "deleteBadges" /\ b[2 + 4] = "saveReplay"
  BY <1>7, ReplayPart
<1>9. /\ b[1] = "sync" /\ b[2] = "analyze"
      /\ b[3] = "replayStart" /\ b[4] = "loadCandidates"
      /\ b[5] = "deleteBadges" /\ b[6] = "saveReplay"
  BY <1>7, <1>8, <1>3, <1>5
<1>10. Joins(b, RefreshProfile, c)
  BY <1>7, <1>9, RefreshPart, Join DEF c
<1>11. /\ c \in Seq(StepNames) /\ Len(c) = 10
      /\ \A i \in 1 .. 6 : c[i] = b[i]
      /\ \A k \in 1 .. 4 : c[6 + k] = RefreshProfile[k]
  BY <1>10, <1>7, <1>9, RefreshPart DEF Joins
<1>12. /\ c[6 + 1] = "refreshStart" /\ c[6 + 2] = "refreshLoad"
      /\ c[6 + 3] = "insertSnapshot" /\ c[6 + 4] = "newBoard"
  BY <1>11, RefreshPart
<1>13. /\ c[1] = "sync" /\ c[2] = "analyze"
      /\ c[3] = "replayStart" /\ c[4] = "loadCandidates"
      /\ c[5] = "deleteBadges" /\ c[6] = "saveReplay"
      /\ c[7] = "refreshStart" /\ c[8] = "refreshLoad"
      /\ c[9] = "insertSnapshot" /\ c[10] = "newBoard"
  BY <1>11, <1>12, <1>7, <1>9
<1>14. Joins(c, MaterializeReport, d)
  BY <1>11, <1>13, ReportPart, Join DEF d
<1>15. /\ d \in Seq(StepNames) /\ Len(d) = 11
      /\ \A i \in 1 .. 10 : d[i] = c[i]
      /\ \A k \in 1 .. 1 : d[10 + k] = MaterializeReport[k]
  BY <1>14, <1>11, <1>13, ReportPart DEF Joins
<1>16. /\ d[10 + 1] = "report"
  BY <1>15, ReportPart
<1>17. /\ d[1] = "sync" /\ d[2] = "analyze"
      /\ d[3] = "replayStart" /\ d[4] = "loadCandidates"
      /\ d[5] = "deleteBadges" /\ d[6] = "saveReplay"
      /\ d[7] = "refreshStart" /\ d[8] = "refreshLoad"
      /\ d[9] = "insertSnapshot" /\ d[10] = "newBoard"
      /\ d[11] = "report"
  BY <1>15, <1>16, <1>11, <1>13
<1> QED
  BY <1>1, <1>15, <1>17

LEMMA ScoreSteps ==
  /\ Len(Steps("score")) = 8
  /\ Steps("score")[1] = "replayStart" /\ Steps("score")[2] = "loadCandidates"
  /\ Steps("score")[3] = "deleteBadges" /\ Steps("score")[4] = "saveReplay"
  /\ Steps("score")[5] = "refreshStart" /\ Steps("score")[6] = "refreshLoad"
  /\ Steps("score")[7] = "insertSnapshot" /\ Steps("score")[8] = "newBoard"
<1> DEFINE a == ReplayUser \o RefreshProfile
<1>1. Steps("score") = a
  BY DEF Steps, executeScoreHistoryBackfillJob
<1> HIDE DEF a
<1>2. Joins(ReplayUser, RefreshProfile, a)
  BY ReplayPart, RefreshPart, Join DEF a
<1>3. /\ a \in Seq(StepNames) /\ Len(a) = 8
      /\ \A i \in 1 .. 4 : a[i] = ReplayUser[i]
      /\ \A k \in 1 .. 4 : a[4 + k] = RefreshProfile[k]
  BY <1>2, ReplayPart, RefreshPart DEF Joins
<1>4. /\ a[4 + 1] = "refreshStart" /\ a[4 + 2] = "refreshLoad"
      /\ a[4 + 3] = "insertSnapshot" /\ a[4 + 4] = "newBoard"
  BY <1>3, RefreshPart
<1>5. /\ a[1] = "replayStart" /\ a[2] = "loadCandidates"
      /\ a[3] = "deleteBadges" /\ a[4] = "saveReplay"
      /\ a[5] = "refreshStart" /\ a[6] = "refreshLoad"
      /\ a[7] = "insertSnapshot" /\ a[8] = "newBoard"
  BY <1>3, <1>4, ReplayPart
<1> QED
  BY <1>1, <1>3, <1>5

LEMMA BadgeSteps ==
  /\ Len(Steps("badge")) = 13
  /\ Steps("badge")[1] = "replayStart" /\ Steps("badge")[2] = "loadCandidates"
  /\ Steps("badge")[3] = "deleteBadges" /\ Steps("badge")[4] = "saveReplay"
  /\ Steps("badge")[5] = "ensureSnapshot" /\ Steps("badge")[6] = "rebuildLoad"
  /\ Steps("badge")[7] = "insertSnapshot" /\ Steps("badge")[8] = "newBoard"
  /\ Steps("badge")[9] = "questBoard" /\ Steps("badge")[10] = "refreshStart"
  /\ Steps("badge")[11] = "refreshLoad" /\ Steps("badge")[12] = "insertSnapshot"
  /\ Steps("badge")[13] = "newBoard"
<1> DEFINE a == ReplayUser \o BackfillQuests
<1> DEFINE b == a \o RefreshProfile
<1>1. Steps("badge") = b
  BY DEF Steps, executeBadgeBackfillJob
<1> HIDE DEF a, b
<1>2. Joins(ReplayUser, BackfillQuests, a)
  BY ReplayPart, QuestsPart, Join DEF a
<1>3. /\ a \in Seq(StepNames) /\ Len(a) = 9
      /\ \A i \in 1 .. 4 : a[i] = ReplayUser[i]
      /\ \A k \in 1 .. 5 : a[4 + k] = BackfillQuests[k]
  BY <1>2, ReplayPart, QuestsPart DEF Joins
<1>4. /\ a[4 + 1] = "ensureSnapshot" /\ a[4 + 2] = "rebuildLoad"
      /\ a[4 + 3] = "insertSnapshot" /\ a[4 + 4] = "newBoard"
      /\ a[4 + 5] = "questBoard"
  BY <1>3, QuestsPart
<1>5. /\ a[1] = "replayStart" /\ a[2] = "loadCandidates"
      /\ a[3] = "deleteBadges" /\ a[4] = "saveReplay"
      /\ a[5] = "ensureSnapshot" /\ a[6] = "rebuildLoad"
      /\ a[7] = "insertSnapshot" /\ a[8] = "newBoard"
      /\ a[9] = "questBoard"
  BY <1>3, <1>4, ReplayPart
<1>6. Joins(a, RefreshProfile, b)
  BY <1>3, <1>5, RefreshPart, Join DEF b
<1>7. /\ b \in Seq(StepNames) /\ Len(b) = 13
      /\ \A i \in 1 .. 9 : b[i] = a[i]
      /\ \A k \in 1 .. 4 : b[9 + k] = RefreshProfile[k]
  BY <1>6, <1>3, <1>5, RefreshPart DEF Joins
<1>8. /\ b[9 + 1] = "refreshStart" /\ b[9 + 2] = "refreshLoad"
      /\ b[9 + 3] = "insertSnapshot" /\ b[9 + 4] = "newBoard"
  BY <1>7, RefreshPart
<1>9. /\ b[1] = "replayStart" /\ b[2] = "loadCandidates"
      /\ b[3] = "deleteBadges" /\ b[4] = "saveReplay"
      /\ b[5] = "ensureSnapshot" /\ b[6] = "rebuildLoad"
      /\ b[7] = "insertSnapshot" /\ b[8] = "newBoard"
      /\ b[9] = "questBoard" /\ b[10] = "refreshStart"
      /\ b[11] = "refreshLoad" /\ b[12] = "insertSnapshot"
      /\ b[13] = "newBoard"
  BY <1>7, <1>8, <1>3, <1>5
<1> QED
  BY <1>1, <1>7, <1>9

LEMMA HistorySteps ==
  /\ Len(Steps("history")) = 18
  /\ Steps("history")[1] = "replayStart" /\ Steps("history")[2] = "loadCandidates"
  /\ Steps("history")[3] = "deleteBadges" /\ Steps("history")[4] = "saveReplay"
  /\ Steps("history")[5] = "refreshStart" /\ Steps("history")[6] = "refreshLoad"
  /\ Steps("history")[7] = "insertSnapshot" /\ Steps("history")[8] = "newBoard"
  /\ Steps("history")[9] = "ensureSnapshot" /\ Steps("history")[10] = "rebuildLoad"
  /\ Steps("history")[11] = "insertSnapshot" /\ Steps("history")[12] = "newBoard"
  /\ Steps("history")[13] = "questBoard" /\ Steps("history")[14] = "refreshStart"
  /\ Steps("history")[15] = "refreshLoad" /\ Steps("history")[16] = "insertSnapshot"
  /\ Steps("history")[17] = "newBoard" /\ Steps("history")[18] = "report"
<1> DEFINE a == ReplayUser \o RefreshProfile
<1> DEFINE b == a \o BackfillQuests
<1> DEFINE c == b \o RefreshProfile
<1> DEFINE d == c \o MaterializeReport
<1>1. Steps("history") = d
  BY DEF Steps, executeUserHistoryBackfillJob
<1> HIDE DEF a, b, c, d
<1>2. Joins(ReplayUser, RefreshProfile, a)
  BY ReplayPart, RefreshPart, Join DEF a
<1>3. /\ a \in Seq(StepNames) /\ Len(a) = 8
      /\ \A i \in 1 .. 4 : a[i] = ReplayUser[i]
      /\ \A k \in 1 .. 4 : a[4 + k] = RefreshProfile[k]
  BY <1>2, ReplayPart, RefreshPart DEF Joins
<1>4. /\ a[4 + 1] = "refreshStart" /\ a[4 + 2] = "refreshLoad"
      /\ a[4 + 3] = "insertSnapshot" /\ a[4 + 4] = "newBoard"
  BY <1>3, RefreshPart
<1>5. /\ a[1] = "replayStart" /\ a[2] = "loadCandidates"
      /\ a[3] = "deleteBadges" /\ a[4] = "saveReplay"
      /\ a[5] = "refreshStart" /\ a[6] = "refreshLoad"
      /\ a[7] = "insertSnapshot" /\ a[8] = "newBoard"
  BY <1>3, <1>4, ReplayPart
<1>6. Joins(a, BackfillQuests, b)
  BY <1>3, <1>5, QuestsPart, Join DEF b
<1>7. /\ b \in Seq(StepNames) /\ Len(b) = 13
      /\ \A i \in 1 .. 8 : b[i] = a[i]
      /\ \A k \in 1 .. 5 : b[8 + k] = BackfillQuests[k]
  BY <1>6, <1>3, <1>5, QuestsPart DEF Joins
<1>8. /\ b[8 + 1] = "ensureSnapshot" /\ b[8 + 2] = "rebuildLoad"
      /\ b[8 + 3] = "insertSnapshot" /\ b[8 + 4] = "newBoard"
      /\ b[8 + 5] = "questBoard"
  BY <1>7, QuestsPart
<1>9. /\ b[1] = "replayStart" /\ b[2] = "loadCandidates"
      /\ b[3] = "deleteBadges" /\ b[4] = "saveReplay"
      /\ b[5] = "refreshStart" /\ b[6] = "refreshLoad"
      /\ b[7] = "insertSnapshot" /\ b[8] = "newBoard"
      /\ b[9] = "ensureSnapshot" /\ b[10] = "rebuildLoad"
      /\ b[11] = "insertSnapshot" /\ b[12] = "newBoard"
      /\ b[13] = "questBoard"
  BY <1>7, <1>8, <1>3, <1>5
<1>10. Joins(b, RefreshProfile, c)
  BY <1>7, <1>9, RefreshPart, Join DEF c
<1>11. /\ c \in Seq(StepNames) /\ Len(c) = 17
      /\ \A i \in 1 .. 13 : c[i] = b[i]
      /\ \A k \in 1 .. 4 : c[13 + k] = RefreshProfile[k]
  BY <1>10, <1>7, <1>9, RefreshPart DEF Joins
<1>12. /\ c[13 + 1] = "refreshStart" /\ c[13 + 2] = "refreshLoad"
      /\ c[13 + 3] = "insertSnapshot" /\ c[13 + 4] = "newBoard"
  BY <1>11, RefreshPart
<1>13. /\ c[1] = "replayStart" /\ c[2] = "loadCandidates"
      /\ c[3] = "deleteBadges" /\ c[4] = "saveReplay"
      /\ c[5] = "refreshStart" /\ c[6] = "refreshLoad"
      /\ c[7] = "insertSnapshot" /\ c[8] = "newBoard"
      /\ c[9] = "ensureSnapshot" /\ c[10] = "rebuildLoad"
      /\ c[11] = "insertSnapshot" /\ c[12] = "newBoard"
      /\ c[13] = "questBoard" /\ c[14] = "refreshStart"
      /\ c[15] = "refreshLoad" /\ c[16] = "insertSnapshot"
      /\ c[17] = "newBoard"
  BY <1>11, <1>12, <1>7, <1>9
<1>14. Joins(c, MaterializeReport, d)
  BY <1>11, <1>13, ReportPart, Join DEF d
<1>15. /\ d \in Seq(StepNames) /\ Len(d) = 18
      /\ \A i \in 1 .. 17 : d[i] = c[i]
      /\ \A k \in 1 .. 1 : d[17 + k] = MaterializeReport[k]
  BY <1>14, <1>11, <1>13, ReportPart DEF Joins
<1>16. /\ d[17 + 1] = "report"
  BY <1>15, ReportPart
<1>17. /\ d[1] = "replayStart" /\ d[2] = "loadCandidates"
      /\ d[3] = "deleteBadges" /\ d[4] = "saveReplay"
      /\ d[5] = "refreshStart" /\ d[6] = "refreshLoad"
      /\ d[7] = "insertSnapshot" /\ d[8] = "newBoard"
      /\ d[9] = "ensureSnapshot" /\ d[10] = "rebuildLoad"
      /\ d[11] = "insertSnapshot" /\ d[12] = "newBoard"
      /\ d[13] = "questBoard" /\ d[14] = "refreshStart"
      /\ d[15] = "refreshLoad" /\ d[16] = "insertSnapshot"
      /\ d[17] = "newBoard" /\ d[18] = "report"
  BY <1>15, <1>16, <1>11, <1>13
<1> QED
  BY <1>1, <1>15, <1>17, SMTT(60)

LEMMA VisitSteps ==
  /\ Len(Steps("visit")) = 5
  /\ Steps("visit")[1] = "ensureSnapshot" /\ Steps("visit")[2] = "rebuildLoad"
  /\ Steps("visit")[3] = "insertSnapshot" /\ Steps("visit")[4] = "newBoard"
  /\ Steps("visit")[5] = "questBoard"
BY QuestsPart DEF Steps

----------------------------------------------------------------------------
(* What stands before and after what.                                      *)

\* The step before a step of a replay or an insert, and the step where a
\* refresh without score rows and a visit that finds a snapshot go on.
Placed(s, i) ==
  /\ s[i] = "loadCandidates" => i > 1 /\ s[i - 1] = "replayStart"
  /\ s[i] = "deleteBadges" => i > 1 /\ s[i - 1] = "loadCandidates"
  /\ s[i] = "saveReplay" => i > 1 /\ s[i - 1] = "deleteBadges"
  /\ s[i] = "insertSnapshot" => i > 1 /\ s[i - 1] \in {"refreshLoad", "rebuildLoad"}
  /\ s[i] = "refreshLoad" /\ i + 3 <= Len(s) => s[i + 3] \in {"ensureSnapshot", "report"}
  /\ s[i] = "ensureSnapshot" => i + 4 <= Len(s) /\ s[i + 4] = "questBoard"

Orderly(s) ==
  /\ Len(s) \in 1 .. 18
  /\ s[1] \in {"sync", "replayStart", "ensureSnapshot"}
  /\ \A i \in 1 .. Len(s) : Placed(s, i)

LEMMA GradeOrder == Orderly(Steps("grade"))
<1> DEFINE s == Steps("grade")
<1>1. /\ Len(s) = 11
      /\ s[1] = "sync" /\ s[2] = "analyze" /\ s[3] = "replayStart"
      /\ s[4] = "loadCandidates" /\ s[5] = "deleteBadges" /\ s[6] = "saveReplay"
      /\ s[7] = "refreshStart" /\ s[8] = "refreshLoad" /\ s[9] = "insertSnapshot"
      /\ s[10] = "newBoard" /\ s[11] = "report"
  BY GradeSteps
<1> HIDE DEF s
<1>2. ASSUME NEW i \in 1 .. Len(s) PROVE Placed(s, i)
  <2>1. \/ i = 1 \/ i = 2 \/ i = 3 \/ i = 4 \/ i = 5 \/ i = 6
        \/ i = 7 \/ i = 8 \/ i = 9 \/ i = 10 \/ i = 11
    BY <1>1
  <2> QED
    BY <1>1, <2>1 DEF Placed
<1>3. Orderly(s)
  BY <1>1, <1>2 DEF Orderly
<1> QED
  BY <1>3 DEF s

LEMMA ScoreOrder == Orderly(Steps("score"))
<1> DEFINE s == Steps("score")
<1>1. /\ Len(s) = 8
      /\ s[1] = "replayStart" /\ s[2] = "loadCandidates" /\ s[3] = "deleteBadges"
      /\ s[4] = "saveReplay" /\ s[5] = "refreshStart" /\ s[6] = "refreshLoad"
      /\ s[7] = "insertSnapshot" /\ s[8] = "newBoard"
  BY ScoreSteps
<1> HIDE DEF s
<1>2. ASSUME NEW i \in 1 .. Len(s) PROVE Placed(s, i)
  <2>1. \/ i = 1 \/ i = 2 \/ i = 3 \/ i = 4 \/ i = 5 \/ i = 6
        \/ i = 7 \/ i = 8
    BY <1>1
  <2> QED
    BY <1>1, <2>1 DEF Placed
<1>3. Orderly(s)
  BY <1>1, <1>2 DEF Orderly
<1> QED
  BY <1>3 DEF s

LEMMA BadgeOrder == Orderly(Steps("badge"))
<1> DEFINE s == Steps("badge")
<1>1. /\ Len(s) = 13
      /\ s[1] = "replayStart" /\ s[2] = "loadCandidates" /\ s[3] = "deleteBadges"
      /\ s[4] = "saveReplay" /\ s[5] = "ensureSnapshot" /\ s[6] = "rebuildLoad"
      /\ s[7] = "insertSnapshot" /\ s[8] = "newBoard" /\ s[9] = "questBoard"
      /\ s[10] = "refreshStart" /\ s[11] = "refreshLoad" /\ s[12] = "insertSnapshot"
      /\ s[13] = "newBoard"
  BY BadgeSteps
<1> HIDE DEF s
<1>2. ASSUME NEW i \in 1 .. Len(s) PROVE Placed(s, i)
  <2>1. \/ i = 1 \/ i = 2 \/ i = 3 \/ i = 4 \/ i = 5 \/ i = 6
        \/ i = 7 \/ i = 8 \/ i = 9 \/ i = 10 \/ i = 11 \/ i = 12
        \/ i = 13
    BY <1>1
  <2> QED
    BY <1>1, <2>1 DEF Placed
<1>3. Orderly(s)
  BY <1>1, <1>2 DEF Orderly
<1> QED
  BY <1>3 DEF s

LEMMA HistoryOrder == Orderly(Steps("history"))
<1> DEFINE s == Steps("history")
<1>1. /\ Len(s) = 18
      /\ s[1] = "replayStart" /\ s[2] = "loadCandidates" /\ s[3] = "deleteBadges"
      /\ s[4] = "saveReplay" /\ s[5] = "refreshStart" /\ s[6] = "refreshLoad"
      /\ s[7] = "insertSnapshot" /\ s[8] = "newBoard" /\ s[9] = "ensureSnapshot"
      /\ s[10] = "rebuildLoad" /\ s[11] = "insertSnapshot" /\ s[12] = "newBoard"
      /\ s[13] = "questBoard" /\ s[14] = "refreshStart" /\ s[15] = "refreshLoad"
      /\ s[16] = "insertSnapshot" /\ s[17] = "newBoard" /\ s[18] = "report"
  BY HistorySteps
<1> HIDE DEF s
<1>2. ASSUME NEW i \in 1 .. Len(s) PROVE Placed(s, i)
  <2>1. \/ i = 1 \/ i = 2 \/ i = 3 \/ i = 4 \/ i = 5 \/ i = 6
        \/ i = 7 \/ i = 8 \/ i = 9 \/ i = 10 \/ i = 11 \/ i = 12
        \/ i = 13 \/ i = 14 \/ i = 15 \/ i = 16 \/ i = 17 \/ i = 18
    BY <1>1
  <2> QED
    BY <1>1, <2>1 DEF Placed
<1>3. Orderly(s)
  BY <1>1, <1>2 DEF Orderly
<1> QED
  BY <1>3 DEF s

LEMMA VisitOrder == Orderly(Steps("visit"))
<1> DEFINE s == Steps("visit")
<1>1. /\ Len(s) = 5
      /\ s[1] = "ensureSnapshot" /\ s[2] = "rebuildLoad" /\ s[3] = "insertSnapshot"
      /\ s[4] = "newBoard" /\ s[5] = "questBoard"
  BY VisitSteps
<1> HIDE DEF s
<1>2. ASSUME NEW i \in 1 .. Len(s) PROVE Placed(s, i)
  <2>1. \/ i = 1 \/ i = 2 \/ i = 3 \/ i = 4 \/ i = 5
    BY <1>1
  <2> QED
    BY <1>1, <2>1 DEF Placed
<1>3. Orderly(s)
  BY <1>1, <1>2 DEF Orderly
<1> QED
  BY <1>3 DEF s


LEMMA EveryOrder ==
  ASSUME NEW kind \in JobKinds
  PROVE  Orderly(Steps(kind))
BY GradeOrder, ScoreOrder, BadgeOrder, HistoryOrder, VisitOrder DEF JobKinds

\* Job q is about to take a step.
Stands(q, step) ==
  /\ q.pc <= Len(Steps(q.kind))
  /\ Steps(q.kind)[q.pc] = step

\* The step after a step.
LEMMA After ==
  ASSUME NEW q, NEW p, q.kind \in JobKinds, p.kind = q.kind,
         q.pc \in Nat, q.pc >= 1, p.pc = q.pc + 1
  PROVE  /\ Stands(p, "loadCandidates") => Stands(q, "replayStart")
         /\ Stands(p, "deleteBadges") => Stands(q, "loadCandidates")
         /\ Stands(p, "saveReplay") => Stands(q, "deleteBadges")
         /\ Stands(p, "insertSnapshot") => Stands(q, "refreshLoad") \/ Stands(q, "rebuildLoad")
<1> DEFINE s == Steps(q.kind)
<1> DEFINE i == q.pc
<1>1. Orderly(s) /\ i \in Nat /\ i >= 1
  BY EveryOrder
<1>2. \A x : Stands(q, x) <=> (i <= Len(s) /\ s[i] = x)
  BY DEF Stands
<1>3. \A x : Stands(p, x) <=> (i + 1 <= Len(s) /\ s[i + 1] = x)
  BY DEF Stands
<1> HIDE DEF s, i
<1>4. ASSUME i + 1 <= Len(s) PROVE Placed(s, i + 1) /\ (i + 1) - 1 = i /\ i <= Len(s)
  BY <1>1, <1>4 DEF Orderly
<1> QED
  BY <1>1, <1>2, <1>3, <1>4 DEF Placed

\* Where a job comes to that has nothing to show, that finds a snapshot or
\* that serves an old one, and where it starts.
Aside(p) ==
  \A step \in {"loadCandidates", "deleteBadges", "saveReplay", "insertSnapshot"} :
     ~Stands(p, step)

LEMMA Jumps ==
  ASSUME NEW q, NEW p, NEW i, q.kind \in JobKinds, p.kind = q.kind,
         q.pc \in Nat, i \in Nat, i >= 1, i <= Len(Steps(q.kind))
  PROVE  /\ p.pc = 1 => Aside(p)
         /\ Steps(q.kind)[i] = "refreshLoad" /\ p.pc = i + 3 => Aside(p)
         /\ Steps(q.kind)[i] = "ensureSnapshot" /\ p.pc = i + 4 => Aside(p)
<1> DEFINE s == Steps(q.kind)
<1> DEFINE k == p.pc
<1>1. Orderly(s) /\ i \in 1 .. Len(s) /\ Len(s) \in Nat
  BY EveryOrder DEF Orderly
<1>3. \A x : Stands(p, x) <=> (k <= Len(s) /\ s[k] = x)
  BY DEF Stands
<1> HIDE DEF s, k
<1>4. k = 1 => Aside(p)
  BY <1>1, <1>3 DEF Orderly, Aside
<1>5. Placed(s, i)
  BY <1>1 DEF Orderly
<1>6. s[i] = "refreshLoad" /\ k = i + 3 => Aside(p)
  BY <1>1, <1>3, <1>5 DEF Placed, Aside
<1>7. s[i] = "ensureSnapshot" /\ k = i + 4 => Aside(p)
  BY <1>1, <1>3, <1>5 DEF Placed, Aside
<1> QED
  BY <1>4, <1>6, <1>7 DEF s, k

\* The place of a grade job names its step.
LEMMA GradePlaces ==
  ASSUME NEW q, q.kind = "grade", q.pc \in Nat, q.pc >= 1
  PROVE  /\ Len(Steps(q.kind)) = 11
         /\ Stands(q, "sync") => q.pc = 1
         /\ Stands(q, "analyze") => q.pc = 2
         /\ Stands(q, "replayStart") => q.pc = 3
         /\ Stands(q, "loadCandidates") <=> q.pc = 4
         /\ Stands(q, "deleteBadges") <=> q.pc = 5
         /\ Stands(q, "saveReplay") <=> q.pc = 6
         /\ Stands(q, "refreshStart") => q.pc = 7
         /\ Stands(q, "refreshLoad") => q.pc = 8
         /\ Stands(q, "insertSnapshot") <=> q.pc = 9
         /\ Stands(q, "newBoard") => q.pc = 10
         /\ Stands(q, "report") => q.pc = 11
         /\ ~Stands(q, "questBoard") /\ ~Stands(q, "rebuildLoad")
         /\ \A i \in 1 .. 11 : Steps(q.kind)[i] # "ensureSnapshot"
<1> DEFINE s == Steps(q.kind)
<1> DEFINE i == q.pc
<1>1. s = Steps("grade")
  OBVIOUS
<1>2. \A x : Stands(q, x) <=> (i <= Len(s) /\ s[i] = x)
  BY DEF Stands
<1>3. i \in Nat /\ i >= 1
  OBVIOUS
<1> HIDE DEF s, i
<1>4. /\ Len(s) = 11
      /\ s[1] = "sync" /\ s[2] = "analyze" /\ s[3] = "replayStart"
      /\ s[4] = "loadCandidates" /\ s[5] = "deleteBadges" /\ s[6] = "saveReplay"
      /\ s[7] = "refreshStart" /\ s[8] = "refreshLoad" /\ s[9] = "insertSnapshot"
      /\ s[10] = "newBoard" /\ s[11] = "report"
  BY <1>1, GradeSteps
<1>5. \A n \in 1 .. 11 : s[n] # "ensureSnapshot"
  <2> SUFFICES ASSUME NEW n \in 1 .. 11 PROVE s[n] # "ensureSnapshot"
    OBVIOUS
  <2>1. \/ n = 1 \/ n = 2 \/ n = 3 \/ n = 4 \/ n = 5 \/ n = 6
        \/ n = 7 \/ n = 8 \/ n = 9 \/ n = 10 \/ n = 11
    OBVIOUS
  <2> QED
    BY <1>4, <2>1
<1>6. \/ i > 11 \/ i = 1 \/ i = 2 \/ i = 3 \/ i = 4 \/ i = 5 \/ i = 6
      \/ i = 7 \/ i = 8 \/ i = 9 \/ i = 10 \/ i = 11
  BY <1>3
<1>7. /\ s[i] = "sync" /\ i <= 11 => i = 1
      /\ s[i] = "analyze" /\ i <= 11 => i = 2
      /\ s[i] = "replayStart" /\ i <= 11 => i = 3
      /\ s[i] = "loadCandidates" /\ i <= 11 => i = 4
      /\ s[i] = "deleteBadges" /\ i <= 11 => i = 5
      /\ s[i] = "saveReplay" /\ i <= 11 => i = 6
      /\ s[i] = "refreshStart" /\ i <= 11 => i = 7
      /\ s[i] = "refreshLoad" /\ i <= 11 => i = 8
      /\ s[i] = "insertSnapshot" /\ i <= 11 => i = 9
      /\ s[i] = "newBoard" /\ i <= 11 => i = 10
      /\ s[i] = "report" /\ i <= 11 => i = 11
      /\ i <= 11 => s[i] \notin {"questBoard", "rebuildLoad"}
  BY <1>3, <1>4, <1>6
<1>8. ASSUME NEW x, Stands(q, x) PROVE s[i] = x /\ i <= 11
  BY <1>2, <1>4, <1>8
<1>10. /\ Stands(q, "sync") => i = 1
       /\ Stands(q, "analyze") => i = 2
       /\ Stands(q, "replayStart") => i = 3
       /\ Stands(q, "loadCandidates") => i = 4
       /\ Stands(q, "deleteBadges") => i = 5
       /\ Stands(q, "saveReplay") => i = 6
       /\ Stands(q, "refreshStart") => i = 7
       /\ Stands(q, "refreshLoad") => i = 8
       /\ Stands(q, "insertSnapshot") => i = 9
       /\ Stands(q, "newBoard") => i = 10
       /\ Stands(q, "report") => i = 11
       /\ ~Stands(q, "questBoard") /\ ~Stands(q, "rebuildLoad")
  BY <1>8, <1>7
<1>9. /\ i = 4 => Stands(q, "loadCandidates")
      /\ i = 5 => Stands(q, "deleteBadges")
      /\ i = 6 => Stands(q, "saveReplay")
      /\ i = 9 => Stands(q, "insertSnapshot")
  BY <1>2, <1>4
<1> QED
  BY <1>4, <1>5, <1>10, <1>9 DEF s, i

----------------------------------------------------------------------------
(* The types.                                                              *)

Fields == {"kind", "pr", "pc", "now", "week", "row", "an", "score", "solo", "seen",
           "snap", "old", "report"}

ScoreFits(score) == \A p \in PRs : score[p].row \in Nat /\ score[p].an \in Nat

SnapFits(snap, c) ==
  /\ DOMAIN snap = {"at", "score", "rewards", "stale"}
  /\ snap.at \in Nat /\ snap.at <= c
  /\ ScoreFits(snap.score) /\ IsFiniteSet(snap.rewards)

JobFits(q, c) ==
  /\ DOMAIN q = Fields
  /\ q.kind \in JobKinds /\ q.pr \in PRs
  /\ q.pc \in Nat /\ q.pc >= 1
  /\ q.now \in Nat /\ q.now <= c
  /\ q.row \in Nat /\ q.an \in Nat
  /\ ScoreFits(q.score) /\ SnapFits(q.snap, c) /\ SnapFits(q.old, c)
  /\ \A b \in q.seen : b.key \in ScoreBadges

JobsFit(js, c) ==
  /\ DOMAIN js = Jobs
  /\ \A j \in Jobs : JobFits(js[j], c)

DataFits(c, rs, as, rep, sn, gr, rew, bs) ==
  /\ c \in Nat
  /\ rs \in [PRs -> Nat] /\ as \in [PRs -> Nat]
  /\ \A p \in PRs : as[p] <= c
  /\ rep.at \in Nat /\ rep.at <= c /\ ScoreFits(rep.score)
  /\ SnapFits(sn, c)
  /\ gr \in [PRs -> [row : Nat, an : Nat]]
  /\ IsFiniteSet(rew)
  /\ \A b \in bs : b.run > 0 => b.key \in ScoreBadges

Typed ==
  \A c, rs, as, rep, sn, gr, rew, bs, js :
     /\ c = clock /\ rs = rows /\ as = analyses /\ rep = replay
     /\ sn = snapshot /\ gr = graded /\ rew = rewards /\ bs = badges /\ js = jobs
     => DataFits(c, rs, as, rep, sn, gr, rew, bs) /\ JobsFit(js, c)

LEMMA TypedIs ==
  ASSUME Typed
  PROVE  /\ DataFits(clock, rows, analyses, replay, snapshot, graded, rewards, badges)
         /\ JobsFit(jobs, clock)
BY DEF Typed

LEMMA TypedNext ==
  ASSUME DataFits(clock', rows', analyses', replay', snapshot', graded', rewards', badges'),
         JobsFit(jobs', clock')
  PROVE  Typed'
BY DEF Typed

LEMMA EmptyFits ==
  ASSUME NEW c \in Nat
  PROVE  ScoreFits(NoScore) /\ SnapFits(NoSnapshot, c)
<1>1. ScoreFits(NoScore)
  BY DEF ScoreFits, NoScore
<1>2. IsFiniteSet({})
  BY FS_EmptySet
<1> QED
  BY <1>1, <1>2 DEF SnapFits, NoSnapshot

LEMMA FreshFits ==
  ASSUME NEW kind \in JobKinds, NEW p \in PRs, NEW c \in Nat
  PROVE  JobFits(Fresh(kind, p), c)
BY EmptyFits DEF JobFits, Fresh, Fields

LEMMA JobLater ==
  ASSUME NEW q, NEW c \in Nat, NEW d \in Nat, c <= d, JobFits(q, c)
  PROVE  JobFits(q, d)
BY DEF JobFits, SnapFits

\* From js to ks only job j takes a step, which changes no field outside F.
Moved(js, ks, j, F) ==
  /\ DOMAIN ks = Jobs
  /\ \A k \in Jobs \ {j} : ks[k] = js[k]
  /\ DOMAIN ks[j] = Fields
  /\ \A f \in Fields \ F : ks[j][f] = js[j][f]

LEMMA MovedFits ==
  ASSUME NEW js, NEW ks, NEW j \in Jobs, NEW F, NEW c \in Nat, NEW d \in Nat, c <= d,
         JobsFit(js, c), Moved(js, ks, j, F), JobFits(ks[j], d)
  PROVE  JobsFit(ks, d)
BY JobLater DEF JobsFit, Moved

LEMMA GoMoves ==
  ASSUME NEW j \in Jobs, NEW f, JobsFit(jobs, clock), Go(j, f),
         DOMAIN f \subseteq Fields \ {"pc"}
  PROVE  /\ Moved(jobs, jobs', j, DOMAIN f \cup {"pc"})
         /\ jobs'[j].pc = jobs[j].pc + 1
         /\ \A x \in DOMAIN f : jobs'[j][x] = f[x]
<1> DEFINE q == jobs[j]
<1> DEFINE p == [x \in DOMAIN q |-> IF x = "pc" THEN q.pc + 1
                                    ELSE IF x \in DOMAIN f THEN f[x] ELSE q[x]]
<1>1. DOMAIN jobs = Jobs /\ DOMAIN q = Fields
  BY DEF JobsFit, JobFits
<1>2. jobs' = [jobs EXCEPT ![j] = p]
  BY DEF Go
<1>3. jobs'[j] = p /\ DOMAIN jobs' = Jobs /\ \A k \in Jobs \ {j} : jobs'[k] = jobs[k]
  BY <1>1, <1>2
<1>4. DOMAIN p = Fields /\ p.pc = q.pc + 1
  BY <1>1 DEF Fields
<1>5. \A x \in Fields \ (DOMAIN f \cup {"pc"}) : p[x] = q[x]
  BY <1>1
<1>6. \A x \in DOMAIN f : p[x] = f[x]
  BY <1>1
<1> HIDE DEF p, q
<1> QED
  BY <1>3, <1>4, <1>5, <1>6 DEF Moved, q

LEMMA AtStands ==
  ASSUME NEW j \in Jobs, NEW step, JobsFit(jobs, clock)
  PROVE  At(j, step) <=> Stands(jobs[j], step)
<1>1. jobs[j].kind \in JobKinds /\ jobs[j].pc \in Nat
  BY DEF JobsFit, JobFits
<1>2. Len(Steps(jobs[j].kind)) \in Nat
  BY <1>1, EveryOrder DEF Orderly
<1>3. Done(j) <=> ~(jobs[j].pc <= Len(Steps(jobs[j].kind)))
  BY <1>1, <1>2 DEF Done
<1> QED
  BY <1>3 DEF At, Stands

\* A snapshot is built from the latest run.
LEMMA BuiltFits ==
  ASSUME Typed, NEW now \in Nat, NEW c \in Nat, now <= c
  PROVE  SnapFits(loadSnapshotInputs(now), c)
<1>1. ScoreFits(replay.score) /\ IsFiniteSet(rewards)
  BY TypedIs DEF DataFits
<1> QED
  BY <1>1 DEF SnapFits, loadSnapshotInputs, buildSnapshot, LoadScoreRows, LoadLatestScoreSelection

LEMMA SyncPullRequestDoes ==
  ASSUME Typed, NEW j \in Jobs, SyncPullRequest(j)
  PROVE  /\ Stands(jobs[j], "sync")
         /\ Moved(jobs, jobs', j, {"row", "pc"})
         /\ jobs'[j].pc = jobs[j].pc + 1
         /\ jobs'[j].row = rows[jobs[j].pr] + 1
         /\ Typed'
<1> DEFINE f == [row |-> rows[jobs[j].pr] + 1]
<1>1. /\ DataFits(clock, rows, analyses, replay, snapshot, graded, rewards, badges)
      /\ JobsFit(jobs, clock) /\ JobFits(jobs[j], clock)
  BY TypedIs DEF JobsFit
<1>2. At(j, "sync") /\ Go(j, f)
  BY DEF SyncPullRequest
<1>3. Stands(jobs[j], "sync")
  BY <1>1, <1>2, AtStands
<1>4. DOMAIN f = {"row"} /\ DOMAIN f \subseteq Fields \ {"pc"}
  BY DEF Fields
<1>5. /\ Moved(jobs, jobs', j, {"row", "pc"})
      /\ jobs'[j].pc = jobs[j].pc + 1
      /\ jobs'[j].row = rows[jobs[j].pr] + 1
  <2>1. /\ Moved(jobs, jobs', j, DOMAIN f \cup {"pc"})
        /\ jobs'[j].pc = jobs[j].pc + 1
        /\ \A x \in DOMAIN f : jobs'[j][x] = f[x]
    <3> HIDE DEF f
    <3> QED
      BY <1>1, <1>2, <1>4, GoMoves
  <2>2. DOMAIN f \cup {"pc"} = {"row", "pc"}
    BY <1>4
  <2> QED
    BY <2>1, <2>2
<1> HIDE DEF f
<1>6. clock \in Nat /\ clock' \in Nat /\ clock <= clock'
  BY <1>1 DEF SyncPullRequest, DataFits, Now
<1>7. JobFits(jobs[j], clock')
  BY <1>1, <1>6, JobLater
<1>8. JobFits(jobs'[j], clock')
  BY <1>1, <1>5, <1>6, <1>7 DEF SyncPullRequest, JobFits, Moved, Fields, DataFits, Now
<1>9. DataFits(clock', rows', analyses', replay', snapshot', graded', rewards', badges')
  BY <1>1, <1>6 DEF SyncPullRequest, DataFits, JobFits, SnapFits, Now
<1>10. JobsFit(jobs', clock')
  BY <1>1, <1>5, <1>6, <1>8, MovedFits
<1> QED
  BY <1>3, <1>5, <1>9, <1>10, TypedNext

LEMMA SavePullRequestAnalysisDoes ==
  ASSUME Typed, NEW j \in Jobs, SavePullRequestAnalysis(j)
  PROVE  /\ Stands(jobs[j], "analyze")
         /\ Moved(jobs, jobs', j, {"an", "pc"})
         /\ jobs'[j].pc = jobs[j].pc + 1
         /\ jobs'[j].an = clock + 1
         /\ Typed'
<1> DEFINE f == [an |-> clock + 1]
<1>1. /\ DataFits(clock, rows, analyses, replay, snapshot, graded, rewards, badges)
      /\ JobsFit(jobs, clock) /\ JobFits(jobs[j], clock)
  BY TypedIs DEF JobsFit
<1>2. At(j, "analyze") /\ Go(j, f)
  BY DEF SavePullRequestAnalysis, Now
<1>3. Stands(jobs[j], "analyze")
  BY <1>1, <1>2, AtStands
<1>4. DOMAIN f = {"an"} /\ DOMAIN f \subseteq Fields \ {"pc"}
  BY DEF Fields
<1>5. /\ Moved(jobs, jobs', j, {"an", "pc"})
      /\ jobs'[j].pc = jobs[j].pc + 1
      /\ jobs'[j].an = clock + 1
  <2>1. /\ Moved(jobs, jobs', j, DOMAIN f \cup {"pc"})
        /\ jobs'[j].pc = jobs[j].pc + 1
        /\ \A x \in DOMAIN f : jobs'[j][x] = f[x]
    <3> HIDE DEF f
    <3> QED
      BY <1>1, <1>2, <1>4, GoMoves
  <2>2. DOMAIN f \cup {"pc"} = {"an", "pc"}
    BY <1>4
  <2> QED
    BY <2>1, <2>2
<1> HIDE DEF f
<1>6. clock \in Nat /\ clock' \in Nat /\ clock <= clock'
  BY <1>1 DEF SavePullRequestAnalysis, DataFits, Now
<1>7. JobFits(jobs[j], clock')
  BY <1>1, <1>6, JobLater
<1>8. JobFits(jobs'[j], clock')
  BY <1>1, <1>5, <1>6, <1>7 DEF SavePullRequestAnalysis, JobFits, Moved, Fields, DataFits, Now
<1>9. DataFits(clock', rows', analyses', replay', snapshot', graded', rewards', badges')
  BY <1>1, <1>6 DEF SavePullRequestAnalysis, DataFits, JobFits, SnapFits, Now
<1>10. JobsFit(jobs', clock')
  BY <1>1, <1>5, <1>6, <1>8, MovedFits
<1> QED
  BY <1>3, <1>5, <1>9, <1>10, TypedNext

LEMMA LoadCandidatesDoes ==
  ASSUME Typed, NEW j \in Jobs, LoadCandidates(j)
  PROVE  /\ Stands(jobs[j], "loadCandidates")
         /\ Moved(jobs, jobs', j, {"score", "pc"})
         /\ jobs'[j].pc = jobs[j].pc + 1
         /\ jobs'[j].score = LoadReplayCandidates
         /\ Typed'
<1> DEFINE f == [score |-> LoadReplayCandidates]
<1>1. /\ DataFits(clock, rows, analyses, replay, snapshot, graded, rewards, badges)
      /\ JobsFit(jobs, clock) /\ JobFits(jobs[j], clock)
  BY TypedIs DEF JobsFit
<1>2. At(j, "loadCandidates") /\ Go(j, f)
  BY DEF LoadCandidates
<1>3. Stands(jobs[j], "loadCandidates")
  BY <1>1, <1>2, AtStands
<1>4. DOMAIN f = {"score"} /\ DOMAIN f \subseteq Fields \ {"pc"}
  BY DEF Fields
<1>5. /\ Moved(jobs, jobs', j, {"score", "pc"})
      /\ jobs'[j].pc = jobs[j].pc + 1
      /\ jobs'[j].score = LoadReplayCandidates
  <2>1. /\ Moved(jobs, jobs', j, DOMAIN f \cup {"pc"})
        /\ jobs'[j].pc = jobs[j].pc + 1
        /\ \A x \in DOMAIN f : jobs'[j][x] = f[x]
    <3> HIDE DEF f
    <3> QED
      BY <1>1, <1>2, <1>4, GoMoves
  <2>2. DOMAIN f \cup {"pc"} = {"score", "pc"}
    BY <1>4
  <2> QED
    BY <2>1, <2>2
<1> HIDE DEF f
<1>6. clock \in Nat /\ clock' \in Nat /\ clock <= clock'
  BY <1>1 DEF LoadCandidates, DataFits, Now
<1>7. JobFits(jobs[j], clock')
  BY <1>1, <1>6, JobLater
<1>8. JobFits(jobs'[j], clock')
  BY <1>1, <1>5, <1>6, <1>7 DEF LoadCandidates, JobFits, Moved, Fields, DataFits, LoadReplayCandidates, ScoreFits, Now
<1>9. DataFits(clock', rows', analyses', replay', snapshot', graded', rewards', badges')
  BY <1>1, <1>6 DEF LoadCandidates, DataFits, JobFits, SnapFits, Now
<1>10. JobsFit(jobs', clock')
  BY <1>1, <1>5, <1>6, <1>8, MovedFits
<1> QED
  BY <1>3, <1>5, <1>9, <1>10, TypedNext

LEMMA StartRefreshDoes ==
  ASSUME Typed, NEW j \in Jobs, StartRefresh(j)
  PROVE  /\ Stands(jobs[j], "refreshStart")
         /\ Moved(jobs, jobs', j, {"now", "week", "pc"})
         /\ jobs'[j].pc = jobs[j].pc + 1
         /\ jobs'[j].now = clock + 1
         /\ jobs'[j].week = week
         /\ Typed'
<1> DEFINE f == [now |-> clock + 1, week |-> week]
<1>1. /\ DataFits(clock, rows, analyses, replay, snapshot, graded, rewards, badges)
      /\ JobsFit(jobs, clock) /\ JobFits(jobs[j], clock)
  BY TypedIs DEF JobsFit
<1>2. At(j, "refreshStart") /\ Go(j, f)
  BY DEF StartRefresh, Now
<1>3. Stands(jobs[j], "refreshStart")
  BY <1>1, <1>2, AtStands
<1>4. DOMAIN f = {"now", "week"} /\ DOMAIN f \subseteq Fields \ {"pc"}
  BY DEF Fields
<1>5. /\ Moved(jobs, jobs', j, {"now", "week", "pc"})
      /\ jobs'[j].pc = jobs[j].pc + 1
      /\ jobs'[j].now = clock + 1
      /\ jobs'[j].week = week
  <2>1. /\ Moved(jobs, jobs', j, DOMAIN f \cup {"pc"})
        /\ jobs'[j].pc = jobs[j].pc + 1
        /\ \A x \in DOMAIN f : jobs'[j][x] = f[x]
    <3> HIDE DEF f
    <3> QED
      BY <1>1, <1>2, <1>4, GoMoves
  <2>2. DOMAIN f \cup {"pc"} = {"now", "week", "pc"}
    BY <1>4
  <2> QED
    BY <2>1, <2>2
<1> HIDE DEF f
<1>6. clock \in Nat /\ clock' \in Nat /\ clock <= clock'
  BY <1>1 DEF StartRefresh, DataFits, Now
<1>7. JobFits(jobs[j], clock')
  BY <1>1, <1>6, JobLater
<1>8. JobFits(jobs'[j], clock')
  BY <1>1, <1>5, <1>6, <1>7 DEF StartRefresh, JobFits, Moved, Fields, DataFits, Now
<1>9. DataFits(clock', rows', analyses', replay', snapshot', graded', rewards', badges')
  BY <1>1, <1>6 DEF StartRefresh, DataFits, JobFits, SnapFits, Now
<1>10. JobsFit(jobs', clock')
  BY <1>1, <1>5, <1>6, <1>8, MovedFits
<1> QED
  BY <1>3, <1>5, <1>9, <1>10, TypedNext

LEMMA DeleteBadgesDoes ==
  ASSUME Typed, NEW j \in Jobs, DeleteBadges(j)
  PROVE  /\ Stands(jobs[j], "deleteBadges")
         /\ Moved(jobs, jobs', j, {"seen", "pc"})
         /\ jobs'[j].pc = jobs[j].pc + 1
         /\ jobs'[j].seen = DeletedBadges(badges)
         /\ Typed'
<1> DEFINE f == [seen |-> DeletedBadges(badges)]
<1>1. /\ DataFits(clock, rows, analyses, replay, snapshot, graded, rewards, badges)
      /\ JobsFit(jobs, clock) /\ JobFits(jobs[j], clock)
  BY TypedIs DEF JobsFit
<1>2. At(j, "deleteBadges") /\ Go(j, f)
  BY DEF DeleteBadges
<1>3. Stands(jobs[j], "deleteBadges")
  BY <1>1, <1>2, AtStands
<1>4. DOMAIN f = {"seen"} /\ DOMAIN f \subseteq Fields \ {"pc"}
  BY DEF Fields
<1>5. /\ Moved(jobs, jobs', j, {"seen", "pc"})
      /\ jobs'[j].pc = jobs[j].pc + 1
      /\ jobs'[j].seen = DeletedBadges(badges)
  <2>1. /\ Moved(jobs, jobs', j, DOMAIN f \cup {"pc"})
        /\ jobs'[j].pc = jobs[j].pc + 1
        /\ \A x \in DOMAIN f : jobs'[j][x] = f[x]
    <3> HIDE DEF f
    <3> QED
      BY <1>1, <1>2, <1>4, GoMoves
  <2>2. DOMAIN f \cup {"pc"} = {"seen", "pc"}
    BY <1>4
  <2> QED
    BY <2>1, <2>2
<1> HIDE DEF f
<1>6. clock \in Nat /\ clock' \in Nat /\ clock <= clock'
  BY <1>1 DEF DeleteBadges, DataFits, Now
<1>7. JobFits(jobs[j], clock')
  BY <1>1, <1>6, JobLater
<1>8. JobFits(jobs'[j], clock')
  BY <1>1, <1>5, <1>6, <1>7 DEF DeleteBadges, JobFits, Moved, Fields, DataFits, DeletedBadges, Now
<1>9. DataFits(clock', rows', analyses', replay', snapshot', graded', rewards', badges')
  BY <1>1, <1>6 DEF DeleteBadges, DataFits, JobFits, SnapFits, Now
<1>10. JobsFit(jobs', clock')
  BY <1>1, <1>5, <1>6, <1>8, MovedFits
<1> QED
  BY <1>3, <1>5, <1>9, <1>10, TypedNext

LEMMA RebuildLoadDoes ==
  ASSUME Typed, NEW j \in Jobs, RebuildLoad(j)
  PROVE  /\ Stands(jobs[j], "rebuildLoad")
         /\ Moved(jobs, jobs', j, {"snap", "pc"})
         /\ jobs'[j].pc = jobs[j].pc + 1
         /\ jobs'[j].snap = loadSnapshotInputs(jobs[j].now)
         /\ Typed'
<1> DEFINE f == [snap |-> loadSnapshotInputs(jobs[j].now)]
<1>1. /\ DataFits(clock, rows, analyses, replay, snapshot, graded, rewards, badges)
      /\ JobsFit(jobs, clock) /\ JobFits(jobs[j], clock)
  BY TypedIs DEF JobsFit
<1>2. At(j, "rebuildLoad") /\ Go(j, f)
  BY DEF RebuildLoad
<1>3. Stands(jobs[j], "rebuildLoad")
  BY <1>1, <1>2, AtStands
<1>4. DOMAIN f = {"snap"} /\ DOMAIN f \subseteq Fields \ {"pc"}
  BY DEF Fields
<1>5. /\ Moved(jobs, jobs', j, {"snap", "pc"})
      /\ jobs'[j].pc = jobs[j].pc + 1
      /\ jobs'[j].snap = loadSnapshotInputs(jobs[j].now)
  <2>1. /\ Moved(jobs, jobs', j, DOMAIN f \cup {"pc"})
        /\ jobs'[j].pc = jobs[j].pc + 1
        /\ \A x \in DOMAIN f : jobs'[j][x] = f[x]
    <3> HIDE DEF f
    <3> QED
      BY <1>1, <1>2, <1>4, GoMoves
  <2>2. DOMAIN f \cup {"pc"} = {"snap", "pc"}
    BY <1>4
  <2> QED
    BY <2>1, <2>2
<1> HIDE DEF f
<1>6. clock \in Nat /\ clock' \in Nat /\ clock <= clock'
  BY <1>1 DEF RebuildLoad, DataFits, Now
<1>7. JobFits(jobs[j], clock')
  BY <1>1, <1>6, JobLater
<1>8. JobFits(jobs'[j], clock')
  BY <1>1, <1>5, <1>6, <1>7, BuiltFits DEF RebuildLoad, JobFits, Moved, Fields, DataFits, Now
<1>9. DataFits(clock', rows', analyses', replay', snapshot', graded', rewards', badges')
  BY <1>1, <1>6 DEF RebuildLoad, DataFits, JobFits, SnapFits, Now
<1>10. JobsFit(jobs', clock')
  BY <1>1, <1>5, <1>6, <1>8, MovedFits
<1> QED
  BY <1>3, <1>5, <1>9, <1>10, TypedNext

LEMMA MaterializeReportsDoes ==
  ASSUME Typed, NEW j \in Jobs, MaterializeReports(j)
  PROVE  /\ Stands(jobs[j], "report")
         /\ Moved(jobs, jobs', j, {"report", "pc"})
         /\ jobs'[j].pc = jobs[j].pc + 1
         /\ jobs'[j].report = IF jobs[j].kind = "grade" THEN LoadPullRequestReport(jobs[j].pr) ELSE NoReport
         /\ Typed'
<1> DEFINE f == [report |-> IF jobs[j].kind = "grade" THEN LoadPullRequestReport(jobs[j].pr) ELSE NoReport]
<1>1. /\ DataFits(clock, rows, analyses, replay, snapshot, graded, rewards, badges)
      /\ JobsFit(jobs, clock) /\ JobFits(jobs[j], clock)
  BY TypedIs DEF JobsFit
<1>2. At(j, "report") /\ Go(j, f)
  BY DEF MaterializeReports
<1>3. Stands(jobs[j], "report")
  BY <1>1, <1>2, AtStands
<1>4. DOMAIN f = {"report"} /\ DOMAIN f \subseteq Fields \ {"pc"}
  BY DEF Fields
<1>5. /\ Moved(jobs, jobs', j, {"report", "pc"})
      /\ jobs'[j].pc = jobs[j].pc + 1
      /\ jobs'[j].report = IF jobs[j].kind = "grade" THEN LoadPullRequestReport(jobs[j].pr) ELSE NoReport
  <2>1. /\ Moved(jobs, jobs', j, DOMAIN f \cup {"pc"})
        /\ jobs'[j].pc = jobs[j].pc + 1
        /\ \A x \in DOMAIN f : jobs'[j][x] = f[x]
    <3> HIDE DEF f
    <3> QED
      BY <1>1, <1>2, <1>4, GoMoves
  <2>2. DOMAIN f \cup {"pc"} = {"report", "pc"}
    BY <1>4
  <2> QED
    BY <2>1, <2>2
<1> HIDE DEF f
<1>6. clock \in Nat /\ clock' \in Nat /\ clock <= clock'
  BY <1>1 DEF MaterializeReports, DataFits, Now
<1>7. JobFits(jobs[j], clock')
  BY <1>1, <1>6, JobLater
<1>8. JobFits(jobs'[j], clock')
  BY <1>1, <1>5, <1>6, <1>7 DEF MaterializeReports, JobFits, Moved, Fields, DataFits, Now
<1>9. DataFits(clock', rows', analyses', replay', snapshot', graded', rewards', badges')
  BY <1>1, <1>6 DEF MaterializeReports, DataFits, JobFits, SnapFits, Now
<1>10. JobsFit(jobs', clock')
  BY <1>1, <1>5, <1>6, <1>8, MovedFits
<1> QED
  BY <1>3, <1>5, <1>9, <1>10, TypedNext

LEMMA InsertSnapshotDoes ==
  ASSUME Typed, NEW j \in Jobs, InsertSnapshot(j)
  PROVE  /\ Stands(jobs[j], "insertSnapshot")
         /\ Moved(jobs, jobs', j, {"pc"})
         /\ jobs'[j].pc = jobs[j].pc + 1
         /\ Typed'
<1> DEFINE f == << >>
<1>1. /\ DataFits(clock, rows, analyses, replay, snapshot, graded, rewards, badges)
      /\ JobsFit(jobs, clock) /\ JobFits(jobs[j], clock)
  BY TypedIs DEF JobsFit
<1>2. At(j, "insertSnapshot") /\ Go(j, f)
  BY DEF InsertSnapshot
<1>3. Stands(jobs[j], "insertSnapshot")
  BY <1>1, <1>2, AtStands
<1>4. DOMAIN f = {} /\ DOMAIN f \cup {"pc"} = {"pc"} /\ DOMAIN f \subseteq Fields \ {"pc"}
  OBVIOUS
<1> HIDE DEF f
<1>5. Moved(jobs, jobs', j, DOMAIN f \cup {"pc"}) /\ jobs'[j].pc = jobs[j].pc + 1
  BY <1>1, <1>2, <1>4, GoMoves
<1>6. Moved(jobs, jobs', j, {"pc"})
  BY <1>4, <1>5
<1>7. clock' = clock /\ clock \in Nat
  BY <1>1 DEF InsertSnapshot, DataFits
<1>8. JobFits(jobs'[j], clock')
  BY <1>1, <1>5, <1>6, <1>7 DEF JobFits, Moved, Fields
<1>9. SnapFits(snapshot', clock')
  BY <1>1, <1>7 DEF InsertSnapshot, LatestSnapshot, DataFits, JobFits
<1>10. DataFits(clock', rows', analyses', replay', snapshot', graded', rewards', badges')
  BY <1>1, <1>7, <1>9 DEF InsertSnapshot, DataFits
<1>11. JobsFit(jobs', clock')
  BY <1>1, <1>6, <1>7, <1>8, MovedFits
<1> QED
  BY <1>3, <1>5, <1>6, <1>10, <1>11, TypedNext

LEMMA SaveReplayDoes ==
  ASSUME Typed, NEW j \in Jobs, SaveReplay(j)
  PROVE  /\ Stands(jobs[j], "saveReplay")
         /\ Moved(jobs, jobs', j, {"seen", "score", "now", "solo", "pc"})
         /\ jobs'[j].pc = jobs[j].pc + 1
         /\ jobs'[j].seen = {} /\ jobs'[j].score = NoScore
         /\ jobs'[j].now = 0 /\ jobs'[j].solo = TRUE
         /\ Typed'
<1> DEFINE f == [seen |-> {}, score |-> NoScore, now |-> 0, solo |-> TRUE]
<1>1. /\ DataFits(clock, rows, analyses, replay, snapshot, graded, rewards, badges)
      /\ JobsFit(jobs, clock) /\ JobFits(jobs[j], clock)
  BY TypedIs DEF JobsFit
<1>2. At(j, "saveReplay") /\ Go(j, f)
  BY DEF SaveReplay
<1>3. Stands(jobs[j], "saveReplay")
  BY <1>1, <1>2, AtStands
<1>4. /\ DOMAIN f = {"seen", "score", "now", "solo"}
      /\ DOMAIN f \subseteq Fields \ {"pc"}
  BY DEF Fields
<1>5. /\ Moved(jobs, jobs', j, DOMAIN f \cup {"pc"})
      /\ jobs'[j].pc = jobs[j].pc + 1
      /\ \A x \in DOMAIN f : jobs'[j][x] = f[x]
  <2> HIDE DEF f
  <2> QED
    BY <1>1, <1>2, <1>4, GoMoves
<1>6. DOMAIN f \cup {"pc"} = {"seen", "score", "now", "solo", "pc"}
  BY <1>4
<1>7. /\ jobs'[j].seen = {} /\ jobs'[j].score = NoScore
      /\ jobs'[j].now = 0 /\ jobs'[j].solo = f.solo
  BY <1>4, <1>5
<1>8. f.solo = TRUE
  OBVIOUS
<1> HIDE DEF f
<1>9. Moved(jobs, jobs', j, {"seen", "score", "now", "solo", "pc"})
  BY <1>5, <1>6
<1>10. clock' = clock /\ clock \in Nat
  BY <1>1 DEF SaveReplay, DataFits
<1>11. JobFits(jobs'[j], clock')
  BY <1>1, <1>5, <1>7, <1>9, <1>10, EmptyFits DEF JobFits, Moved, Fields
<1>12. \A b \in badges' : b.run > 0 => b.key \in ScoreBadges
  BY <1>1 DEF SaveReplay, ReplaceBadges, issueBadges, DataFits
<1>13. /\ replay'.at \in Nat /\ replay'.at <= clock /\ ScoreFits(replay'.score)
  BY <1>1 DEF SaveReplay, LatestReplay, DataFits, JobFits
<1>14. DataFits(clock', rows', analyses', replay', snapshot', graded', rewards', badges')
  BY <1>1, <1>10, <1>12, <1>13 DEF SaveReplay, DataFits
<1>15. JobsFit(jobs', clock')
  BY <1>1, <1>9, <1>10, <1>11, MovedFits
<1> QED
  BY <1>3, <1>5, <1>7, <1>8, <1>9, <1>14, <1>15, TypedNext

\* A replay begins: its stamp is new, and the others in progress overlap it.
LEMMA StartReplayDoes ==
  ASSUME Typed, NEW j \in Jobs, StartReplay(j)
  PROVE  /\ Stands(jobs[j], "replayStart")
         /\ DOMAIN jobs' = Jobs
         /\ DOMAIN jobs'[j] = Fields
         /\ \A f \in Fields \ {"pc", "now", "solo"} : jobs'[j][f] = jobs[j][f]
         /\ jobs'[j].pc = jobs[j].pc + 1 /\ jobs'[j].now = clock + 1
         /\ jobs'[j].solo <=> {k \in Jobs \ {j} : InReplay(k)} = {}
         /\ \A k \in Jobs \ {j} : /\ DOMAIN jobs'[k] = Fields
                                  /\ \A f \in Fields \ {"solo"} : jobs'[k][f] = jobs[k][f]
                                  /\ InReplay(k) => ~jobs'[k].solo
                                  /\ ~InReplay(k) => jobs'[k] = jobs[k]
         /\ Typed'
<1>1. /\ DataFits(clock, rows, analyses, replay, snapshot, graded, rewards, badges)
      /\ JobsFit(jobs, clock)
  BY TypedIs
<1>0. /\ At(j, "replayStart") /\ clock' = Now
      /\ rows' = rows /\ analyses' = analyses /\ replay' = replay /\ badges' = badges
      /\ snapshot' = snapshot /\ rewards' = rewards /\ graded' = graded
  BY Zenon DEF StartReplay
<1>2. Stands(jobs[j], "replayStart")
  BY <1>1, <1>0, AtStands
<1>3. clock' = clock + 1 /\ clock \in Nat /\ clock' \in Nat /\ clock <= clock'
  BY <1>0, <1>1 DEF Now, DataFits
<1>4. \A k \in Jobs : DOMAIN jobs[k] = Fields /\ JobFits(jobs[k], clock')
  BY <1>1, <1>3, JobLater DEF JobsFit, JobFits
<1> DEFINE others == {k \in Jobs \ {j} : InReplay(k)}
<1>5. /\ DOMAIN jobs' = Jobs
      /\ jobs'[j] = [jobs[j] EXCEPT !.pc = @ + 1, !.now = clock + 1, !.solo = (others = {})]
      /\ \A k \in Jobs \ {j} :
            jobs'[k] = IF k \in others THEN [jobs[k] EXCEPT !.solo = FALSE] ELSE jobs[k]
  BY DEF StartReplay, Now
<1>6. \A k \in Jobs \ {j} : InReplay(k) <=> k \in others
  OBVIOUS
<1>7. /\ DOMAIN jobs'[j] = Fields
      /\ \A f \in Fields \ {"pc", "now", "solo"} : jobs'[j][f] = jobs[j][f]
      /\ jobs'[j].pc = jobs[j].pc + 1 /\ jobs'[j].now = clock + 1
      /\ jobs'[j].solo = (others = {})
  <2> HIDE DEF others
  <2> QED
    BY <1>4, <1>5 DEF Fields
<1>8. ASSUME NEW k \in Jobs \ {j}
      PROVE  /\ DOMAIN jobs'[k] = Fields
             /\ \A f \in Fields \ {"solo"} : jobs'[k][f] = jobs[k][f]
             /\ InReplay(k) => ~jobs'[k].solo
             /\ ~InReplay(k) => jobs'[k] = jobs[k]
  <2> HIDE DEF others
  <2>1. CASE k \in others
    <3>1. jobs'[k] = [jobs[k] EXCEPT !.solo = FALSE] /\ DOMAIN jobs[k] = Fields
      BY <1>4, <1>5, <2>1
    <3>2. jobs'[k].solo = FALSE /\ DOMAIN jobs'[k] = Fields
      BY <3>1 DEF Fields
    <3>3. \A f \in Fields \ {"solo"} : jobs'[k][f] = jobs[k][f]
      BY <3>1
    <3>4. InReplay(k)
      BY <2>1, <1>6
    <3> QED
      BY <3>2, <3>3, <3>4
  <2>2. CASE k \notin others
    BY <1>4, <1>5, <1>6, <2>2
  <2> QED
    BY <2>1, <2>2
<1>9. JobFits(jobs'[j], clock')
  BY <1>3, <1>4, <1>7 DEF JobFits, Fields
<1>10. \A k \in Jobs \ {j} : JobFits(jobs'[k], clock')
  <2> SUFFICES ASSUME NEW k \in Jobs \ {j} PROVE JobFits(jobs'[k], clock')
    OBVIOUS
  <2> QED
    BY <1>4, <1>8 DEF JobFits, Fields
<1>11. JobsFit(jobs', clock')
  BY <1>5, <1>9, <1>10 DEF JobsFit
<1>12. DataFits(clock', rows', analyses', replay', snapshot', graded', rewards', badges')
  BY <1>0, <1>1, <1>3 DEF DataFits, SnapFits
<1>13. jobs'[j].solo <=> others = {}
  BY <1>7
<1> QED
  BY <1>2, <1>5, <1>7, <1>8, <1>11, <1>12, <1>13, TypedNext

LEMMA RefreshProfileDoes ==
  ASSUME Typed, NEW j \in Jobs, RefreshProfileByUserID(j)
  PROVE  /\ Stands(jobs[j], "refreshLoad")
         /\ Moved(jobs, jobs', j, {"pc", "snap"})
         /\ jobs'[j].snap = loadSnapshotInputs(jobs[j].now)
         /\ jobs'[j].pc = IF HasRows(jobs'[j].snap) THEN jobs[j].pc + 1 ELSE jobs[j].pc + 3
         /\ Typed'
<1> DEFINE new == loadSnapshotInputs(jobs[j].now)
<1>1. /\ DataFits(clock, rows, analyses, replay, snapshot, graded, rewards, badges)
      /\ JobsFit(jobs, clock) /\ JobFits(jobs[j], clock)
  BY TypedIs DEF JobsFit
<1>2. Stands(jobs[j], "refreshLoad")
  BY <1>1, AtStands DEF RefreshProfileByUserID
<1>3. SnapFits(new, clock)
  BY <1>1, BuiltFits DEF JobFits, DataFits
<1>0. clock' = clock
  BY DEF RefreshProfileByUserID
<1>4. jobs' = [jobs EXCEPT ![j].pc = IF HasRows(new) THEN @ + 1 ELSE @ + 3, ![j].snap = new]
  BY DEF RefreshProfileByUserID
<1> HIDE DEF new
<1>5. /\ Moved(jobs, jobs', j, {"pc", "snap"})
      /\ jobs'[j].snap = new
      /\ jobs'[j].pc = IF HasRows(new) THEN jobs[j].pc + 1 ELSE jobs[j].pc + 3
  BY <1>1, <1>4 DEF JobsFit, JobFits, Moved, Fields
<1>6. JobFits(jobs'[j], clock')
  BY <1>0, <1>1, <1>3, <1>5 DEF JobFits, Moved, Fields
<1>7. DataFits(clock', rows', analyses', replay', snapshot', graded', rewards', badges')
  BY <1>1 DEF RefreshProfileByUserID, DataFits
<1>8. JobsFit(jobs', clock')
  <2>1. clock \in Nat /\ clock' \in Nat /\ clock <= clock'
    BY <1>0, <1>1 DEF DataFits
  <2> QED
    BY <1>1, <1>5, <1>6, <2>1, MovedFits
<1> QED
  BY <1>2, <1>5, <1>7, <1>8, TypedNext DEF new

LEMMA EnsureSnapshotDoes ==
  ASSUME Typed, NEW j \in Jobs, EnsureSnapshot(j)
  PROVE  /\ Stands(jobs[j], "ensureSnapshot")
         /\ Moved(jobs, jobs', j, {"now", "week", "pc", "snap", "old"})
         /\ jobs'[j].now = clock + 1
         /\ jobs'[j].snap = snapshot /\ jobs'[j].old = snapshot
         /\ jobs'[j].pc = jobs[j].pc + 1 \/ jobs'[j].pc = jobs[j].pc + 4
         /\ Typed'
<1>1. /\ DataFits(clock, rows, analyses, replay, snapshot, graded, rewards, badges)
      /\ JobsFit(jobs, clock) /\ JobFits(jobs[j], clock)
  BY TypedIs DEF JobsFit
<1>2. Stands(jobs[j], "ensureSnapshot")
  BY <1>1, AtStands DEF EnsureSnapshot
<1>3. /\ jobs' = [jobs EXCEPT ![j].now = clock + 1, ![j].week = week,
                              ![j].pc = IF snapshot.stale THEN @ + 1 ELSE @ + 4,
                              ![j].snap = snapshot, ![j].old = snapshot]
      /\ clock' = clock + 1 /\ clock \in Nat
  BY <1>1 DEF EnsureSnapshot, Now, DataFits
<1>4. /\ Moved(jobs, jobs', j, {"now", "week", "pc", "snap", "old"})
      /\ jobs'[j].now = clock + 1
      /\ jobs'[j].snap = snapshot /\ jobs'[j].old = snapshot
      /\ jobs'[j].pc = jobs[j].pc + 1 \/ jobs'[j].pc = jobs[j].pc + 4
  BY <1>1, <1>3 DEF JobsFit, JobFits, Moved, Fields
<1>5. SnapFits(snapshot, clock') /\ JobFits(jobs[j], clock')
  BY <1>1, <1>3, JobLater DEF DataFits, SnapFits
<1>6. JobFits(jobs'[j], clock')
  BY <1>3, <1>4, <1>5 DEF JobFits, Moved, Fields
<1>7. DataFits(clock', rows', analyses', replay', snapshot', graded', rewards', badges')
  BY <1>1, <1>3, <1>5 DEF EnsureSnapshot, DataFits
<1>8. JobsFit(jobs', clock')
  <2>1. clock \in Nat /\ clock' \in Nat /\ clock <= clock'
    BY <1>3
  <2> QED
    BY <1>1, <1>4, <1>6, <2>1, MovedFits
<1> QED
  BY <1>2, <1>4, <1>7, <1>8, TypedNext

LEMMA RebuildFailsDoes ==
  ASSUME Typed, NEW j \in Jobs, RebuildFails(j)
  PROVE  /\ Moved(jobs, jobs', j, {"pc", "snap"})
         /\ jobs'[j].snap = jobs[j].old
         /\ \E i \in Nat : /\ i >= 1 /\ i <= Len(Steps(jobs[j].kind))
                           /\ Steps(jobs[j].kind)[i] = "ensureSnapshot"
                           /\ jobs'[j].pc = i + 4
         /\ Typed'
<1>1. /\ DataFits(clock, rows, analyses, replay, snapshot, graded, rewards, badges)
      /\ JobsFit(jobs, clock) /\ JobFits(jobs[j], clock)
  BY TypedIs DEF JobsFit
<1>2. PICK d \in 1 .. 3 :
        /\ jobs[j].pc > d
        /\ Steps(jobs[j].kind)[jobs[j].pc - d] = "ensureSnapshot"
        /\ jobs' = [jobs EXCEPT ![j].pc = @ + 4 - d, ![j].snap = jobs[j].old]
  BY DEF RebuildFails
<1>3. clock' = clock /\ clock \in Nat /\ ~Done(j)
  BY <1>1 DEF RebuildFails, DataFits
<1>4. /\ Moved(jobs, jobs', j, {"pc", "snap"})
      /\ jobs'[j].snap = jobs[j].old
      /\ jobs'[j].pc = jobs[j].pc + 4 - d
  BY <1>1, <1>2 DEF JobsFit, JobFits, Moved, Fields
<1>5. Len(Steps(jobs[j].kind)) \in Nat /\ jobs[j].pc \in Nat
  BY <1>1, EveryOrder DEF Orderly, JobFits
<1>6. jobs[j].pc <= Len(Steps(jobs[j].kind))
  BY <1>3, <1>5 DEF Done
<1> DEFINE i == jobs[j].pc - d
<1>7. i \in Nat /\ i >= 1 /\ i <= Len(Steps(jobs[j].kind)) /\ jobs'[j].pc = i + 4
  BY <1>2, <1>4, <1>5, <1>6
<1>8. Steps(jobs[j].kind)[i] = "ensureSnapshot"
  BY <1>2
<1>9. JobFits(jobs'[j], clock')
  <2>1. /\ DOMAIN jobs'[j] = Fields
        /\ \A f \in Fields \ {"pc", "snap"} : jobs'[j][f] = jobs[j][f]
    BY <1>4 DEF Moved
  <2>2. jobs'[j].pc \in Nat /\ jobs'[j].pc >= 1
    BY <1>7
  <2>3. SnapFits(jobs'[j].snap, clock')
    BY <1>1, <1>3, <1>4 DEF JobFits
  <2> HIDE DEF i
  <2> QED
    BY <1>1, <1>3, <2>1, <2>2, <2>3 DEF JobFits, Fields
<1>10. DataFits(clock', rows', analyses', replay', snapshot', graded', rewards', badges')
  BY <1>1 DEF RebuildFails, DataFits
<1>11. JobsFit(jobs', clock')
  <2>1. clock \in Nat /\ clock' \in Nat /\ clock <= clock'
    BY <1>3
  <2> QED
    BY <1>1, <1>4, <1>9, <2>1, MovedFits
<1> HIDE DEF i
<1> QED
  BY <1>4, <1>7, <1>8, <1>10, <1>11, TypedNext

\* The quests of a board are few, and so are the rewards it pays.
LEMMA QuestsFinite ==
  ASSUME NEW snap
  PROVE  IsFiniteSet(buildQuestsFromSnapshot(snap))
<1>1. IsFiniteSet({weakLaneQuest(snap)}) /\ IsFiniteSet({}) /\ IsFiniteSet(Templates)
  BY FS_Singleton, FS_EmptySet, InsightsAssumption
<1>2. IsFiniteSet({weakLaneQuest(snap)} \cup Templates)
  BY <1>1, FS_Union
<1> QED
  BY <1>1, <1>2 DEF buildQuestsFromSnapshot

LEMMA RewardsFinite ==
  ASSUME NEW snap, NEW w, NEW assigned
  PROVE  IsFiniteSet(upsertQuestXPReward(snap, w,
            upsertQuestCompletion(snap, w, buildQuestsFromSnapshot(snap), assigned)))
<1> DEFINE quests == buildQuestsFromSnapshot(snap)
<1> DEFINE done == upsertQuestCompletion(snap, w, quests, assigned)
<1> DEFINE Pay(q) == [key |-> questAssignmentKey(q, snap, w), lane |-> q.lane, week |-> w]
<1> DEFINE all == {Pay(q) : q \in done}
<1>1. IsFiniteSet(quests) /\ done \subseteq quests
  BY QuestsFinite DEF upsertQuestCompletion
<1>2. IsFiniteSet(done)
  BY <1>1, FS_Subset
<1>3. IsFiniteSet(all)
  <2> DEFINE pay == [q \in done |-> Pay(q)]
  <2>1. pay \in [done -> all] /\ \A r \in all : \E q \in done : pay[q] = r
    <3> HIDE DEF done, Pay
    <3> QED
      OBVIOUS
  <2> HIDE DEF pay, all, done
  <2>2. pay \in Surjection(done, all)
    BY <2>1 DEF Surjection
  <2> QED
    BY <1>2, <2>2, FS_Surjection
<1>4. upsertQuestXPReward(snap, w, done) \subseteq all
  BY DEF upsertQuestXPReward
<1> HIDE DEF all
<1> QED
  BY <1>3, <1>4, FS_Subset

LEMMA QuestBadge ==
  ASSUME NEW quests, NEW b \in upsertQuestBadgeReward(quests)
  PROVE  b.run = 0 /\ \E q \in quests : b.key = q.badge /\ b.key # ""
<1> DEFINE K == {q.badge : q \in quests} \ ({""} \cup {x.key : x \in badges})
<1>1. upsertQuestBadgeReward(quests) = {[key |-> k, run |-> 0] : k \in K}
  BY Zenon DEF upsertQuestBadgeReward
<1>2. \A k \in K : k # "" /\ \E q \in quests : k = q.badge
  OBVIOUS
<1> HIDE DEF K
<1>3. PICK k \in K : b = [key |-> k, run |-> 0]
  BY <1>1
<1> QED
  BY <1>2, <1>3

LEMMA NewBoardDoes ==
  ASSUME Typed, NEW j \in Jobs, NewBoard(j)
  PROVE  /\ Stands(jobs[j], "newBoard") \/ Stands(jobs[j], "questBoard")
         /\ Moved(jobs, jobs', j, {"snap", "old", "now", "pc"})
         /\ jobs'[j].pc = jobs[j].pc + 1
         /\ jobs'[j].snap = jobs[j].snap \/ jobs'[j].snap = NoSnapshot
         /\ jobs'[j].old = NoSnapshot
         /\ Typed'
<1> DEFINE new == IF At(j, "newBoard") THEN jobs[j].snap ELSE NoSnapshot
<1> DEFINE f == [snap |-> new, old |-> NoSnapshot, now |-> 0]
<1>1. /\ DataFits(clock, rows, analyses, replay, snapshot, graded, rewards, badges)
      /\ JobsFit(jobs, clock) /\ JobFits(jobs[j], clock)
  BY TypedIs DEF JobsFit
<1>2. (At(j, "newBoard") \/ At(j, "questBoard")) /\ Go(j, f) /\ clock' = clock
  BY DEF NewBoard
<1>3. Stands(jobs[j], "newBoard") \/ Stands(jobs[j], "questBoard")
  BY <1>1, <1>2, AtStands
<1>4. DOMAIN f = {"snap", "old", "now"} /\ DOMAIN f \subseteq Fields \ {"pc"}
  BY DEF Fields
<1>5. f.snap = new /\ f.old = NoSnapshot /\ f.now = 0
  OBVIOUS
<1>6. new = jobs[j].snap \/ new = NoSnapshot
  OBVIOUS
<1> HIDE DEF f, new
<1>7. /\ Moved(jobs, jobs', j, DOMAIN f \cup {"pc"})
      /\ jobs'[j].pc = jobs[j].pc + 1
      /\ \A x \in DOMAIN f : jobs'[j][x] = f[x]
  BY <1>1, <1>2, <1>4, GoMoves
<1>8. DOMAIN f \cup {"pc"} = {"snap", "old", "now", "pc"}
  BY <1>4
<1>9. /\ Moved(jobs, jobs', j, {"snap", "old", "now", "pc"})
      /\ jobs'[j].snap = new /\ jobs'[j].old = NoSnapshot /\ jobs'[j].now = 0
  BY <1>4, <1>5, <1>7, <1>8
<1>10. clock \in Nat
  BY <1>1 DEF DataFits
<1>11. JobFits(jobs'[j], clock')
  BY <1>1, <1>2, <1>6, <1>7, <1>9, <1>10, EmptyFits DEF JobFits, Moved, Fields
<1>12. IsFiniteSet(rewards')
  <2> DEFINE snap == jobs[j].snap
  <2> DEFINE quests == buildQuestsFromSnapshot(snap)
  <2> DEFINE assigned == Board(snap, jobs[j].week, quests)
  <2> DEFINE paid == upsertQuestXPReward(snap, jobs[j].week,
                        upsertQuestCompletion(snap, jobs[j].week, quests, assigned))
  <2>1. rewards' = rewards \cup paid
    BY DEF NewBoard, MaterializeQuestBoard
  <2>2. IsFiniteSet(paid)
    BY RewardsFinite
  <2> HIDE DEF paid
  <2> QED
    BY <2>1, <2>2, <1>1, FS_Union DEF DataFits
<1>13. \A b \in badges' : b.run > 0 => b.key \in ScoreBadges
  <2> SUFFICES ASSUME NEW b \in badges', b \notin badges PROVE ~(b.run > 0)
    BY <1>1 DEF DataFits
  <2>1. b.run = 0
    <3>1. b \in upsertQuestBadgeReward(
              upsertQuestCompletion(jobs[j].snap, jobs[j].week,
                buildQuestsFromSnapshot(jobs[j].snap),
                Board(jobs[j].snap, jobs[j].week, buildQuestsFromSnapshot(jobs[j].snap))))
      BY DEF NewBoard, MaterializeQuestBoard
    <3> QED
      BY <3>1, QuestBadge
  <2> QED
    BY <2>1
<1>14. DataFits(clock', rows', analyses', replay', snapshot', graded', rewards', badges')
  BY <1>1, <1>2, <1>12, <1>13 DEF NewBoard, DataFits
<1>15. JobsFit(jobs', clock')
  BY <1>1, <1>2, <1>9, <1>10, <1>11, MovedFits
<1> QED
  BY <1>3, <1>6, <1>7, <1>9, <1>14, <1>15, TypedNext

LEMMA CompleteDoes ==
  ASSUME Typed, NEW j \in Jobs, Complete(j)
  PROVE  /\ jobs[j].pc = Len(Steps(jobs[j].kind)) + 1
         /\ Moved(jobs, jobs', j, {"pc"})
         /\ jobs'[j].pc = jobs[j].pc + 1
         /\ jobs[j].kind # "grade" => graded' = graded
         /\ jobs[j].kind = "grade" =>
              \A p \in PRs :
                 /\ graded'[p].row = graded[p].row
                    \/ (p = jobs[j].pr /\ graded'[p].row = jobs[j].row)
                 /\ graded'[p].an = graded[p].an
                    \/ (p = jobs[j].pr /\ graded'[p].an = jobs[j].an)
         /\ Typed'
<1>1. /\ DataFits(clock, rows, analyses, replay, snapshot, graded, rewards, badges)
      /\ JobsFit(jobs, clock) /\ JobFits(jobs[j], clock)
  BY TypedIs DEF JobsFit
<1>2. /\ jobs[j].pc = Len(Steps(jobs[j].kind)) + 1
      /\ jobs' = [jobs EXCEPT ![j].pc = @ + 1] /\ clock' = clock /\ clock \in Nat
  BY <1>1 DEF Complete, DataFits
<1>3. Moved(jobs, jobs', j, {"pc"}) /\ jobs'[j].pc = jobs[j].pc + 1
  BY <1>1, <1>2 DEF JobsFit, JobFits, Moved, Fields
<1>4. JobFits(jobs'[j], clock')
  BY <1>1, <1>2, <1>3 DEF JobFits, Moved, Fields
<1>5. JobsFit(jobs', clock')
  <2>1. clock \in Nat /\ clock' \in Nat /\ clock <= clock'
    BY <1>2
  <2> QED
    BY <1>1, <1>3, <1>4, <2>1, MovedFits
<1>6. ASSUME NEW a \in Nat, NEW b \in Nat
      PROVE  MaxOf({a, b}) = a \/ MaxOf({a, b}) = b
  <2>1. \E x \in {a, b} : \A y \in {a, b} : y <= x
    OBVIOUS
  <2> QED
    BY <2>1 DEF MaxOf
<1>7. /\ graded' \in [PRs -> [row : Nat, an : Nat]]
      /\ jobs[j].kind # "grade" => graded' = graded
      /\ jobs[j].kind = "grade" =>
           \A p \in PRs :
              /\ graded'[p].row = graded[p].row
                 \/ (p = jobs[j].pr /\ graded'[p].row = jobs[j].row)
              /\ graded'[p].an = graded[p].an
                 \/ (p = jobs[j].pr /\ graded'[p].an = jobs[j].an)
  <2>1. CASE jobs[j].kind # "grade"
    BY <1>1, <2>1 DEF Complete, DataFits
  <2>2. CASE jobs[j].kind = "grade"
    <3> DEFINE p == jobs[j].pr
    <3> DEFINE r == MaxOf({graded[p].row, jobs[j].row})
    <3> DEFINE a == MaxOf({graded[p].an, jobs[j].an})
    <3>1. /\ graded \in [PRs -> [row : Nat, an : Nat]] /\ p \in PRs
          /\ jobs[j].row \in Nat /\ jobs[j].an \in Nat
      BY <1>1 DEF DataFits, JobFits
    <3>2. graded[p].row \in Nat /\ graded[p].an \in Nat
      BY <3>1
    <3>3. graded' = [graded EXCEPT ![p] = [row |-> r, an |-> a]]
      BY <2>2 DEF Complete
    <3>4. (r = graded[p].row \/ r = jobs[j].row) /\ (a = graded[p].an \/ a = jobs[j].an)
      BY <1>6, <3>1, <3>2
    <3> HIDE DEF r, a, p
    <3>5. r \in Nat /\ a \in Nat
      BY <3>1, <3>2, <3>4
    <3>6. \A o \in PRs : graded'[o] = IF o = p THEN [row |-> r, an |-> a] ELSE graded[o]
      BY <3>1, <3>3
    <3>7. graded' \in [PRs -> [row : Nat, an : Nat]]
      BY <3>1, <3>3, <3>5
    <3>8. /\ \A o \in PRs : o # p => graded'[o] = graded[o]
          /\ graded'[p].row = r /\ graded'[p].an = a
      BY <3>1, <3>6
    <3>9. \A o \in PRs :
             /\ graded'[o].row = graded[o].row \/ (o = p /\ graded'[o].row = jobs[j].row)
             /\ graded'[o].an = graded[o].an \/ (o = p /\ graded'[o].an = jobs[j].an)
      BY <3>4, <3>8
    <3> QED
      BY <2>2, <3>7, <3>9 DEF p
  <2> QED
    BY <2>1, <2>2
<1>8. DataFits(clock', rows', analyses', replay', snapshot', graded', rewards', badges')
  BY <1>1, <1>7 DEF Complete, DataFits
<1> QED
  BY <1>2, <1>3, <1>5, <1>7, <1>8, TypedNext

LEMMA FailDoes ==
  ASSUME Typed, NEW j \in Jobs, Fail(j)
  PROVE  /\ Moved(jobs, jobs', j, Fields \ {"kind", "pr", "row", "an"})
         /\ jobs'[j].pc = 1
         /\ jobs'[j].snap = NoSnapshot /\ jobs'[j].old = NoSnapshot
         /\ jobs'[j].seen = {}
         /\ Typed'
<1>1. /\ DataFits(clock, rows, analyses, replay, snapshot, graded, rewards, badges)
      /\ JobsFit(jobs, clock) /\ JobFits(jobs[j], clock)
  BY TypedIs DEF JobsFit
<1> DEFINE fresh == Fresh(jobs[j].kind, jobs[j].pr)
<1> DEFINE q == [fresh EXCEPT !.pc = 1, !.row = jobs[j].row, !.an = jobs[j].an]
<1>2. jobs' = [jobs EXCEPT ![j] = q] /\ clock' = clock /\ clock \in Nat
  BY <1>1 DEF Fail, Restart, DataFits
<1>3. /\ DOMAIN q = Fields /\ q.pc = 1 /\ q.row = jobs[j].row /\ q.an = jobs[j].an
      /\ q.kind = jobs[j].kind /\ q.pr = jobs[j].pr
      /\ q.snap = NoSnapshot /\ q.old = NoSnapshot /\ q.seen = {}
      /\ q.score = NoScore /\ q.now = 0
  BY DEF Fresh, Fields
<1> HIDE DEF q
<1>4. /\ DOMAIN jobs' = Jobs /\ jobs'[j] = q
      /\ \A k \in Jobs \ {j} : jobs'[k] = jobs[k]
  BY <1>1, <1>2 DEF JobsFit
<1>5. Moved(jobs, jobs', j, Fields \ {"kind", "pr", "row", "an"})
  BY <1>3, <1>4 DEF Moved
<1>6. JobFits(jobs'[j], clock')
  BY <1>1, <1>2, <1>3, <1>4, EmptyFits DEF JobFits
<1>7. DataFits(clock', rows', analyses', replay', snapshot', graded', rewards', badges')
  BY <1>1 DEF Fail, DataFits
<1>8. JobsFit(jobs', clock')
  <2>1. clock \in Nat /\ clock' \in Nat /\ clock <= clock'
    BY <1>2
  <2> QED
    BY <1>1, <1>5, <1>6, <2>1, MovedFits
<1> QED
  BY <1>3, <1>4, <1>5, <1>7, <1>8, TypedNext

LEMMA AgeDoes ==
  ASSUME Typed, Age
  PROVE  /\ snapshot'.at = snapshot.at /\ snapshot'.score = snapshot.score
         /\ Typed'
<1>1. /\ DataFits(clock, rows, analyses, replay, snapshot, graded, rewards, badges)
      /\ JobsFit(jobs, clock)
  BY TypedIs
<1>2. snapshot' = [snapshot EXCEPT !.stale = TRUE]
  BY DEF Age
<1>3. /\ DOMAIN snapshot' = {"at", "score", "rewards", "stale"}
      /\ snapshot'.at = snapshot.at /\ snapshot'.score = snapshot.score
      /\ snapshot'.rewards = snapshot.rewards
  BY <1>1, <1>2 DEF DataFits, SnapFits
<1>4. SnapFits(snapshot', clock)
  BY <1>1, <1>3 DEF DataFits, SnapFits
<1>5. DataFits(clock', rows', analyses', replay', snapshot', graded', rewards', badges')
  BY <1>1, <1>4 DEF Age, DataFits
<1>6. JobsFit(jobs', clock')
  BY <1>1 DEF Age
<1> QED
  BY <1>3, <1>5, <1>6, TypedNext

----------------------------------------------------------------------------
(* Every step keeps the types.                                             *)

LEMMA InitTyped == Init => Typed
<1> SUFFICES ASSUME Init PROVE Typed
  OBVIOUS
<1>1. PICK plan \in Plans :
        /\ rows = [p \in PRs |-> plan.row]
        /\ jobs = [j \in Jobs |-> Fresh(plan.jobs[j].kind, plan.jobs[j].pr)]
  BY DEF Init
<1>2. clock = 0 /\ 0 \in Nat
  BY DEF Init
<1>3. plan.row \in Nat /\ \A j \in Jobs : plan.jobs[j].kind \in JobKinds /\ plan.jobs[j].pr \in PRs
  BY PlansAssumption
<1>4. JobsFit(jobs, clock)
  BY <1>1, <1>2, <1>3, FreshFits DEF JobsFit
<1>5. IsFiniteSet(rewards)
  BY FS_EmptySet DEF Init
<1>6. rows \in [PRs -> Nat] /\ analyses \in [PRs -> Nat] /\ \A p \in PRs : analyses[p] <= 0
  BY <1>1, <1>3 DEF Init
<1>7. /\ replay.at = 0 /\ replay.score = NoScore /\ snapshot = NoSnapshot /\ badges = {}
      /\ graded = NoScore
  BY DEF Init
<1>8. graded \in [PRs -> [row : Nat, an : Nat]]
  BY <1>7 DEF NoScore
<1>9. DataFits(clock, rows, analyses, replay, snapshot, graded, rewards, badges)
  BY <1>2, <1>5, <1>6, <1>7, <1>8, EmptyFits DEF DataFits
<1> QED
  BY <1>4, <1>9 DEF Typed

LEMMA StutterTyped ==
  ASSUME Typed, UNCHANGED vars
  PROVE  Typed'
BY DEF Typed, vars

LEMMA NextTyped ==
  ASSUME Typed, [Next]_vars
  PROVE  Typed'
<1>1. ASSUME NEW j \in Jobs, Step(j) PROVE Typed'
  BY <1>1, SyncPullRequestDoes, SavePullRequestAnalysisDoes, StartReplayDoes,
     LoadCandidatesDoes, DeleteBadgesDoes, SaveReplayDoes, StartRefreshDoes,
     RefreshProfileDoes, InsertSnapshotDoes, EnsureSnapshotDoes, RebuildLoadDoes,
     NewBoardDoes, MaterializeReportsDoes, CompleteDoes, Zenon DEF Step
<1> QED
  BY <1>1, FailDoes, RebuildFailsDoes, AgeDoes, StutterTyped, Zenon DEF Next

----------------------------------------------------------------------------
(* Quests and their rewards.                                               *)

LEMMA LeastMember ==
  ASSUME NEW S, S \subseteq Nat, S # {}
  PROVE  \E x \in S : \A y \in S : x <= y
<1>1. PICK x \in S : \A y \in S : ~(<<y, x>> \in OpToRel(<, Nat))
  BY NatLessThanWellFounded, WFMin
<1>2. \A y \in S : x <= y
  <2> SUFFICES ASSUME NEW y \in S PROVE x <= y
    OBVIOUS
  <2>1. ~(<<y, x>> \in OpToRel(<, Nat))
    BY <1>1
  <2>2. x \in Nat /\ y \in Nat
    OBVIOUS
  <2>3. ~(y < x)
    BY <2>1, <2>2 DEF OpToRel
  <2> QED
    BY <2>2, <2>3
<1> QED
  BY <1>2

\* Some lane is the weakest.
LEMMA WeakestIsALane ==
  ASSUME NEW snap, NEW c, SnapFits(snap, c)
  PROVE  weakestQuestSkill(snap) \in LaneSet
<1> DEFINE n == Len(Lanes)
<1> DEFINE xp == [i \in 1 .. n |-> questSkillTotals(snap, Lanes[i])]
<1>1. n \in Nat /\ n >= 1 /\ DOMAIN Lanes = 1 .. n
  BY InsightsAssumption
<1>2. ASSUME NEW lane PROVE questSkillTotals(snap, lane) \in Nat
  <2> DEFINE prs == {p \in Earning(snap.score) : LaneOf[p] = lane}
  <2> DEFINE rews == {r \in snap.rewards : r.lane = lane}
  <2>1. prs \subseteq PRs
    BY DEF Earning, Events
  <2>2. IsFiniteSet(prs)
    BY <2>1, InsightsAssumption, FS_Subset
  <2>3. IsFiniteSet(rews)
    BY FS_Subset DEF SnapFits
  <2>4. Cardinality(prs) \in Nat /\ Cardinality(rews) \in Nat
    BY <2>2, <2>3, FS_CardinalityType
  <2>5. questSkillTotals(snap, lane) = Cardinality(prs) + Cardinality(rews)
    BY DEF questSkillTotals
  <2> HIDE DEF prs, rews
  <2> QED
    BY <2>4, <2>5
<1>3. \A i \in 1 .. n : xp[i] \in Nat
  BY <1>2
<1>4. \A i \in 1 .. n : xp[i] = questSkillTotals(snap, Lanes[i])
  OBVIOUS
<1> HIDE DEF xp, n
<1>5. PICK m \in {xp[i] : i \in 1 .. n} : \A y \in {xp[i] : i \in 1 .. n} : m <= y
  <2>1. {xp[i] : i \in 1 .. n} \subseteq Nat
    BY <1>3
  <2>2. xp[1] \in {xp[i] : i \in 1 .. n}
    BY <1>1
  <2> QED
    BY <2>1, <2>2, LeastMember
<1>6. PICK l \in {i \in 1 .. n : xp[i] = m} : \A y \in {i \in 1 .. n : xp[i] = m} : l <= y
  <2>1. {i \in 1 .. n : xp[i] = m} \subseteq Nat /\ {i \in 1 .. n : xp[i] = m} # {}
    BY <1>1, <1>5
  <2> QED
    BY <2>1, LeastMember
<1>7. l \in 1 .. n /\ \A k \in 1 .. n : xp[l] < xp[k] \/ (xp[l] = xp[k] /\ l <= k)
  <2> SUFFICES ASSUME NEW k \in 1 .. n PROVE xp[l] < xp[k] \/ (xp[l] = xp[k] /\ l <= k)
    BY <1>6
  <2>1. xp[l] = m /\ m <= xp[k] /\ (xp[k] = m => l <= k)
    BY <1>5, <1>6
  <2>2. xp[l] \in Nat /\ xp[k] \in Nat
    BY <1>3, <1>6
  <2> QED
    BY <2>1, <2>2
<1> DEFINE Least(i) == \A k \in DOMAIN Lanes :
              \/ questSkillTotals(snap, Lanes[i]) < questSkillTotals(snap, Lanes[k])
              \/ /\ questSkillTotals(snap, Lanes[i]) = questSkillTotals(snap, Lanes[k])
                 /\ i <= k
<1>8. l \in DOMAIN Lanes /\ Least(l)
  BY <1>1, <1>4, <1>7
<1> DEFINE it == CHOOSE i \in DOMAIN Lanes : Least(i)
<1>9. weakestQuestSkill(snap) = Lanes[it]
  BY DEF weakestQuestSkill
<1>10. it \in DOMAIN Lanes
  <2> HIDE DEF Least
  <2> QED
    BY <1>8
<1> HIDE DEF it
<1> QED
  BY <1>9, <1>10 DEF LaneSet

\* A quest is known by its name, and only a template's gives a badge.
LEMMA QuestIsItsName ==
  ASSUME NEW snap, NEW c, SnapFits(snap, c),
         NEW q \in buildQuestsFromSnapshot(snap)
  PROVE  /\ \A o \in buildQuestsFromSnapshot(snap) : o.id = q.id => o = q
         /\ \A t \in Templates : q.id = t.id => q = t
         /\ q.badge \in {""} \cup {t.badge : t \in Templates}
<1> DEFINE weak == weakLaneQuest(snap)
<1>1. weak.id \in LaneSet /\ weak.badge = ""
  BY WeakestIsALane DEF weakLaneQuest
<1>2. \A o \in buildQuestsFromSnapshot(snap) : o = weak \/ o \in Templates
  BY DEF buildQuestsFromSnapshot
<1> HIDE DEF weak
<1>3. \A t \in Templates : t.id # weak.id
  BY <1>1, TemplatesAssumption
<1>4. \A t \in Templates, s \in Templates : s.id = t.id => s = t
  BY TemplatesAssumption
<1>5. q = weak \/ q \in Templates
  BY <1>2
<1>6. \A t \in Templates : q.id = t.id => q = t
  BY <1>3, <1>4, <1>5
<1>7. \A o \in buildQuestsFromSnapshot(snap) : o.id = q.id => o = q
  BY <1>2, <1>3, <1>4, <1>5
<1>8. q.badge \in {""} \cup {t.badge : t \in Templates}
  BY <1>1, <1>5
<1> QED
  BY <1>6, <1>7, <1>8

\* A reward is for the week its assignment's key names.
KeysAreWeeks ==
  \A r \in rewards : r.key = [quest |-> r.key.quest, window |-> r.week]

QuestsInv == KeysAreWeeks /\ PaidOnceAWeek /\ QuestBadgesAreKept

\* A completed assignment is still one after a board is stored.
LEMMA BoardKeepsCompleted ==
  ASSUME NEW snap, NEW w, NEW quests, NEW a \in board, a.completed
  PROVE  \E b \in {x \in board : \A y \in Board(snap, w, quests) : y.key # x.key}
                     \cup Board(snap, w, quests) : b.key = a.key /\ b.completed
<1> DEFINE assigned == Board(snap, w, quests)
<1>1. CASE \A y \in assigned : y.key # a.key
  BY <1>1
<1>2. CASE \E y \in assigned : y.key = a.key
  <2>1. PICK y \in assigned : y.key = a.key
    BY <1>2
  <2>2. PICK q \in quests :
          y = upsertQuestAssignment(questAssignmentKey(q, snap, w), Progress(snap, q), q.goal)
    BY DEF Board
  <2> DEFINE key == questAssignmentKey(q, snap, w)
  <2> DEFINE all == Progress(snap, q) >= q.goal \/ \E x \in Assigned(key) : x.completed
  <2>3. y.key = key /\ (y.completed = all)
    BY <2>2, Zenon DEF upsertQuestAssignment
  <2>4. a \in Assigned(key)
    BY <2>1, <2>3 DEF Assigned
  <2>5. all
    BY <2>4
  <2> HIDE DEF all
  <2>6. y.completed
    BY <2>3, <2>5
  <2> QED
    BY <2>1, <2>6
<1> HIDE DEF assigned
<1> QED
  BY <1>1, <1>2

\* What a board pays is paid once, for a completed assignment.
LEMMA PaysOnce ==
  ASSUME NEW snap, NEW c, SnapFits(snap, c), NEW w, NEW assigned,
         NEW r \in upsertQuestXPReward(snap, w,
                 upsertQuestCompletion(snap, w, buildQuestsFromSnapshot(snap), assigned))
  PROVE  /\ r.key = [quest |-> r.key.quest, window |-> r.week]
         /\ \E a \in assigned : a.key = r.key /\ a.completed
         /\ \A paid \in rewards : paid.key # r.key
         /\ \E q \in upsertQuestCompletion(snap, w, buildQuestsFromSnapshot(snap), assigned) :
               r = [key |-> [quest |-> q.id, window |-> w], lane |-> q.lane, week |-> w]
<1> DEFINE done == upsertQuestCompletion(snap, w, buildQuestsFromSnapshot(snap), assigned)
<1>1. PICK q \in done : /\ r = [key |-> questAssignmentKey(q, snap, w), lane |-> q.lane, week |-> w]
                        /\ \A paid \in rewards : paid.key # r.key
  <2>1. r \in upsertQuestXPReward(snap, w, done)
    OBVIOUS
  <2> HIDE DEF done
  <2> DEFINE all == {[key |-> questAssignmentKey(q, snap, w), lane |-> q.lane, week |-> w] : q \in done}
  <2>2. r \in all /\ \A paid \in rewards : paid.key # r.key
    BY <2>1, Zenon DEF upsertQuestXPReward
  <2> QED
    BY <2>2
<1>2. \E a \in assigned : a.key = questAssignmentKey(q, snap, w) /\ a.completed
  BY DEF upsertQuestCompletion
<1> HIDE DEF done
<1>3. r = [key |-> [quest |-> q.id, window |-> w], lane |-> q.lane, week |-> w]
  BY <1>1 DEF questAssignmentKey
<1>4. r.key = [quest |-> r.key.quest, window |-> r.week]
  BY <1>3
<1>5. r.key = questAssignmentKey(q, snap, w)
  BY <1>1
<1>6. \E a \in assigned : a.key = r.key /\ a.completed
  BY <1>2, <1>5
<1>7. \A paid \in rewards : paid.key # r.key
  BY <1>1
<1>8. \E o \in done : r = [key |-> [quest |-> o.id, window |-> w], lane |-> o.lane, week |-> w]
  BY <1>3
<1> QED
  BY <1>4, <1>6, <1>7, <1>8 DEF done

LEMMA NewBoardQuests ==
  ASSUME Typed, QuestsInv, NEW j \in Jobs, NewBoard(j)
  PROVE  QuestsInv'
<1>1. PICK snap, w : snap = jobs[j].snap /\ w = jobs[j].week
  OBVIOUS
<1>2. SnapFits(snap, clock)
  BY <1>1, TypedIs DEF JobsFit, JobFits
<1> DEFINE quests == buildQuestsFromSnapshot(snap)
<1> DEFINE assigned == Board(snap, w, quests)
<1> DEFINE done == upsertQuestCompletion(snap, w, quests, assigned)
<1> DEFINE paid == upsertQuestXPReward(snap, w, done)
<1> DEFINE given == upsertQuestBadgeReward(done)
<1>3. /\ board' = {a \in board : \A b \in assigned : b.key # a.key} \cup assigned
      /\ rewards' = rewards \cup paid
      /\ badges' = badges \cup given
  BY <1>1 DEF NewBoard, MaterializeQuestBoard
<1>4. \A r \in paid :
        /\ r.key = [quest |-> r.key.quest, window |-> r.week]
        /\ \E a \in assigned : a.key = r.key /\ a.completed
        /\ \A x \in rewards : x.key # r.key
        /\ \E q \in done : r = [key |-> [quest |-> q.id, window |-> w], lane |-> q.lane, week |-> w]
  <2> SUFFICES ASSUME NEW r \in paid
      PROVE  /\ r.key = [quest |-> r.key.quest, window |-> r.week]
             /\ \E a \in assigned : a.key = r.key /\ a.completed
             /\ \A x \in rewards : x.key # r.key
             /\ \E q \in done : r = [key |-> [quest |-> q.id, window |-> w], lane |-> q.lane, week |-> w]
    OBVIOUS
  <2> QED
    BY <1>2, PaysOnce
<1>5. \A a \in board : a.completed => \E b \in board' : b.key = a.key /\ b.completed
  BY <1>3, BoardKeepsCompleted
<1>6. done \subseteq quests
  BY DEF upsertQuestCompletion
<1>7. \A q \in quests : /\ \A o \in quests : o.id = q.id => o = q
                        /\ \A t \in Templates : q.id = t.id => q = t
  BY <1>2, QuestIsItsName
<1>8. \A q \in done : q.badge # "" => \E b \in badges' : b.key = q.badge
  <2> SUFFICES ASSUME NEW q \in done, q.badge # "", \A b \in badges : b.key # q.badge
      PROVE  \E b \in given : b.key = q.badge
    BY <1>3
  <2> HIDE DEF done
  <2>1. [key |-> q.badge, run |-> 0] \in given
    BY DEF upsertQuestBadgeReward
  <2> HIDE DEF given
  <2> QED
    BY <2>1
<1> HIDE DEF quests, assigned, done, paid, given
<1>9. KeysAreWeeks'
  BY <1>3, <1>4 DEF QuestsInv, KeysAreWeeks
<1>10. \A r \in rewards' : \E a \in board' : a.key = r.key /\ a.completed
  <2>1. \A r \in rewards : \E a \in board : a.key = r.key /\ a.completed
    BY DEF QuestsInv, PaidOnceAWeek
  <2>2. \A r \in rewards : \E a \in board' : a.key = r.key /\ a.completed
    BY <1>5, <2>1
  <2>3. assigned \subseteq board'
    BY <1>3
  <2> QED
    BY <1>3, <1>4, <2>2, <2>3
<1>11. ASSUME NEW r \in rewards', NEW q \in rewards', q.week = r.week, q.key.quest = r.key.quest
       PROVE  q = r
  <2>1. q.key = r.key
    BY <1>9, <1>11 DEF KeysAreWeeks
  <2>2. CASE q \in rewards /\ r \in rewards
    BY <2>2, <1>11 DEF QuestsInv, PaidOnceAWeek
  <2>3. CASE q \in paid /\ r \in paid
    <3>1. PICK a \in done : q = [key |-> [quest |-> a.id, window |-> w], lane |-> a.lane, week |-> w]
      BY <1>4, <2>3
    <3>2. PICK b \in done : r = [key |-> [quest |-> b.id, window |-> w], lane |-> b.lane, week |-> w]
      BY <1>4, <2>3
    <3>3. q.key.quest = a.id /\ r.key.quest = b.id
      BY <3>1, <3>2
    <3>4. a = b
      BY <1>6, <1>7, <1>11, <3>3
    <3> QED
      BY <3>1, <3>2, <3>4
  <2> QED
    BY <1>3, <1>4, <2>1, <2>2, <2>3
<1>12. PaidOnceAWeek'
  BY <1>10, <1>11 DEF PaidOnceAWeek
<1>13. QuestBadgesAreKept'
  <2> SUFFICES ASSUME NEW t \in Templates, t.badge # "", NEW r \in rewards', r.key.quest = t.id
      PROVE  \E b \in badges' : b.key = t.badge
    BY DEF QuestBadgesAreKept
  <2>1. CASE r \in rewards
    <3>1. \E b \in badges : b.key = t.badge
      BY <2>1 DEF QuestsInv, QuestBadgesAreKept
    <3> QED
      BY <3>1, <1>3
  <2>2. CASE r \in paid
    <3>1. PICK q \in done : r = [key |-> [quest |-> q.id, window |-> w], lane |-> q.lane, week |-> w]
      BY <1>4, <2>2
    <3>2. q.id = t.id
      BY <3>1
    <3>3. q = t
      BY <1>6, <1>7, <3>2
    <3> QED
      BY <1>8, <3>3
  <2> QED
    BY <1>3, <2>1, <2>2
<1> QED
  BY <1>9, <1>12, <1>13 DEF QuestsInv

\* A replay takes away badges of its own names only.
LEMMA SaveReplayQuests ==
  ASSUME Typed, QuestsInv, NEW j \in Jobs, SaveReplay(j)
  PROVE  QuestsInv'
<1>1. rewards' = rewards /\ board' = board
  BY DEF SaveReplay
<1>2. \A b \in jobs[j].seen : b.key \in ScoreBadges
  BY TypedIs DEF JobsFit, JobFits
<1>3. ASSUME NEW b \in badges, b.key \notin ScoreBadges PROVE b \in badges'
  <2>1. b \notin jobs[j].seen /\ b.key \notin issueBadges(jobs[j].score)
    BY <1>2, <1>3 DEF issueBadges
  <2> QED
    BY <2>1 DEF SaveReplay, ReplaceBadges
<1>4. QuestBadgesAreKept'
  BY <1>1, <1>3, TemplatesAssumption DEF QuestsInv, QuestBadgesAreKept
<1> QED
  BY <1>1, <1>4 DEF QuestsInv, KeysAreWeeks, PaidOnceAWeek

LEMMA SameQuests ==
  ASSUME QuestsInv, UNCHANGED <<board, rewards, badges>>
  PROVE  QuestsInv'
BY DEF QuestsInv, KeysAreWeeks, PaidOnceAWeek, QuestBadgesAreKept

LEMMA NextQuests ==
  ASSUME Typed, QuestsInv, [Next]_vars
  PROVE  QuestsInv'
<1>1. ASSUME NEW j \in Jobs, Step(j) PROVE QuestsInv'
  <2>1. CASE SaveReplay(j)
    BY <2>1, SaveReplayQuests
  <2>2. CASE NewBoard(j)
    BY <2>2, NewBoardQuests
  <2>3. CASE ~SaveReplay(j) /\ ~NewBoard(j)
    <3>1. UNCHANGED <<board, rewards, badges>>
      BY <1>1, <2>3, Zenon DEF Step, SyncPullRequest, SavePullRequestAnalysis, StartReplay,
         LoadCandidates, DeleteBadges, StartRefresh, RefreshProfileByUserID, InsertSnapshot,
         EnsureSnapshot, RebuildLoad, MaterializeReports, Complete
    <3> QED
      BY <3>1, SameQuests
  <2> QED
    BY <2>1, <2>2, <2>3
<1>2. ASSUME NEW j \in Jobs, Fail(j) \/ RebuildFails(j) PROVE QuestsInv'
  BY <1>2, SameQuests DEF Fail, RebuildFails
<1>3. ASSUME Age \/ UNCHANGED vars PROVE QuestsInv'
  BY <1>3, SameQuests DEF Age, vars
<1> QED
  BY <1>1, <1>2, <1>3, Zenon DEF Next

----------------------------------------------------------------------------
(* What replays and snapshots can show.                                    *)

\* Job q holds the candidates it read.
Loaded(q) == Stands(q, "deleteBadges") \/ Stands(q, "saveReplay")

\* A step saves a run some job held, or none, and a job that holds candidates
\* held them before or has just read them.
RunStep ==
  /\ replay'.at >= replay.at
  /\ \/ replay' = replay
     \/ \E k \in Jobs : /\ Loaded(jobs[k])
                        /\ replay'.at = jobs[k].now /\ replay'.score = jobs[k].score
  /\ \A k \in Jobs : Loaded(jobs'[k]) =>
        /\ jobs'[k].now = jobs[k].now
        /\ \/ Loaded(jobs[k]) /\ jobs'[k].score = jobs[k].score
           \/ jobs'[k].score = LoadReplayCandidates

\* A step stores a later snapshot some job held, or none, and what a job holds
\* it held before, was stored, is empty or is built from the latest run.
SnapStep ==
  /\ \/ snapshot'.at = snapshot.at /\ snapshot'.score = snapshot.score
     \/ \E k \in Jobs : snapshot' = jobs[k].snap /\ snapshot'.at > snapshot.at
  /\ \A k \in Jobs : \A s \in {jobs'[k].snap, jobs'[k].old} :
        \/ s \in {jobs[k].snap, jobs[k].old, snapshot, NoSnapshot}
        \/ s.score = replay.score

LEMMA NotLoaded ==
  ASSUME NEW q, NEW p, NEW c, NEW step, JobFits(q, c), p.kind = q.kind, p.pc = q.pc + 1,
         Stands(q, step), step \notin {"loadCandidates", "deleteBadges"}
  PROVE  ~Loaded(p)
<1>1. ~Stands(q, "loadCandidates") /\ ~Stands(q, "deleteBadges")
  BY DEF Stands
<1>2. q.kind \in JobKinds /\ q.pc \in Nat /\ q.pc >= 1
  BY DEF JobFits
<1> QED
  BY <1>1, <1>2, After DEF Loaded

LEMMA AsideNotLoaded ==
  ASSUME NEW p, Aside(p)
  PROVE  ~Loaded(p)
BY DEF Aside, Loaded

LEMMA LocalRun ==
  ASSUME Typed, NEW j \in Jobs, NEW F, Moved(jobs, jobs', j, F), replay' = replay,
         ~Loaded(jobs'[j])
  PROVE  RunStep
<1>1. replay.at \in Nat
  BY TypedIs DEF DataFits
<1> QED
  BY <1>1 DEF RunStep, Moved

\* A step of one job that leaves the stored snapshot alone.
LEMMA LocalSnap ==
  ASSUME NEW j \in Jobs, NEW F, Moved(jobs, jobs', j, F), snapshot' = snapshot,
         \A s \in {jobs'[j].snap, jobs'[j].old} :
            \/ s \in {jobs[j].snap, jobs[j].old, snapshot, NoSnapshot}
            \/ s.score = replay.score
  PROVE  SnapStep
BY DEF SnapStep, Moved

LEMMA OneStep ==
  ASSUME Typed, NEW j \in Jobs, Step(j)
  PROVE  RunStep /\ SnapStep
<1>1. JobFits(jobs[j], clock) /\ replay.at \in Nat /\ snapshot.at \in Nat
  BY TypedIs DEF DataFits, JobsFit, SnapFits
<1>2. CASE SyncPullRequest(j)
  <2>1. /\ Stands(jobs[j], "sync") /\ Moved(jobs, jobs', j, {"row", "pc"})
        /\ jobs'[j].pc = jobs[j].pc + 1 /\ replay' = replay /\ snapshot' = snapshot
    BY <1>2, SyncPullRequestDoes DEF SyncPullRequest
  <2>2. jobs'[j].kind = jobs[j].kind /\ jobs'[j].snap = jobs[j].snap /\ jobs'[j].old = jobs[j].old
    BY <2>1 DEF Moved, Fields
  <2> QED
    BY <1>1, <2>1, <2>2, NotLoaded, LocalRun, LocalSnap
<1>3. CASE SavePullRequestAnalysis(j)
  <2>1. /\ Stands(jobs[j], "analyze") /\ Moved(jobs, jobs', j, {"an", "pc"})
        /\ jobs'[j].pc = jobs[j].pc + 1 /\ replay' = replay /\ snapshot' = snapshot
    BY <1>3, SavePullRequestAnalysisDoes DEF SavePullRequestAnalysis
  <2>2. jobs'[j].kind = jobs[j].kind /\ jobs'[j].snap = jobs[j].snap /\ jobs'[j].old = jobs[j].old
    BY <2>1 DEF Moved, Fields
  <2> QED
    BY <1>1, <2>1, <2>2, NotLoaded, LocalRun, LocalSnap
<1>4. CASE StartReplay(j)
  <2>1. replay' = replay /\ snapshot' = snapshot
    BY <1>4, Zenon DEF StartReplay
  <2>2. /\ Stands(jobs[j], "replayStart")
        /\ \A f \in Fields \ {"pc", "now", "solo"} : jobs'[j][f] = jobs[j][f]
        /\ jobs'[j].pc = jobs[j].pc + 1
        /\ \A k \in Jobs \ {j} : \A f \in Fields \ {"solo"} : jobs'[k][f] = jobs[k][f]
    BY <1>4, StartReplayDoes
  <2>3. jobs'[j].kind = jobs[j].kind /\ jobs'[j].snap = jobs[j].snap /\ jobs'[j].old = jobs[j].old
    BY <2>2 DEF Fields
  <2>4. ~Loaded(jobs'[j])
    BY <1>1, <2>2, <2>3, NotLoaded
  <2>5. \A k \in Jobs \ {j} :
           /\ jobs'[k].kind = jobs[k].kind /\ jobs'[k].pc = jobs[k].pc
           /\ jobs'[k].now = jobs[k].now /\ jobs'[k].score = jobs[k].score
           /\ jobs'[k].snap = jobs[k].snap /\ jobs'[k].old = jobs[k].old
    BY <2>2 DEF Fields
  <2>6. \A k \in Jobs \ {j} : Loaded(jobs'[k]) <=> Loaded(jobs[k])
    BY <2>5 DEF Loaded, Stands
  <2>7. RunStep
    BY <1>1, <2>1, <2>4, <2>5, <2>6 DEF RunStep
  <2>8. SnapStep
    BY <2>1, <2>3, <2>5 DEF SnapStep
  <2> QED
    BY <2>7, <2>8
<1>5. CASE LoadCandidates(j)
  <2>1. /\ Moved(jobs, jobs', j, {"score", "pc"})
        /\ jobs'[j].score = LoadReplayCandidates /\ replay' = replay /\ snapshot' = snapshot
    BY <1>5, LoadCandidatesDoes DEF LoadCandidates
  <2>2. /\ jobs'[j].now = jobs[j].now /\ jobs'[j].snap = jobs[j].snap
        /\ jobs'[j].old = jobs[j].old
    BY <2>1 DEF Moved, Fields
  <2>3. RunStep
    BY <1>1, <2>1, <2>2 DEF RunStep, Moved
  <2> QED
    BY <2>1, <2>2, <2>3, LocalSnap
<1>6. CASE DeleteBadges(j)
  <2>1. /\ Stands(jobs[j], "deleteBadges") /\ Moved(jobs, jobs', j, {"seen", "pc"})
        /\ replay' = replay /\ snapshot' = snapshot
    BY <1>6, DeleteBadgesDoes DEF DeleteBadges
  <2>2. /\ jobs'[j].now = jobs[j].now /\ jobs'[j].score = jobs[j].score
        /\ jobs'[j].snap = jobs[j].snap /\ jobs'[j].old = jobs[j].old
    BY <2>1 DEF Moved, Fields
  <2>3. Loaded(jobs[j])
    BY <2>1 DEF Loaded
  <2>4. RunStep
    BY <1>1, <2>1, <2>2, <2>3 DEF RunStep, Moved
  <2> QED
    BY <2>1, <2>2, <2>4, LocalSnap
<1>7. CASE SaveReplay(j)
  <2>1. /\ Stands(jobs[j], "saveReplay")
        /\ Moved(jobs, jobs', j, {"seen", "score", "now", "solo", "pc"})
        /\ jobs'[j].pc = jobs[j].pc + 1
        /\ replay' = LatestReplay([at |-> jobs[j].now, score |-> jobs[j].score])
        /\ snapshot' = snapshot
    BY <1>7, SaveReplayDoes DEF SaveReplay
  <2>2. jobs'[j].kind = jobs[j].kind /\ jobs'[j].snap = jobs[j].snap /\ jobs'[j].old = jobs[j].old
    BY <2>1 DEF Moved, Fields
  <2>3. ~Loaded(jobs'[j])
    BY <1>1, <2>1, <2>2, NotLoaded
  <2>4. Loaded(jobs[j])
    BY <2>1 DEF Loaded
  <2>5. /\ replay'.at >= replay.at
        /\ \/ replay' = replay
           \/ replay'.at = jobs[j].now /\ replay'.score = jobs[j].score
    BY <1>1, <2>1 DEF LatestReplay, JobFits
  <2>6. RunStep
    BY <2>1, <2>3, <2>4, <2>5 DEF RunStep, Moved
  <2> QED
    BY <2>1, <2>2, <2>6, LocalSnap
<1>8. CASE StartRefresh(j)
  <2>1. /\ Stands(jobs[j], "refreshStart") /\ Moved(jobs, jobs', j, {"now", "week", "pc"})
        /\ jobs'[j].pc = jobs[j].pc + 1 /\ replay' = replay /\ snapshot' = snapshot
    BY <1>8, StartRefreshDoes DEF StartRefresh
  <2>2. jobs'[j].kind = jobs[j].kind /\ jobs'[j].snap = jobs[j].snap /\ jobs'[j].old = jobs[j].old
    BY <2>1 DEF Moved, Fields
  <2> QED
    BY <1>1, <2>1, <2>2, NotLoaded, LocalRun, LocalSnap
<1>9. CASE RefreshProfileByUserID(j)
  <2>1. /\ Stands(jobs[j], "refreshLoad") /\ Moved(jobs, jobs', j, {"pc", "snap"})
        /\ jobs'[j].pc = jobs[j].pc + 1 \/ jobs'[j].pc = jobs[j].pc + 3
        /\ jobs'[j].snap = loadSnapshotInputs(jobs[j].now)
        /\ replay' = replay /\ snapshot' = snapshot
    BY <1>9, RefreshProfileDoes DEF RefreshProfileByUserID
  <2>2. jobs'[j].kind = jobs[j].kind /\ jobs'[j].old = jobs[j].old
    BY <2>1 DEF Moved, Fields
  <2>3. jobs'[j].snap.score = replay.score
    BY <2>1 DEF loadSnapshotInputs, buildSnapshot, LoadScoreRows, LoadLatestScoreSelection
  <2>4. jobs[j].pc \in Nat /\ jobs[j].pc >= 1 /\ jobs[j].kind \in JobKinds
    BY <1>1 DEF JobFits
  <2>5. jobs[j].pc <= Len(Steps(jobs[j].kind)) /\ Steps(jobs[j].kind)[jobs[j].pc] = "refreshLoad"
    BY <2>1 DEF Stands
  <2>6. ~Loaded(jobs'[j])
    <3>1. CASE jobs'[j].pc = jobs[j].pc + 1
      BY <1>1, <2>1, <2>2, <3>1, NotLoaded
    <3>2. CASE jobs'[j].pc = jobs[j].pc + 3
      BY <2>2, <2>4, <2>5, <3>2, Jumps, AsideNotLoaded
    <3> QED
      BY <2>1, <3>1, <3>2
  <2> QED
    BY <2>1, <2>2, <2>3, <2>6, LocalRun, LocalSnap
<1>10. CASE InsertSnapshot(j)
  <2>1. /\ Stands(jobs[j], "insertSnapshot") /\ Moved(jobs, jobs', j, {"pc"})
        /\ jobs'[j].pc = jobs[j].pc + 1 /\ replay' = replay
        /\ snapshot' = LatestSnapshot(jobs[j].snap)
    BY <1>10, InsertSnapshotDoes DEF InsertSnapshot
  <2>2. jobs'[j].kind = jobs[j].kind /\ jobs'[j].snap = jobs[j].snap /\ jobs'[j].old = jobs[j].old
    BY <2>1 DEF Moved, Fields
  <2>3. ~Loaded(jobs'[j])
    BY <1>1, <2>1, <2>2, NotLoaded
  <2>4. snapshot' = snapshot \/ (snapshot' = jobs[j].snap /\ snapshot'.at > snapshot.at)
    BY <2>1 DEF LatestSnapshot
  <2>5. SnapStep
    BY <2>1, <2>2, <2>4 DEF SnapStep, Moved
  <2> QED
    BY <2>1, <2>3, <2>5, LocalRun
<1>11. CASE EnsureSnapshot(j)
  <2>1. /\ Stands(jobs[j], "ensureSnapshot")
        /\ Moved(jobs, jobs', j, {"now", "week", "pc", "snap", "old"})
        /\ jobs'[j].pc = jobs[j].pc + 1 \/ jobs'[j].pc = jobs[j].pc + 4
        /\ jobs'[j].snap = snapshot /\ jobs'[j].old = snapshot
        /\ replay' = replay /\ snapshot' = snapshot
    BY <1>11, EnsureSnapshotDoes DEF EnsureSnapshot
  <2>2. jobs'[j].kind = jobs[j].kind
    BY <2>1 DEF Moved, Fields
  <2>4. jobs[j].pc \in Nat /\ jobs[j].pc >= 1 /\ jobs[j].kind \in JobKinds
    BY <1>1 DEF JobFits
  <2>5. /\ jobs[j].pc <= Len(Steps(jobs[j].kind))
        /\ Steps(jobs[j].kind)[jobs[j].pc] = "ensureSnapshot"
    BY <2>1 DEF Stands
  <2>6. ~Loaded(jobs'[j])
    <3>1. CASE jobs'[j].pc = jobs[j].pc + 1
      BY <1>1, <2>1, <2>2, <3>1, NotLoaded
    <3>2. CASE jobs'[j].pc = jobs[j].pc + 4
      BY <2>2, <2>4, <2>5, <3>2, Jumps, AsideNotLoaded
    <3> QED
      BY <2>1, <3>1, <3>2
  <2> QED
    BY <2>1, <2>6, LocalRun, LocalSnap
<1>12. CASE RebuildLoad(j)
  <2>1. /\ Stands(jobs[j], "rebuildLoad") /\ Moved(jobs, jobs', j, {"snap", "pc"})
        /\ jobs'[j].pc = jobs[j].pc + 1 /\ replay' = replay /\ snapshot' = snapshot
        /\ jobs'[j].snap = loadSnapshotInputs(jobs[j].now)
    BY <1>12, RebuildLoadDoes DEF RebuildLoad
  <2>2. jobs'[j].kind = jobs[j].kind /\ jobs'[j].old = jobs[j].old
    BY <2>1 DEF Moved, Fields
  <2>3. jobs'[j].snap.score = replay.score
    BY <2>1 DEF loadSnapshotInputs, buildSnapshot, LoadScoreRows, LoadLatestScoreSelection
  <2> QED
    BY <1>1, <2>1, <2>2, <2>3, NotLoaded, LocalRun, LocalSnap
<1>13. CASE NewBoard(j)
  <2>1. /\ Stands(jobs[j], "newBoard") \/ Stands(jobs[j], "questBoard")
        /\ Moved(jobs, jobs', j, {"snap", "old", "now", "pc"})
        /\ jobs'[j].pc = jobs[j].pc + 1
        /\ jobs'[j].snap = jobs[j].snap \/ jobs'[j].snap = NoSnapshot
        /\ jobs'[j].old = NoSnapshot /\ replay' = replay /\ snapshot' = snapshot
    BY <1>13, NewBoardDoes DEF NewBoard
  <2>2. jobs'[j].kind = jobs[j].kind
    BY <2>1 DEF Moved, Fields
  <2>3. ~Loaded(jobs'[j])
    BY <1>1, <2>1, <2>2, NotLoaded
  <2> QED
    BY <2>1, <2>3, LocalRun, LocalSnap
<1>14. CASE MaterializeReports(j)
  <2>1. /\ Stands(jobs[j], "report") /\ Moved(jobs, jobs', j, {"report", "pc"})
        /\ jobs'[j].pc = jobs[j].pc + 1 /\ replay' = replay /\ snapshot' = snapshot
    BY <1>14, MaterializeReportsDoes DEF MaterializeReports
  <2>2. jobs'[j].kind = jobs[j].kind /\ jobs'[j].snap = jobs[j].snap /\ jobs'[j].old = jobs[j].old
    BY <2>1 DEF Moved, Fields
  <2> QED
    BY <1>1, <2>1, <2>2, NotLoaded, LocalRun, LocalSnap
<1>15. CASE Complete(j)
  <2>1. /\ jobs[j].pc = Len(Steps(jobs[j].kind)) + 1 /\ Moved(jobs, jobs', j, {"pc"})
        /\ jobs'[j].pc = jobs[j].pc + 1 /\ replay' = replay /\ snapshot' = snapshot
    BY <1>15, CompleteDoes DEF Complete
  <2>2. jobs'[j].kind = jobs[j].kind /\ jobs'[j].snap = jobs[j].snap /\ jobs'[j].old = jobs[j].old
    BY <2>1 DEF Moved, Fields
  <2>3. Len(Steps(jobs[j].kind)) \in Nat
    BY <1>1, EveryOrder DEF JobFits, Orderly
  <2>4. ~(jobs'[j].pc <= Len(Steps(jobs'[j].kind)))
    BY <2>1, <2>2, <2>3
  <2>5. ~Loaded(jobs'[j])
    BY <2>4 DEF Loaded, Stands
  <2> QED
    BY <2>1, <2>2, <2>5, LocalRun, LocalSnap
<1> QED
  BY <1>2, <1>3, <1>4, <1>5, <1>6, <1>7, <1>8, <1>9, <1>10, <1>11, <1>12, <1>13, <1>14, <1>15
     DEF Step

LEMMA OtherStep ==
  ASSUME Typed, NEW j \in Jobs, Fail(j) \/ RebuildFails(j)
  PROVE  RunStep /\ SnapStep
<1>1. JobFits(jobs[j], clock)
  BY TypedIs DEF JobsFit
<1>2. jobs[j].pc \in Nat /\ jobs[j].kind \in JobKinds
  BY <1>1 DEF JobFits
<1>3. replay' = replay /\ snapshot' = snapshot
  BY DEF Fail, RebuildFails
<1>4. CASE Fail(j)
  <2>1. /\ Moved(jobs, jobs', j, Fields \ {"kind", "pr", "row", "an"})
        /\ jobs'[j].pc = 1 /\ jobs'[j].snap = NoSnapshot /\ jobs'[j].old = NoSnapshot
    BY <1>4, FailDoes
  <2>2. jobs'[j].kind = jobs[j].kind
    BY <2>1 DEF Moved, Fields
  <2>3. 1 \in Nat /\ 1 >= 1 /\ 1 <= Len(Steps(jobs[j].kind))
    BY <1>2, EveryOrder DEF Orderly
  <2>4. Aside(jobs'[j])
    BY <1>2, <2>1, <2>2, <2>3, Jumps
  <2> QED
    BY <1>3, <2>1, <2>4, AsideNotLoaded, LocalRun, LocalSnap
<1>5. CASE RebuildFails(j)
  <2>1. /\ Moved(jobs, jobs', j, {"pc", "snap"})
        /\ jobs'[j].snap = jobs[j].old
    BY <1>5, RebuildFailsDoes
  <2>2. PICK i \in Nat : /\ i >= 1 /\ i <= Len(Steps(jobs[j].kind))
                         /\ Steps(jobs[j].kind)[i] = "ensureSnapshot"
                         /\ jobs'[j].pc = i + 4
    BY <1>5, RebuildFailsDoes
  <2>3. jobs'[j].kind = jobs[j].kind /\ jobs'[j].old = jobs[j].old
    BY <2>1 DEF Moved, Fields
  <2>4. Aside(jobs'[j])
    BY <1>2, <2>2, <2>3, Jumps
  <2> QED
    BY <1>3, <2>1, <2>3, <2>4, AsideNotLoaded, LocalRun, LocalSnap
<1> QED
  BY <1>4, <1>5

LEMMA NextFlows ==
  ASSUME Typed, [Next]_vars
  PROVE  RunStep /\ SnapStep
<1>1. replay.at \in Nat
  BY TypedIs DEF DataFits
<1>2. ASSUME Age PROVE RunStep /\ SnapStep
  <2>1. jobs' = jobs /\ replay' = replay
    BY <1>2 DEF Age
  <2>2. snapshot'.at = snapshot.at /\ snapshot'.score = snapshot.score
    BY <1>2, AgeDoes
  <2> QED
    BY <1>1, <2>1, <2>2 DEF RunStep, SnapStep
<1>3. ASSUME UNCHANGED vars PROVE RunStep /\ SnapStep
  BY <1>1, <1>3 DEF vars, RunStep, SnapStep
<1> QED
  BY <1>2, <1>3, OneStep, OtherStep, Zenon DEF Next

----------------------------------------------------------------------------
(* What was graded is shown.                                               *)

Covers(score, p, r, a) == score[p].row >= r /\ score[p].an >= a

\* Row version r and analysis a of p are stored.
Known(rs, as, p, r, a) == rs[p] >= r /\ as[p] >= a /\ (rs[p] = 0 => a = 0)

\* Runs that began at t or later, saved or about to be, cover r and a.
RunsCover(rep, js, p, r, a, t) ==
  /\ rep.at >= t => Covers(rep.score, p, r, a)
  /\ \A k \in Jobs : Loaded(js[k]) /\ js[k].now >= t => Covers(js[k].score, p, r, a)

SnapCovers(snap, p, r, a, t) ==
  snap.at >= t /\ snap.at > 0 => Covers(snap.score, p, r, a)

\* So do snapshots.
SnapsCover(sn, js, p, r, a, t) ==
  /\ SnapCovers(sn, p, r, a, t)
  /\ \A k \in Jobs : SnapCovers(js[k].snap, p, r, a, t) /\ SnapCovers(js[k].old, p, r, a, t)

\* What is derived from now on from r and a, and from later ones, is shown.
Shown(rs, as, rep, sn, js, p, r, a) ==
  /\ Known(rs, as, p, r, a)
  /\ RunsCover(rep, js, p, r, a, rep.at)
  /\ Covers(sn.score, p, r, a)
  /\ SnapsCover(sn, js, p, r, a, sn.at)

LEMMA KnownStays ==
  ASSUME Typed, Typed', [Next]_vars, NEW p \in PRs, NEW r \in Nat, NEW a \in Nat,
         Known(rows, analyses, p, r, a)
  PROVE  Known(rows', analyses', p, r, a)
<1>1. /\ rows \in [PRs -> Nat] /\ analyses \in [PRs -> Nat] /\ clock \in Nat
      /\ \A o \in PRs : analyses[o] <= clock
  BY TypedIs DEF DataFits
<1>2. ASSUME NEW j \in Jobs, SyncPullRequest(j) PROVE rows'[p] >= rows[p] /\ analyses' = analyses
  BY <1>1, <1>2 DEF SyncPullRequest
<1>3. ASSUME NEW j \in Jobs, SavePullRequestAnalysis(j)
      PROVE rows' = rows /\ analyses'[p] >= analyses[p]
  BY <1>1, <1>3 DEF SavePullRequestAnalysis, Now
<1>4. ASSUME NEW j \in Jobs, Step(j), ~SyncPullRequest(j), ~SavePullRequestAnalysis(j)
      PROVE rows' = rows /\ analyses' = analyses
  BY <1>4, Zenon DEF Step, SaveReplay, StartReplay, NewBoard,
     LoadCandidates, DeleteBadges, StartRefresh, RefreshProfileByUserID, InsertSnapshot,
     EnsureSnapshot, RebuildLoad, MaterializeReports, Complete
<1>5. ASSUME NEW j \in Jobs, Fail(j) \/ RebuildFails(j) PROVE rows' = rows /\ analyses' = analyses
  BY <1>5 DEF Fail, RebuildFails
<1>6. ASSUME Age \/ UNCHANGED vars PROVE rows' = rows /\ analyses' = analyses
  BY <1>6 DEF Age, vars
<1>7. /\ rows' = rows \/ rows'[p] >= rows[p]
      /\ analyses' = analyses \/ analyses'[p] >= analyses[p]
  BY <1>2, <1>3, <1>4, <1>5, <1>6 DEF Next
<1>8. rows'[p] >= rows[p] /\ analyses'[p] >= analyses[p]
  BY <1>1, <1>7
<1>9. rows'[p] \in Nat /\ analyses'[p] \in Nat /\ rows[p] \in Nat /\ analyses[p] \in Nat
  BY <1>1, <1>8, TypedIs DEF Typed, DataFits
<1> QED
  BY <1>8, <1>9 DEF Known

LEMMA CandidatesCover ==
  ASSUME Typed, NEW p \in PRs, NEW r \in Nat, NEW a \in Nat, Known(rows, analyses, p, r, a)
  PROVE  Covers(LoadReplayCandidates, p, r, a)
<1>1. rows[p] \in Nat /\ analyses[p] \in Nat
  BY TypedIs DEF DataFits
<1>2. /\ LoadReplayCandidates[p].row = rows[p]
      /\ LoadReplayCandidates[p].an = IF rows[p] = 0 THEN 0 ELSE analyses[p]
  BY DEF LoadReplayCandidates
<1> QED
  BY <1>1, <1>2 DEF Known, Covers

LEMMA RunsStay ==
  ASSUME Typed, RunStep, NEW p \in PRs, NEW r \in Nat, NEW a \in Nat, NEW t \in Nat,
         Known(rows, analyses, p, r, a), RunsCover(replay, jobs, p, r, a, t)
  PROVE  RunsCover(replay', jobs', p, r, a, t)
<1>1. Covers(LoadReplayCandidates, p, r, a)
  BY CandidatesCover
<1>2. replay'.at >= t => Covers(replay'.score, p, r, a)
  BY DEF RunStep, RunsCover
<1>3. \A k \in Jobs : Loaded(jobs'[k]) /\ jobs'[k].now >= t => Covers(jobs'[k].score, p, r, a)
  BY <1>1 DEF RunStep, RunsCover
<1> QED
  BY <1>2, <1>3 DEF RunsCover

LEMMA SnapsStay ==
  ASSUME Typed, SnapStep, NEW p \in PRs, NEW r \in Nat, NEW a \in Nat, NEW t \in Nat,
         Covers(replay.score, p, r, a), SnapsCover(snapshot, jobs, p, r, a, t)
  PROVE  SnapsCover(snapshot', jobs', p, r, a, t)
<1>1. SnapCovers(NoSnapshot, p, r, a, t)
  BY DEF SnapCovers, NoSnapshot
<1>2. SnapCovers(snapshot', p, r, a, t)
  BY DEF SnapStep, SnapsCover, SnapCovers
<1>3. ASSUME NEW k \in Jobs, NEW s \in {jobs'[k].snap, jobs'[k].old}
      PROVE  SnapCovers(s, p, r, a, t)
  <2>1. CASE s.score = replay.score
    BY <2>1 DEF SnapCovers
  <2>2. CASE s \in {jobs[k].snap, jobs[k].old, snapshot, NoSnapshot}
    BY <1>1, <2>2 DEF SnapsCover
  <2> QED
    BY <2>1, <2>2 DEF SnapStep
<1> QED
  BY <1>2, <1>3 DEF SnapsCover

LEMMA LaterRuns ==
  ASSUME NEW rep, NEW js, NEW p, NEW r, NEW a, NEW t \in Nat, NEW u \in Nat, t <= u,
         rep.at \in Nat, \A k \in Jobs : js[k].now \in Nat, RunsCover(rep, js, p, r, a, t)
  PROVE  RunsCover(rep, js, p, r, a, u)
BY DEF RunsCover

LEMMA LaterSnaps ==
  ASSUME NEW sn, NEW js, NEW c, NEW p, NEW r, NEW a, NEW t \in Nat, NEW u \in Nat, t <= u,
         SnapFits(sn, c), JobsFit(js, c), SnapsCover(sn, js, p, r, a, t)
  PROVE  SnapsCover(sn, js, p, r, a, u)
<1>1. sn.at \in Nat /\ \A k \in Jobs : js[k].snap.at \in Nat /\ js[k].old.at \in Nat
  BY DEF JobsFit, JobFits, SnapFits
<1> QED
  BY <1>1 DEF SnapsCover, SnapCovers

LEMMA ShownStays ==
  ASSUME Typed, Typed', [Next]_vars, NEW p \in PRs, NEW r \in Nat, NEW a \in Nat,
         Shown(rows, analyses, replay, snapshot, jobs, p, r, a)
  PROVE  Shown(rows', analyses', replay', snapshot', jobs', p, r, a)
<1>1. RunStep /\ SnapStep
  BY NextFlows
<1>2. /\ replay.at \in Nat /\ snapshot.at \in Nat
      /\ replay'.at \in Nat /\ snapshot'.at \in Nat
      /\ SnapFits(snapshot', clock') /\ JobsFit(jobs', clock')
      /\ \A k \in Jobs : jobs'[k].now \in Nat
  BY TypedIs DEF Typed, DataFits, SnapFits, JobsFit, JobFits
<1>3. Known(rows, analyses, p, r, a) /\ Known(rows', analyses', p, r, a)
  BY KnownStays DEF Shown
<1>4. Covers(replay.score, p, r, a)
  BY <1>2 DEF Shown, RunsCover
<1>5. RunsCover(replay', jobs', p, r, a, replay.at)
  BY <1>1, <1>2, <1>3, RunsStay DEF Shown
<1>6. RunsCover(replay', jobs', p, r, a, replay'.at)
  BY <1>1, <1>2, <1>5, LaterRuns DEF RunStep
<1>7. SnapsCover(snapshot', jobs', p, r, a, snapshot.at)
  BY <1>1, <1>2, <1>4, SnapsStay DEF Shown
<1>8. snapshot'.at >= snapshot.at
  BY <1>1, <1>2 DEF SnapStep
<1>9. SnapsCover(snapshot', jobs', p, r, a, snapshot'.at)
  BY <1>2, <1>7, <1>8, LaterSnaps
<1>10. Covers(snapshot'.score, p, r, a)
  <2>1. CASE snapshot'.at = snapshot.at /\ snapshot'.score = snapshot.score
    BY <2>1 DEF Shown, Covers
  <2>2. CASE snapshot'.at > snapshot.at
    <3>1. snapshot'.at >= snapshot'.at /\ snapshot'.at > 0
      BY <1>2, <2>2
    <3> QED
      BY <1>9, <3>1 DEF SnapsCover, SnapCovers
  <2> QED
    BY <1>1, <2>1, <2>2 DEF SnapStep
<1> QED
  BY <1>3, <1>6, <1>9, <1>10 DEF Shown

----------------------------------------------------------------------------
(* A grade job, step by step.                                              *)

\* Where a grade job stands between its sync and its end.
GradeFits(q, rs, as, rep, sn, js, sc) ==
  /\ Known(rs, as, q.pr, q.row, q.an)
  /\ q.pc >= 2 => q.row >= 1
  /\ q.pc \in 4 .. 6 => RunsCover(rep, js, q.pr, q.row, q.an, q.now)
  /\ q.pc >= 7 => q.pr \in sc /\ RunsCover(rep, js, q.pr, q.row, q.an, rep.at)
  /\ q.pc = 8 => q.now > 0 /\ SnapsCover(sn, js, q.pr, q.row, q.an, q.now)
  /\ q.pc = 9 => q.snap.at > 0 /\ SnapsCover(sn, js, q.pr, q.row, q.an, q.snap.at)
  /\ q.pc >= 10 => Shown(rs, as, rep, sn, js, q.pr, q.row, q.an)
  /\ q.pc >= 12 => ~reportEvidenceState(q.report) /\ q.report.an >= q.an

GradeInv ==
  \A rs, as, rep, sn, js, sc, gr :
     /\ rs = rows /\ as = analyses /\ rep = replay /\ sn = snapshot
     /\ js = jobs /\ sc = scored /\ gr = graded
     => /\ \A j \in Jobs : js[j].kind = "grade" => GradeFits(js[j], rs, as, rep, sn, js, sc)
        /\ \A p \in PRs : Shown(rs, as, rep, sn, js, p, gr[p].row, gr[p].an)

GradesFit ==
  \A j \in Jobs : jobs[j].kind = "grade" =>
     GradeFits(jobs[j], rows, analyses, replay, snapshot, jobs, scored)

LEMMA GradeIs ==
  ASSUME GradeInv
  PROVE  /\ GradesFit
         /\ \A p \in PRs : Shown(rows, analyses, replay, snapshot, jobs, p,
                                 graded[p].row, graded[p].an)
BY DEF GradeInv, GradesFit

LEMMA GradeNext ==
  ASSUME \A j \in Jobs : jobs'[j].kind = "grade" =>
            GradeFits(jobs'[j], rows', analyses', replay', snapshot', jobs', scored'),
         \A p \in PRs : Shown(rows', analyses', replay', snapshot', jobs', p,
                              graded'[p].row, graded'[p].an)
  PROVE  GradeInv'
BY DEF GradeInv

\* What is scored stays scored.
LEMMA ScoredStays ==
  ASSUME [Next]_vars
  PROVE  scored \subseteq scored'
<1>1. ASSUME NEW j \in Jobs, Step(j), ~SaveReplay(j) PROVE scored' = scored
  BY <1>1, Zenon DEF Step, SyncPullRequest, SavePullRequestAnalysis, StartReplay, NewBoard,
     LoadCandidates, DeleteBadges, StartRefresh, RefreshProfileByUserID, InsertSnapshot,
     EnsureSnapshot, RebuildLoad, MaterializeReports, Complete
<1>2. ASSUME NEW j \in Jobs, SaveReplay(j) PROVE scored \subseteq scored'
  BY <1>2 DEF SaveReplay
<1>3. ASSUME NEW j \in Jobs, Fail(j) \/ RebuildFails(j) PROVE scored' = scored
  BY <1>3 DEF Fail, RebuildFails
<1>4. ASSUME Age \/ UNCHANGED vars PROVE scored' = scored
  BY <1>4 DEF Age, vars
<1> QED
  BY <1>1, <1>2, <1>3, <1>4 DEF Next

\* Facts about a step that the cases below share.
Flowing ==
  /\ Typed /\ Typed' /\ [Next]_vars /\ RunStep /\ SnapStep
  /\ DataFits(clock, rows, analyses, replay, snapshot, graded, rewards, badges)
  /\ DataFits(clock', rows', analyses', replay', snapshot', graded', rewards', badges')
  /\ JobsFit(jobs, clock) /\ JobsFit(jobs', clock')
  /\ scored \subseteq scored'

LEMMA NextIsFlowing ==
  ASSUME Typed, [Next]_vars
  PROVE  Flowing
<1>1. Typed'
  BY NextTyped
<1>2. /\ DataFits(clock', rows', analyses', replay', snapshot', graded', rewards', badges')
      /\ JobsFit(jobs', clock')
  BY <1>1 DEF Typed
<1> QED
  BY <1>1, <1>2, TypedIs, NextFlows, ScoredStays DEF Flowing

\* Runs that cover what a job graded do so after the step.
LEMMA RunsFlow ==
  ASSUME Flowing, NEW p \in PRs, NEW r \in Nat, NEW a \in Nat, NEW t \in Nat,
         Known(rows, analyses, p, r, a), RunsCover(replay, jobs, p, r, a, t),
         NEW u \in Nat, t <= u
  PROVE  RunsCover(replay', jobs', p, r, a, u)
<1>1. RunsCover(replay', jobs', p, r, a, t)
  BY RunsStay DEF Flowing
<1>2. replay'.at \in Nat /\ \A k \in Jobs : jobs'[k].now \in Nat
  BY DEF Flowing, DataFits, JobsFit, JobFits
<1> QED
  BY <1>1, <1>2, LaterRuns

LEMMA SnapsFlow ==
  ASSUME Flowing, NEW p \in PRs, NEW r \in Nat, NEW a \in Nat, NEW t \in Nat,
         RunsCover(replay, jobs, p, r, a, replay.at),
         SnapsCover(snapshot, jobs, p, r, a, t), NEW u \in Nat, t <= u
  PROVE  SnapsCover(snapshot', jobs', p, r, a, u)
<1>1. Covers(replay.score, p, r, a)
  <2>1. replay.at >= replay.at
    BY DEF Flowing, DataFits
  <2> QED
    BY <2>1 DEF RunsCover
<1>2. SnapsCover(snapshot', jobs', p, r, a, t)
  BY <1>1, SnapsStay DEF Flowing
<1> QED
  BY <1>2, LaterSnaps DEF Flowing, DataFits

LEMMA ReplayLater ==
  ASSUME Flowing
  PROVE  /\ replay.at \in Nat /\ replay'.at \in Nat /\ replay.at <= replay'.at
         /\ snapshot.at \in Nat /\ snapshot'.at \in Nat /\ snapshot.at <= snapshot'.at
BY DEF Flowing, DataFits, SnapFits, RunStep, SnapStep

\* A job that takes no step is carried along.
LEMMA GradeRides ==
  ASSUME Flowing, NEW q, NEW p, JobFits(q, clock),
         GradeFits(q, rows, analyses, replay, snapshot, jobs, scored),
         \A f \in Fields \ {"solo"} : p[f] = q[f]
  PROVE  GradeFits(p, rows', analyses', replay', snapshot', jobs', scored')
<1> DEFINE pr == q.pr
<1> DEFINE r == q.row
<1> DEFINE a == q.an
<1>1. /\ p.pr = pr /\ p.row = r /\ p.an = a /\ p.pc = q.pc /\ p.now = q.now
      /\ p.snap = q.snap /\ p.report = q.report
  BY DEF Fields
<1>2. /\ pr \in PRs /\ r \in Nat /\ a \in Nat /\ q.pc \in Nat /\ q.now \in Nat
      /\ q.snap.at \in Nat
  BY DEF JobFits, SnapFits
<1>3. Known(rows, analyses, pr, r, a)
  BY DEF GradeFits
<1>4. Known(rows', analyses', pr, r, a)
  BY <1>2, <1>3, KnownStays DEF Flowing
<1>5. q.pc \in 4 .. 6 => RunsCover(replay', jobs', pr, r, a, q.now)
  BY <1>2, <1>3, RunsFlow DEF GradeFits
<1>6. q.pc >= 7 => pr \in scored' /\ RunsCover(replay', jobs', pr, r, a, replay'.at)
  BY <1>2, <1>3, RunsFlow, ReplayLater DEF GradeFits, Flowing
<1>7. q.pc = 8 => q.now > 0 /\ SnapsCover(snapshot', jobs', pr, r, a, q.now)
  BY <1>2, SnapsFlow DEF GradeFits
<1>8. q.pc = 9 => q.snap.at > 0 /\ SnapsCover(snapshot', jobs', pr, r, a, q.snap.at)
  BY <1>2, SnapsFlow DEF GradeFits
<1>9. q.pc >= 10 => Shown(rows', analyses', replay', snapshot', jobs', pr, r, a)
  BY <1>2, ShownStays DEF GradeFits, Flowing
<1>10. /\ q.pc >= 2 => r >= 1
       /\ q.pc >= 12 => ~reportEvidenceState(q.report) /\ q.report.an >= a
  BY DEF GradeFits
<1> HIDE DEF pr, r, a
<1> QED
  BY <1>1, <1>4, <1>5, <1>6, <1>7, <1>8, <1>9, <1>10 DEF GradeFits

\* The job that takes the step, as the cases below know it.
Taking(j) ==
  /\ Flowing /\ j \in Jobs
  /\ jobs[j].kind = "grade" /\ JobFits(jobs[j], clock) /\ JobFits(jobs'[j], clock')
  /\ jobs'[j].kind = "grade" /\ jobs'[j].pr = jobs[j].pr
  /\ GradeFits(jobs[j], rows, analyses, replay, snapshot, jobs, scored)

OwnFits(j) == GradeFits(jobs'[j], rows', analyses', replay', snapshot', jobs', scored')

LEMMA TakingIs ==
  ASSUME NEW j, Taking(j)
  PROVE  /\ jobs[j].pr \in PRs /\ jobs[j].row \in Nat /\ jobs[j].an \in Nat
         /\ jobs[j].pc \in Nat /\ jobs[j].pc >= 1
         /\ jobs[j].now \in Nat /\ jobs[j].now <= clock /\ clock \in Nat
         /\ jobs[j].snap.at \in Nat
         /\ Known(rows, analyses, jobs[j].pr, jobs[j].row, jobs[j].an)
BY DEF Taking, JobFits, SnapFits, GradeFits, Flowing, DataFits

\* The row and the analysis of the job are still known after a step that
\* keeps them.
LEMMA TakingKnown ==
  ASSUME NEW j, Taking(j), jobs'[j].row = jobs[j].row, jobs'[j].an = jobs[j].an
  PROVE  Known(rows', analyses', jobs'[j].pr, jobs'[j].row, jobs'[j].an)
BY TakingIs, KnownStays DEF Taking, Flowing

LEMMA TakingSteps ==
  ASSUME NEW j, Taking(j)
  PROVE  /\ Len(Steps(jobs[j].kind)) = 11
         /\ \A i \in 1 .. 11 : Steps(jobs[j].kind)[i] # "ensureSnapshot"
<1>1. PICK q : q = jobs[j]
  OBVIOUS
<1>2. q.kind = "grade" /\ q.pc \in Nat /\ q.pc >= 1
  BY <1>1, TakingIs DEF Taking
<1>3. /\ Len(Steps(q.kind)) = 11
      /\ \A i \in 1 .. 11 : Steps(q.kind)[i] # "ensureSnapshot"
  BY <1>2, GradePlaces
<1> QED
  BY <1>1, <1>3

LEMMA ReportIs ==
  ASSUME NEW p, p \in scored
  PROVE  LoadPullRequestReport(p).an = analyses[p] /\ LoadPullRequestReport(p).event
<1>1. LoadPullRequestReport(p).an = analyses[p]
  BY DEF LoadPullRequestReport
<1>2. LoadPullRequestReport(p).event = (p \in scored)
  BY Zenon DEF LoadPullRequestReport
<1> QED
  BY <1>1, <1>2

LEMMA SyncGrade ==
  ASSUME NEW j, Taking(j), SyncPullRequest(j)
  PROVE  OwnFits(j)
<1>1. /\ Stands(jobs[j], "sync") /\ Moved(jobs, jobs', j, {"row", "pc"})
      /\ jobs'[j].pc = jobs[j].pc + 1 /\ jobs'[j].row = rows[jobs[j].pr] + 1
  BY SyncPullRequestDoes DEF Taking, Flowing
<1>2. jobs[j].pc = 1 /\ jobs'[j].an = jobs[j].an /\ jobs'[j].pr = jobs[j].pr
  BY <1>1, GradePlaces, TakingIs DEF Moved, Fields, Taking
<1>3. rows \in [PRs -> Nat] /\ rows' = [rows EXCEPT ![jobs[j].pr] = @ + 1] /\ analyses' = analyses
  BY DEF SyncPullRequest, Taking, Flowing, DataFits
<1>4. rows'[jobs[j].pr] = rows[jobs[j].pr] + 1 /\ rows[jobs[j].pr] \in Nat
  BY <1>3, TakingIs
<1>5. Known(rows', analyses', jobs'[j].pr, jobs'[j].row, jobs'[j].an)
  BY <1>1, <1>2, <1>3, <1>4, TakingIs DEF Known
<1>6. jobs'[j].pc = 2 /\ jobs'[j].row >= 1
  BY <1>1, <1>2, <1>4
<1> QED
  BY <1>5, <1>6 DEF OwnFits, GradeFits

LEMMA AnalyzeGrade ==
  ASSUME NEW j, Taking(j), SavePullRequestAnalysis(j)
  PROVE  OwnFits(j)
<1>1. /\ Stands(jobs[j], "analyze") /\ Moved(jobs, jobs', j, {"an", "pc"})
      /\ jobs'[j].pc = jobs[j].pc + 1 /\ jobs'[j].an = clock + 1
  BY SavePullRequestAnalysisDoes DEF Taking, Flowing
<1>2. jobs[j].pc = 2 /\ jobs'[j].row = jobs[j].row /\ jobs'[j].pr = jobs[j].pr
  BY <1>1, GradePlaces, TakingIs DEF Moved, Fields, Taking
<1>3. /\ rows \in [PRs -> Nat] /\ analyses \in [PRs -> Nat] /\ rows' = rows
      /\ analyses' = [analyses EXCEPT ![jobs[j].pr] = clock + 1]
  BY DEF SavePullRequestAnalysis, Taking, Flowing, DataFits, Now
<1>4. analyses'[jobs[j].pr] = clock + 1
  BY <1>3, TakingIs
<1>5. jobs[j].row >= 1
  BY <1>2 DEF Taking, GradeFits
<1>6. rows[jobs[j].pr] \in Nat /\ rows[jobs[j].pr] >= jobs[j].row
  BY <1>3, TakingIs DEF Known
<1>7. rows[jobs[j].pr] >= 1
  BY <1>5, <1>6, TakingIs
<1>8. Known(rows', analyses', jobs'[j].pr, jobs'[j].row, jobs'[j].an)
  BY <1>1, <1>2, <1>3, <1>4, <1>6, <1>7, TakingIs DEF Known
<1>9. jobs'[j].pc = 3 /\ jobs'[j].row >= 1
  BY <1>1, <1>2, <1>5
<1> QED
  BY <1>8, <1>9 DEF OwnFits, GradeFits

\* Every run saved or in progress when a replay begins began earlier.
LEMMA StartReplayGrade ==
  ASSUME NEW j, Taking(j), StartReplay(j)
  PROVE  OwnFits(j)
<1>1. /\ Stands(jobs[j], "replayStart")
      /\ \A f \in Fields \ {"pc", "now", "solo"} : jobs'[j][f] = jobs[j][f]
      /\ jobs'[j].pc = jobs[j].pc + 1 /\ jobs'[j].now = clock + 1
      /\ \A k \in Jobs \ {j} : \A f \in Fields \ {"solo"} : jobs'[k][f] = jobs[k][f]
  BY StartReplayDoes DEF Taking, Flowing
<1>2. /\ jobs[j].pc = 3 /\ jobs'[j].row = jobs[j].row /\ jobs'[j].an = jobs[j].an
      /\ jobs'[j].kind = jobs[j].kind
  BY <1>1, GradePlaces, TakingIs DEF Fields, Taking
<1>3. Known(rows', analyses', jobs'[j].pr, jobs'[j].row, jobs'[j].an)
  BY <1>2, TakingKnown
<1>4. replay' = replay
  BY Zenon DEF StartReplay
<1>5. ~(replay'.at >= clock + 1)
  BY <1>4 DEF Taking, Flowing, DataFits
<1>6. ~Loaded(jobs'[j])
  BY <1>1, <1>2, NotLoaded DEF Taking
<1>7. ASSUME NEW k \in Jobs \ {j} PROVE ~(jobs'[k].now >= clock + 1)
  <2>1. jobs'[k].now = jobs[k].now /\ jobs[k].now \in Nat /\ jobs[k].now <= clock
    BY <1>1, <1>7 DEF Fields, Taking, Flowing, JobsFit, JobFits
  <2> QED
    BY <2>1, TakingIs
<1>8. RunsCover(replay', jobs', jobs'[j].pr, jobs'[j].row, jobs'[j].an, clock + 1)
  BY <1>5, <1>6, <1>7 DEF RunsCover
<1>9. jobs'[j].pc = 4 /\ jobs'[j].row >= 1
  BY <1>1, <1>2 DEF Taking, GradeFits
<1> QED
  BY <1>1, <1>3, <1>8, <1>9 DEF OwnFits, GradeFits

LEMMA LoadGrade ==
  ASSUME NEW j, Taking(j), LoadCandidates(j) \/ DeleteBadges(j)
  PROVE  OwnFits(j)
<1>1. /\ \/ Stands(jobs[j], "loadCandidates") /\ Moved(jobs, jobs', j, {"score", "pc"})
         \/ Stands(jobs[j], "deleteBadges") /\ Moved(jobs, jobs', j, {"seen", "pc"})
      /\ jobs'[j].pc = jobs[j].pc + 1
  BY LoadCandidatesDoes, DeleteBadgesDoes DEF Taking, Flowing
<1>2. /\ jobs[j].pc = 4 \/ jobs[j].pc = 5
      /\ jobs'[j].row = jobs[j].row /\ jobs'[j].an = jobs[j].an
      /\ jobs'[j].now = jobs[j].now /\ jobs'[j].pr = jobs[j].pr
  BY <1>1, GradePlaces, TakingIs DEF Moved, Fields, Taking
<1>3. Known(rows', analyses', jobs'[j].pr, jobs'[j].row, jobs'[j].an)
  BY <1>2, TakingKnown
<1>4. jobs[j].row >= 1 /\ RunsCover(replay, jobs, jobs[j].pr, jobs[j].row, jobs[j].an, jobs[j].now)
  BY <1>2 DEF Taking, GradeFits
<1>5. RunsCover(replay', jobs', jobs[j].pr, jobs[j].row, jobs[j].an, jobs[j].now)
  BY <1>4, TakingIs, RunsFlow DEF Taking
<1>6. jobs'[j].pc = 5 \/ jobs'[j].pc = 6
  BY <1>1, <1>2
<1> QED
  BY <1>2, <1>3, <1>4, <1>5, <1>6 DEF OwnFits, GradeFits

LEMMA SaveGrade ==
  ASSUME NEW j, Taking(j), SaveReplay(j)
  PROVE  OwnFits(j)
<1>1. /\ Stands(jobs[j], "saveReplay")
      /\ Moved(jobs, jobs', j, {"seen", "score", "now", "solo", "pc"})
      /\ jobs'[j].pc = jobs[j].pc + 1
      /\ replay' = LatestReplay([at |-> jobs[j].now, score |-> jobs[j].score])
      /\ scored' = scored \cup Events(jobs[j].score)
  BY SaveReplayDoes DEF Taking, Flowing, SaveReplay
<1>2. /\ jobs[j].pc = 6
      /\ jobs'[j].row = jobs[j].row /\ jobs'[j].an = jobs[j].an /\ jobs'[j].pr = jobs[j].pr
  BY <1>1, GradePlaces, TakingIs DEF Moved, Fields, Taking
<1>3. Known(rows', analyses', jobs'[j].pr, jobs'[j].row, jobs'[j].an)
  BY <1>2, TakingKnown
<1>4. jobs[j].row >= 1 /\ RunsCover(replay, jobs, jobs[j].pr, jobs[j].row, jobs[j].an, jobs[j].now)
  BY <1>2 DEF Taking, GradeFits
<1>5. jobs[j].now <= replay'.at /\ replay'.at \in Nat
  BY <1>1, TakingIs, ReplayLater DEF LatestReplay, Taking
<1>6. RunsCover(replay', jobs', jobs[j].pr, jobs[j].row, jobs[j].an, replay'.at)
  BY <1>4, <1>5, TakingIs, RunsFlow DEF Taking
<1>7. Covers(jobs[j].score, jobs[j].pr, jobs[j].row, jobs[j].an)
  <2>1. Loaded(jobs[j]) /\ jobs[j].now >= jobs[j].now /\ j \in Jobs
    BY <1>1, TakingIs DEF Loaded, Taking
  <2> QED
    BY <1>4, <2>1 DEF RunsCover
<1>8. jobs[j].score[jobs[j].pr].row \in Nat
  BY TakingIs DEF Taking, JobFits, ScoreFits
<1>9. jobs[j].pr \in scored'
  BY <1>1, <1>4, <1>7, <1>8, TakingIs DEF Covers, Events
<1>10. jobs'[j].pc = 7
  BY <1>1, <1>2
<1> QED
  BY <1>2, <1>3, <1>4, <1>6, <1>9, <1>10 DEF OwnFits, GradeFits

\* After its replay a job that keeps row and analysis keeps what it knows.
LEMMA ReplayedGrade ==
  ASSUME NEW j, Taking(j), jobs[j].pc >= 7,
         jobs'[j].row = jobs[j].row, jobs'[j].an = jobs[j].an
  PROVE  /\ Known(rows', analyses', jobs'[j].pr, jobs'[j].row, jobs'[j].an)
         /\ jobs'[j].row >= 1 /\ jobs'[j].pr \in scored'
         /\ RunsCover(replay, jobs, jobs[j].pr, jobs[j].row, jobs[j].an, replay.at)
         /\ RunsCover(replay', jobs', jobs'[j].pr, jobs'[j].row, jobs'[j].an, replay'.at)
<1>1. Known(rows', analyses', jobs'[j].pr, jobs'[j].row, jobs'[j].an)
  BY TakingKnown
<1>2. /\ jobs[j].row >= 1 /\ jobs[j].pr \in scored
      /\ RunsCover(replay, jobs, jobs[j].pr, jobs[j].row, jobs[j].an, replay.at)
  BY TakingIs DEF Taking, GradeFits
<1>3. RunsCover(replay', jobs', jobs[j].pr, jobs[j].row, jobs[j].an, replay'.at)
  BY <1>2, TakingIs, ReplayLater, RunsFlow DEF Taking
<1> QED
  BY <1>1, <1>2, <1>3 DEF Taking, Flowing

\* Every snapshot stored or in progress when a refresh begins began earlier.
LEMMA StartRefreshGrade ==
  ASSUME NEW j, Taking(j), StartRefresh(j)
  PROVE  OwnFits(j)
<1>1. /\ Stands(jobs[j], "refreshStart") /\ Moved(jobs, jobs', j, {"now", "week", "pc"})
      /\ jobs'[j].pc = jobs[j].pc + 1 /\ jobs'[j].now = clock + 1 /\ snapshot' = snapshot
  BY StartRefreshDoes DEF Taking, Flowing, StartRefresh
<1>2. /\ jobs[j].pc = 7 /\ jobs'[j].row = jobs[j].row /\ jobs'[j].an = jobs[j].an
      /\ jobs'[j].snap = jobs[j].snap /\ jobs'[j].old = jobs[j].old
  BY <1>1, GradePlaces, TakingIs DEF Moved, Fields, Taking
<1>3. /\ Known(rows', analyses', jobs'[j].pr, jobs'[j].row, jobs'[j].an)
      /\ jobs'[j].row >= 1 /\ jobs'[j].pr \in scored'
      /\ RunsCover(replay', jobs', jobs'[j].pr, jobs'[j].row, jobs'[j].an, replay'.at)
  BY <1>2, ReplayedGrade
<1>4. snapshot.at \in Nat /\ snapshot.at <= clock
  BY DEF Taking, Flowing, DataFits, SnapFits
<1>5. ASSUME NEW k \in Jobs
      PROVE  /\ jobs'[k].snap.at \in Nat /\ jobs'[k].snap.at <= clock
             /\ jobs'[k].old.at \in Nat /\ jobs'[k].old.at <= clock
  <2>1. jobs'[k].snap = jobs[k].snap /\ jobs'[k].old = jobs[k].old
    BY <1>1, <1>2 DEF Moved
  <2> QED
    BY <2>1 DEF Taking, Flowing, JobsFit, JobFits, SnapFits
<1>6. SnapsCover(snapshot', jobs', jobs'[j].pr, jobs'[j].row, jobs'[j].an, clock + 1)
  BY <1>1, <1>4, <1>5, TakingIs DEF SnapsCover, SnapCovers
<1>7. jobs'[j].pc = 8 /\ clock + 1 > 0
  BY <1>1, <1>2, TakingIs
<1> QED
  BY <1>1, <1>3, <1>6, <1>7 DEF OwnFits, GradeFits

\* The latest run has the graded pull request's row.
LEMMA RefreshGrade ==
  ASSUME NEW j, Taking(j), RefreshProfileByUserID(j)
  PROVE  OwnFits(j)
<1>1. /\ Stands(jobs[j], "refreshLoad") /\ Moved(jobs, jobs', j, {"pc", "snap"})
      /\ jobs'[j].snap = loadSnapshotInputs(jobs[j].now)
      /\ jobs'[j].pc = IF HasRows(jobs'[j].snap) THEN jobs[j].pc + 1 ELSE jobs[j].pc + 3
  BY RefreshProfileDoes DEF Taking, Flowing
<1>2. jobs[j].pc = 8 /\ jobs'[j].row = jobs[j].row /\ jobs'[j].an = jobs[j].an
  BY <1>1, GradePlaces, TakingIs DEF Moved, Fields, Taking
<1>3. /\ Known(rows', analyses', jobs'[j].pr, jobs'[j].row, jobs'[j].an)
      /\ jobs'[j].row >= 1 /\ jobs'[j].pr \in scored'
      /\ RunsCover(replay, jobs, jobs[j].pr, jobs[j].row, jobs[j].an, replay.at)
      /\ RunsCover(replay', jobs', jobs'[j].pr, jobs'[j].row, jobs'[j].an, replay'.at)
  BY <1>2, ReplayedGrade
<1>4. jobs[j].now > 0 /\ SnapsCover(snapshot, jobs, jobs[j].pr, jobs[j].row, jobs[j].an, jobs[j].now)
  BY <1>2 DEF Taking, GradeFits
<1>5. SnapsCover(snapshot', jobs', jobs[j].pr, jobs[j].row, jobs[j].an, jobs[j].now)
  BY <1>3, <1>4, TakingIs, SnapsFlow DEF Taking
<1>6. jobs'[j].snap.at = jobs[j].now /\ jobs'[j].snap.score = replay.score
  BY <1>1 DEF loadSnapshotInputs, buildSnapshot, LoadScoreRows, LoadLatestScoreSelection
<1>7. replay.score[jobs[j].pr].row >= jobs[j].row
  <2>1. replay.at >= replay.at
    BY ReplayLater DEF Taking
  <2> QED
    BY <1>3, <2>1 DEF RunsCover, Covers
<1>8. replay.score[jobs[j].pr].row \in Nat
  BY TakingIs DEF Taking, Flowing, DataFits, ScoreFits
<1>9. jobs[j].row = jobs'[j].row
  BY <1>2
<1>10. jobs[j].pr \in Events(jobs'[j].snap.score)
  BY <1>3, <1>6, <1>7, <1>8, <1>9, TakingIs DEF Events
<1>11. jobs'[j].pc = 9
  BY <1>1, <1>2, <1>10 DEF HasRows
<1> QED
  BY <1>2, <1>3, <1>4, <1>5, <1>6, <1>11 DEF OwnFits, GradeFits, Taking

\* The stored snapshot is the job's, or a later one that covers as much.
LEMMA InsertGrade ==
  ASSUME NEW j, Taking(j), InsertSnapshot(j)
  PROVE  OwnFits(j)
<1>1. /\ Stands(jobs[j], "insertSnapshot") /\ Moved(jobs, jobs', j, {"pc"})
      /\ jobs'[j].pc = jobs[j].pc + 1 /\ snapshot' = LatestSnapshot(jobs[j].snap)
  BY InsertSnapshotDoes DEF Taking, Flowing, InsertSnapshot
<1>2. jobs[j].pc = 9 /\ jobs'[j].row = jobs[j].row /\ jobs'[j].an = jobs[j].an
  BY <1>1, GradePlaces, TakingIs DEF Moved, Fields, Taking
<1>3. /\ Known(rows', analyses', jobs'[j].pr, jobs'[j].row, jobs'[j].an)
      /\ jobs'[j].row >= 1 /\ jobs'[j].pr \in scored'
      /\ RunsCover(replay, jobs, jobs[j].pr, jobs[j].row, jobs[j].an, replay.at)
      /\ RunsCover(replay', jobs', jobs'[j].pr, jobs'[j].row, jobs'[j].an, replay'.at)
  BY <1>2, ReplayedGrade
<1>4. /\ jobs[j].snap.at > 0
      /\ SnapsCover(snapshot, jobs, jobs[j].pr, jobs[j].row, jobs[j].an, jobs[j].snap.at)
  BY <1>2 DEF Taking, GradeFits
<1>5. snapshot'.at \in Nat /\ jobs[j].snap.at <= snapshot'.at
  BY <1>1, TakingIs, ReplayLater DEF LatestSnapshot, Taking
<1>6. SnapsCover(snapshot', jobs', jobs[j].pr, jobs[j].row, jobs[j].an, snapshot'.at)
  BY <1>3, <1>4, <1>5, TakingIs, SnapsFlow DEF Taking
<1>7. snapshot'.at >= snapshot'.at /\ snapshot'.at > 0
  BY <1>4, <1>5, TakingIs
<1>8. Covers(snapshot'.score, jobs[j].pr, jobs[j].row, jobs[j].an)
  BY <1>6, <1>7 DEF SnapsCover, SnapCovers
<1>9. Shown(rows', analyses', replay', snapshot', jobs', jobs'[j].pr, jobs'[j].row, jobs'[j].an)
  BY <1>2, <1>3, <1>6, <1>8 DEF Shown, Taking
<1>10. jobs'[j].pc = 10
  BY <1>1, <1>2
<1> QED
  BY <1>3, <1>9, <1>10 DEF OwnFits, GradeFits

\* What is shown when the snapshot is stored is shown to the end.
LEMMA ShownGrade ==
  ASSUME NEW j, Taking(j), jobs[j].pc >= 10, jobs'[j].pc = jobs[j].pc + 1,
         jobs'[j].row = jobs[j].row, jobs'[j].an = jobs[j].an,
         jobs'[j].pc >= 12 => ~reportEvidenceState(jobs'[j].report) /\ jobs'[j].report.an >= jobs'[j].an
  PROVE  OwnFits(j)
<1>1. jobs[j].pc >= 7 /\ jobs'[j].pc >= 11
  BY TakingIs
<1>2. /\ Known(rows', analyses', jobs'[j].pr, jobs'[j].row, jobs'[j].an)
      /\ jobs'[j].row >= 1 /\ jobs'[j].pr \in scored'
      /\ RunsCover(replay', jobs', jobs'[j].pr, jobs'[j].row, jobs'[j].an, replay'.at)
  BY <1>1, ReplayedGrade
<1>3. Shown(rows, analyses, replay, snapshot, jobs, jobs[j].pr, jobs[j].row, jobs[j].an)
  BY DEF Taking, GradeFits
<1>4. Shown(rows', analyses', replay', snapshot', jobs', jobs[j].pr, jobs[j].row, jobs[j].an)
  BY <1>3, TakingIs, ShownStays DEF Taking, Flowing
<1>5. jobs'[j].pc \in Nat
  BY TakingIs
<1> QED
  BY <1>1, <1>2, <1>4, <1>5 DEF OwnFits, GradeFits, Taking

LEMMA BoardGrade ==
  ASSUME NEW j, Taking(j), NewBoard(j)
  PROVE  OwnFits(j)
<1>1. /\ Stands(jobs[j], "newBoard") \/ Stands(jobs[j], "questBoard")
      /\ Moved(jobs, jobs', j, {"snap", "old", "now", "pc"})
      /\ jobs'[j].pc = jobs[j].pc + 1
  BY NewBoardDoes DEF Taking, Flowing
<1>2. jobs[j].pc = 10 /\ jobs'[j].row = jobs[j].row /\ jobs'[j].an = jobs[j].an
  BY <1>1, GradePlaces, TakingIs DEF Moved, Fields, Taking
<1> QED
  BY <1>1, <1>2, ShownGrade

\* The report finds the score event of the run and the job's analysis.
LEMMA ReportGrade ==
  ASSUME NEW j, Taking(j), MaterializeReports(j)
  PROVE  OwnFits(j)
<1>1. /\ Stands(jobs[j], "report") /\ Moved(jobs, jobs', j, {"report", "pc"})
      /\ jobs'[j].pc = jobs[j].pc + 1
      /\ jobs'[j].report = IF jobs[j].kind = "grade" THEN LoadPullRequestReport(jobs[j].pr)
                           ELSE NoReport
  BY MaterializeReportsDoes DEF Taking, Flowing
<1>2. /\ jobs[j].pc = 11 /\ jobs'[j].row = jobs[j].row /\ jobs'[j].an = jobs[j].an
      /\ jobs[j].kind = "grade"
  BY <1>1, GradePlaces, TakingIs DEF Moved, Fields, Taking
<1>3. jobs[j].pr \in scored
  BY <1>2 DEF Taking, GradeFits
<1>4. jobs'[j].report = LoadPullRequestReport(jobs[j].pr)
  BY <1>1, <1>2
<1>5. jobs'[j].report.an = analyses[jobs[j].pr] /\ jobs'[j].report.event
  BY <1>3, <1>4, ReportIs
<1>6. analyses[jobs[j].pr] \in Nat
  BY TakingIs DEF Taking, Flowing, DataFits
<1>7. ~reportEvidenceState(jobs'[j].report)
  BY <1>5, <1>6 DEF reportEvidenceState, inferReportAnalysisSource
<1>8. jobs'[j].report.an >= jobs'[j].an
  BY <1>2, <1>5, TakingIs DEF Known
<1> QED
  BY <1>1, <1>2, <1>7, <1>8, ShownGrade

LEMMA CompleteGrade ==
  ASSUME NEW j, Taking(j), Complete(j)
  PROVE  /\ OwnFits(j)
         /\ Shown(rows, analyses, replay, snapshot, jobs, jobs[j].pr, jobs[j].row, jobs[j].an)
<1>1. /\ jobs[j].pc = Len(Steps(jobs[j].kind)) + 1
      /\ Moved(jobs, jobs', j, {"pc"}) /\ jobs'[j].pc = jobs[j].pc + 1
  BY CompleteDoes DEF Taking, Flowing
<1>2. jobs[j].pc = 12
  <2>1. Len(Steps(jobs[j].kind)) = 11
    BY TakingSteps
  <2> QED
    BY <1>1, <2>1
<1>3. /\ jobs'[j].row = jobs[j].row /\ jobs'[j].an = jobs[j].an
      /\ jobs'[j].report = jobs[j].report
  BY <1>1 DEF Moved, Fields
<1>4. /\ ~reportEvidenceState(jobs[j].report) /\ jobs[j].report.an >= jobs[j].an
      /\ Shown(rows, analyses, replay, snapshot, jobs, jobs[j].pr, jobs[j].row, jobs[j].an)
  BY <1>2 DEF Taking, GradeFits
<1> QED
  BY <1>1, <1>2, <1>3, <1>4, ShownGrade

LEMMA FailGrade ==
  ASSUME NEW j, Taking(j), Fail(j)
  PROVE  OwnFits(j)
<1>1. /\ Moved(jobs, jobs', j, Fields \ {"kind", "pr", "row", "an"}) /\ jobs'[j].pc = 1
  BY FailDoes DEF Taking, Flowing
<1>2. jobs'[j].row = jobs[j].row /\ jobs'[j].an = jobs[j].an
  BY <1>1 DEF Moved, Fields
<1>3. Known(rows', analyses', jobs'[j].pr, jobs'[j].row, jobs'[j].an)
  BY <1>2, TakingKnown
<1> QED
  BY <1>1, <1>3 DEF OwnFits, GradeFits

\* A grade job never serves an old snapshot.
LEMMA NoRebuild ==
  ASSUME NEW j, Taking(j)
  PROVE  ~RebuildFails(j) /\ ~EnsureSnapshot(j) /\ ~RebuildLoad(j)
<1>1. ASSUME RebuildFails(j) PROVE FALSE
  <2>1. PICK i \in Nat : /\ i >= 1 /\ i <= Len(Steps(jobs[j].kind))
                         /\ Steps(jobs[j].kind)[i] = "ensureSnapshot"
    BY <1>1, RebuildFailsDoes DEF Taking, Flowing
  <2>2. /\ Len(Steps(jobs[j].kind)) = 11
        /\ \A n \in 1 .. 11 : Steps(jobs[j].kind)[n] # "ensureSnapshot"
    BY TakingSteps
  <2> QED
    BY <2>1, <2>2
<1>2. ASSUME EnsureSnapshot(j) PROVE FALSE
  <2>1. Stands(jobs[j], "ensureSnapshot")
    BY <1>2, EnsureSnapshotDoes DEF Taking, Flowing
  <2>2. /\ Len(Steps(jobs[j].kind)) = 11
        /\ \A n \in 1 .. 11 : Steps(jobs[j].kind)[n] # "ensureSnapshot"
    BY TakingSteps
  <2> QED
    BY <2>1, <2>2, TakingIs DEF Stands
<1>3. ASSUME RebuildLoad(j) PROVE FALSE
  <2>1. Stands(jobs[j], "rebuildLoad")
    BY <1>3, RebuildLoadDoes DEF Taking, Flowing
  <2> QED
    BY <2>1, GradePlaces, TakingIs DEF Taking
<1> QED
  BY <1>1, <1>2, <1>3

\* A step belongs to one job, whose kind and pull request stay; all it does
\* to others is to mark replays that overlap.
OnlyMoves(j) ==
  /\ jobs'[j].kind = jobs[j].kind /\ jobs'[j].pr = jobs[j].pr
  /\ \A k \in Jobs \ {j} : \A f \in Fields \ {"solo"} : jobs'[k][f] = jobs[k][f]

LEMMA MovedKeeps ==
  ASSUME NEW j \in Jobs, NEW F, Moved(jobs, jobs', j, F), "kind" \notin F, "pr" \notin F
  PROVE  OnlyMoves(j)
BY DEF Moved, Fields, OnlyMoves

LEMMA OneJobMoves ==
  ASSUME Typed, NEW j \in Jobs, Step(j) \/ Fail(j) \/ RebuildFails(j)
  PROVE  OnlyMoves(j)
<1>1. CASE StartReplay(j)
  <2>1. /\ \A f \in Fields \ {"pc", "now", "solo"} : jobs'[j][f] = jobs[j][f]
        /\ \A k \in Jobs \ {j} : \A f \in Fields \ {"solo"} : jobs'[k][f] = jobs[k][f]
    BY <1>1, StartReplayDoes
  <2> QED
    BY <2>1 DEF OnlyMoves, Fields
<1>2. CASE SyncPullRequest(j)
  <2> DEFINE F == {"row", "pc"}
  <2>1. Moved(jobs, jobs', j, F)
    BY <1>2, SyncPullRequestDoes
  <2>2. "kind" \notin F /\ "pr" \notin F
    OBVIOUS
  <2> HIDE DEF F
  <2> QED
    BY <2>1, <2>2, MovedKeeps
<1>3. CASE SavePullRequestAnalysis(j)
  <2> DEFINE F == {"an", "pc"}
  <2>1. Moved(jobs, jobs', j, F)
    BY <1>3, SavePullRequestAnalysisDoes
  <2>2. "kind" \notin F /\ "pr" \notin F
    OBVIOUS
  <2> HIDE DEF F
  <2> QED
    BY <2>1, <2>2, MovedKeeps
<1>4. CASE LoadCandidates(j)
  <2> DEFINE F == {"score", "pc"}
  <2>1. Moved(jobs, jobs', j, F)
    BY <1>4, LoadCandidatesDoes
  <2>2. "kind" \notin F /\ "pr" \notin F
    OBVIOUS
  <2> HIDE DEF F
  <2> QED
    BY <2>1, <2>2, MovedKeeps
<1>5. CASE DeleteBadges(j)
  <2> DEFINE F == {"seen", "pc"}
  <2>1. Moved(jobs, jobs', j, F)
    BY <1>5, DeleteBadgesDoes
  <2>2. "kind" \notin F /\ "pr" \notin F
    OBVIOUS
  <2> HIDE DEF F
  <2> QED
    BY <2>1, <2>2, MovedKeeps
<1>6. CASE SaveReplay(j)
  <2> DEFINE F == {"seen", "score", "now", "solo", "pc"}
  <2>1. Moved(jobs, jobs', j, F)
    BY <1>6, SaveReplayDoes
  <2>2. "kind" \notin F /\ "pr" \notin F
    OBVIOUS
  <2> HIDE DEF F
  <2> QED
    BY <2>1, <2>2, MovedKeeps
<1>7. CASE StartRefresh(j)
  <2> DEFINE F == {"now", "week", "pc"}
  <2>1. Moved(jobs, jobs', j, F)
    BY <1>7, StartRefreshDoes
  <2>2. "kind" \notin F /\ "pr" \notin F
    OBVIOUS
  <2> HIDE DEF F
  <2> QED
    BY <2>1, <2>2, MovedKeeps
<1>8. CASE RefreshProfileByUserID(j)
  <2> DEFINE F == {"pc", "snap"}
  <2>1. Moved(jobs, jobs', j, F)
    BY <1>8, RefreshProfileDoes
  <2>2. "kind" \notin F /\ "pr" \notin F
    OBVIOUS
  <2> HIDE DEF F
  <2> QED
    BY <2>1, <2>2, MovedKeeps
<1>9. CASE InsertSnapshot(j)
  <2> DEFINE F == {"pc"}
  <2>1. Moved(jobs, jobs', j, F)
    BY <1>9, InsertSnapshotDoes
  <2>2. "kind" \notin F /\ "pr" \notin F
    OBVIOUS
  <2> HIDE DEF F
  <2> QED
    BY <2>1, <2>2, MovedKeeps
<1>10. CASE EnsureSnapshot(j)
  <2> DEFINE F == {"now", "week", "pc", "snap", "old"}
  <2>1. Moved(jobs, jobs', j, F)
    BY <1>10, EnsureSnapshotDoes
  <2>2. "kind" \notin F /\ "pr" \notin F
    OBVIOUS
  <2> HIDE DEF F
  <2> QED
    BY <2>1, <2>2, MovedKeeps
<1>11. CASE RebuildLoad(j)
  <2> DEFINE F == {"snap", "pc"}
  <2>1. Moved(jobs, jobs', j, F)
    BY <1>11, RebuildLoadDoes
  <2>2. "kind" \notin F /\ "pr" \notin F
    OBVIOUS
  <2> HIDE DEF F
  <2> QED
    BY <2>1, <2>2, MovedKeeps
<1>12. CASE NewBoard(j)
  <2> DEFINE F == {"snap", "old", "now", "pc"}
  <2>1. Moved(jobs, jobs', j, F)
    BY <1>12, NewBoardDoes
  <2>2. "kind" \notin F /\ "pr" \notin F
    OBVIOUS
  <2> HIDE DEF F
  <2> QED
    BY <2>1, <2>2, MovedKeeps
<1>13. CASE MaterializeReports(j)
  <2> DEFINE F == {"report", "pc"}
  <2>1. Moved(jobs, jobs', j, F)
    BY <1>13, MaterializeReportsDoes
  <2>2. "kind" \notin F /\ "pr" \notin F
    OBVIOUS
  <2> HIDE DEF F
  <2> QED
    BY <2>1, <2>2, MovedKeeps
<1>14. CASE Complete(j)
  <2> DEFINE F == {"pc"}
  <2>1. Moved(jobs, jobs', j, F)
    BY <1>14, CompleteDoes
  <2>2. "kind" \notin F /\ "pr" \notin F
    OBVIOUS
  <2> HIDE DEF F
  <2> QED
    BY <2>1, <2>2, MovedKeeps
<1>15. CASE Fail(j)
  <2> DEFINE F == Fields \ {"kind", "pr", "row", "an"}
  <2>1. Moved(jobs, jobs', j, F)
    BY <1>15, FailDoes
  <2>2. "kind" \notin F /\ "pr" \notin F
    OBVIOUS
  <2> HIDE DEF F
  <2> QED
    BY <2>1, <2>2, MovedKeeps
<1>16. CASE RebuildFails(j)
  <2> DEFINE F == {"pc", "snap"}
  <2>1. Moved(jobs, jobs', j, F)
    BY <1>16, RebuildFailsDoes
  <2>2. "kind" \notin F /\ "pr" \notin F
    OBVIOUS
  <2> HIDE DEF F
  <2> QED
    BY <2>1, <2>2, MovedKeeps
<1> QED
  BY <1>1, <1>2, <1>3, <1>4, <1>5, <1>6, <1>7, <1>8,
     <1>9, <1>10, <1>11, <1>12, <1>13, <1>14, <1>15, <1>16, Zenon DEF Step

LEMMA GradedStays ==
  ASSUME NEW j \in Jobs, (Step(j) /\ ~Complete(j)) \/ Fail(j) \/ RebuildFails(j)
  PROVE  graded' = graded
BY Zenon DEF Step, SyncPullRequest, SavePullRequestAnalysis, StartReplay, NewBoard,
   LoadCandidates, DeleteBadges, SaveReplay, StartRefresh, RefreshProfileByUserID,
   InsertSnapshot, EnsureSnapshot, RebuildLoad, MaterializeReports, Fail, RebuildFails

LEMMA InitGrade ==
  ASSUME Init, Typed
  PROVE  GradeInv
<1>1. PICK plan \in Plans :
        /\ rows = [p \in PRs |-> plan.row]
        /\ jobs = [j \in Jobs |-> Fresh(plan.jobs[j].kind, plan.jobs[j].pr)]
  BY DEF Init
<1>2. /\ DataFits(clock, rows, analyses, replay, snapshot, graded, rewards, badges)
      /\ JobsFit(jobs, clock)
  BY TypedIs
<1>3. graded = NoScore /\ \A p \in PRs : graded[p].row = 0 /\ graded[p].an = 0
  BY DEF Init, NoScore
<1>4. ASSUME NEW p \in PRs PROVE Shown(rows, analyses, replay, snapshot, jobs, p, 0, 0)
  <2>1. Known(rows, analyses, p, 0, 0)
    BY <1>2 DEF Known, DataFits
  <2>2. ASSUME NEW s, ScoreFits(s) PROVE Covers(s, p, 0, 0)
    BY <2>2 DEF ScoreFits, Covers
  <2>3. /\ Covers(replay.score, p, 0, 0) /\ Covers(snapshot.score, p, 0, 0)
        /\ \A k \in Jobs : /\ Covers(jobs[k].score, p, 0, 0)
                           /\ Covers(jobs[k].snap.score, p, 0, 0)
                           /\ Covers(jobs[k].old.score, p, 0, 0)
    BY <1>2, <2>2 DEF DataFits, JobsFit, JobFits, SnapFits
  <2> QED
    BY <2>1, <2>3 DEF Shown, RunsCover, SnapsCover, SnapCovers
<1>5. ASSUME NEW j \in Jobs
      PROVE  GradeFits(jobs[j], rows, analyses, replay, snapshot, jobs, scored)
  <2>1. jobs[j].pc = 1 /\ jobs[j].row = 0 /\ jobs[j].an = 0
    BY <1>1 DEF Fresh
  <2>2. jobs[j].pr \in PRs
    BY <1>2 DEF JobsFit, JobFits
  <2>3. Known(rows, analyses, jobs[j].pr, jobs[j].row, jobs[j].an)
    BY <1>4, <2>1, <2>2 DEF Shown
  <2> QED
    BY <2>1, <2>3 DEF GradeFits
<1>6. \A p \in PRs : Shown(rows, analyses, replay, snapshot, jobs, p, graded[p].row, graded[p].an)
  BY <1>3, <1>4
<1> QED
  BY <1>5, <1>6 DEF GradeInv

\* Two pairs of a row and an analysis that are shown are shown crosswise.
LEMMA ShownCrosswise ==
  ASSUME NEW rs, NEW as, NEW rep, NEW sn, NEW js, NEW p, NEW r, NEW a, NEW s, NEW b,
         Shown(rs, as, rep, sn, js, p, r, a), Shown(rs, as, rep, sn, js, p, s, b)
  PROVE  Shown(rs, as, rep, sn, js, p, r, b)
BY DEF Shown, Known, Covers, RunsCover, SnapsCover, SnapCovers

LEMMA NextGrade ==
  ASSUME Typed, GradeInv, [Next]_vars
  PROVE  GradeInv'
<1>1. Flowing
  BY NextIsFlowing
<1>2. /\ \A j \in Jobs : jobs[j].kind = "grade" =>
             GradeFits(jobs[j], rows, analyses, replay, snapshot, jobs, scored)
      /\ \A p \in PRs : Shown(rows, analyses, replay, snapshot, jobs, p,
                              graded[p].row, graded[p].an)
  BY GradeIs DEF GradesFit
<1>3. \A j \in Jobs : JobFits(jobs[j], clock) /\ JobFits(jobs'[j], clock')
  BY <1>1 DEF Flowing, JobsFit
<1>4. /\ graded \in [PRs -> [row : Nat, an : Nat]]
      /\ \A p \in PRs : graded[p].row \in Nat /\ graded[p].an \in Nat
  BY <1>1 DEF Flowing, DataFits
<1>5. \A p \in PRs : Shown(rows', analyses', replay', snapshot', jobs', p,
                           graded[p].row, graded[p].an)
  BY <1>1, <1>2, <1>4, ShownStays DEF Flowing
<1>6. ASSUME NEW k \in Jobs, \A f \in Fields \ {"solo"} : jobs'[k][f] = jobs[k][f],
             jobs'[k].kind = "grade"
      PROVE  GradeFits(jobs'[k], rows', analyses', replay', snapshot', jobs', scored')
  <2>1. jobs[k].kind = "grade"
    BY <1>6 DEF Fields
  <2> QED
    BY <1>1, <1>2, <1>3, <1>6, <2>1, GradeRides
<1>7. ASSUME NEW j \in Jobs, Step(j) \/ Fail(j) \/ RebuildFails(j) PROVE GradeInv'
  <2>1. /\ jobs'[j].kind = jobs[j].kind /\ jobs'[j].pr = jobs[j].pr
        /\ \A k \in Jobs \ {j} : \A f \in Fields \ {"solo"} : jobs'[k][f] = jobs[k][f]
    BY <1>7, OneJobMoves DEF OnlyMoves
  <2>2. ASSUME jobs[j].kind = "grade" PROVE Taking(j)
    BY <1>1, <1>2, <1>3, <2>1, <2>2 DEF Taking
  <2>3. ASSUME jobs[j].kind = "grade" PROVE OwnFits(j)
    <3>1. Taking(j)
      BY <2>2, <2>3
    <3>2. CASE Step(j)
      BY <3>1, <3>2, SyncGrade, AnalyzeGrade, StartReplayGrade, LoadGrade, SaveGrade,
         StartRefreshGrade, RefreshGrade, InsertGrade, BoardGrade, ReportGrade,
         CompleteGrade, NoRebuild, Zenon DEF Step
    <3> QED
      BY <1>7, <3>1, <3>2, FailGrade, NoRebuild, Zenon
  <2>4. \A k \in Jobs : jobs'[k].kind = "grade" =>
           GradeFits(jobs'[k], rows', analyses', replay', snapshot', jobs', scored')
    BY <1>6, <2>1, <2>3 DEF OwnFits
  <2>5. \A p \in PRs : Shown(rows', analyses', replay', snapshot', jobs', p,
                             graded'[p].row, graded'[p].an)
    <3>1. CASE ~Complete(j) \/ jobs[j].kind # "grade"
      <4>1. graded' = graded
        BY <1>7, <3>1, GradedStays, CompleteDoes, Zenon
      <4> QED
        BY <1>5, <4>1
    <3>2. CASE Complete(j) /\ jobs[j].kind = "grade"
      <4>1. Shown(rows, analyses, replay, snapshot, jobs, jobs[j].pr, jobs[j].row, jobs[j].an)
        BY <2>2, <3>2, CompleteGrade
      <4>2. Shown(rows', analyses', replay', snapshot', jobs', jobs[j].pr, jobs[j].row, jobs[j].an)
        BY <1>1, <1>3, <4>1, ShownStays DEF Flowing, JobFits
      <4>3. ASSUME NEW p \in PRs
            PROVE  Shown(rows', analyses', replay', snapshot', jobs', p,
                         graded'[p].row, graded'[p].an)
        <5>1. /\ graded'[p].row = graded[p].row
                 \/ (p = jobs[j].pr /\ graded'[p].row = jobs[j].row)
              /\ graded'[p].an = graded[p].an
                 \/ (p = jobs[j].pr /\ graded'[p].an = jobs[j].an)
          BY <3>2, CompleteDoes
        <5>2. Shown(rows', analyses', replay', snapshot', jobs', p, graded[p].row, graded[p].an)
          BY <1>5
        <5> QED
          BY <4>2, <5>1, <5>2, ShownCrosswise
      <4> QED
        BY <4>3
    <3> QED
      BY <3>1, <3>2
  <2> QED
    BY <2>4, <2>5, GradeNext
<1>8. ASSUME Age \/ UNCHANGED vars PROVE GradeInv'
  <2>1. jobs' = jobs /\ graded' = graded
    BY <1>8 DEF Age, vars
  <2>2. \A k \in Jobs : jobs'[k].kind = "grade" =>
           GradeFits(jobs'[k], rows', analyses', replay', snapshot', jobs', scored')
    BY <1>6, <2>1
  <2> QED
    BY <1>5, <2>1, <2>2, GradeNext
<1> QED
  BY <1>7, <1>8, Zenon DEF Next

----------------------------------------------------------------------------
(* Replays that overlap no other.                                          *)

\* A job between the stamp and the commit of a replay.
InRun(q) ==
  Stands(q, "loadCandidates") \/ Stands(q, "deleteBadges") \/ Stands(q, "saveReplay")

KeysOf(bs) == {b.key : b \in DeletedBadges(bs)}

\* A replay alone is the only one under way, is the latest to have begun, and
\* its transaction has seen every badge a replay has issued.
AloneFits(q, bs, rep) ==
  /\ rep.at < q.now
  /\ Stands(q, "saveReplay") => q.seen = DeletedBadges(bs)

LoneFits(js, bs, rep, ln) ==
  /\ \A j \in Jobs : InRun(js[j]) /\ js[j].solo =>
        /\ \A k \in Jobs \ {j} : ~InRun(js[k])
        /\ AloneFits(js[j], bs, rep)
  /\ ln => KeysOf(bs) = issueBadges(rep.score)

LoneInv ==
  \A js, bs, rep, ln :
     js = jobs /\ bs = badges /\ rep = replay /\ ln = lone => LoneFits(js, bs, rep, ln)

LEMMA LoneIs ==
  ASSUME LoneInv
  PROVE  LoneFits(jobs, badges, replay, lone)
BY DEF LoneInv

LEMMA LoneNext ==
  ASSUME LoneFits(jobs', badges', replay', lone')
  PROVE  LoneInv'
BY DEF LoneInv

LEMMA InReplayIs ==
  ASSUME NEW j \in Jobs, JobsFit(jobs, clock)
  PROVE  InReplay(j) <=> InRun(jobs[j])
<1>1. jobs[j].kind \in JobKinds /\ jobs[j].pc \in Nat
  BY DEF JobsFit, JobFits
<1>2. Len(Steps(jobs[j].kind)) \in Nat
  BY <1>1, EveryOrder DEF Orderly
<1>3. Done(j) <=> ~(jobs[j].pc <= Len(Steps(jobs[j].kind)))
  BY <1>1, <1>2 DEF Done
<1> QED
  BY <1>3 DEF InReplay, InRun, Stands

\* A job whose fields but solo stay keeps its place.
LEMMA SamePlace ==
  ASSUME NEW p, NEW q, p.kind = q.kind, p.pc = q.pc
  PROVE  /\ InRun(p) <=> InRun(q)
         /\ Stands(p, "saveReplay") <=> Stands(q, "saveReplay")
BY DEF InRun, Stands

LEMMA AsideNotInRun ==
  ASSUME NEW p, Aside(p)
  PROVE  ~InRun(p)
BY DEF Aside, InRun

\* A step outside replays that ends outside them.
LEMMA LoneStays ==
  ASSUME NEW j \in Jobs, NEW F, Moved(jobs, jobs', j, F), LoneInv, ~InRun(jobs'[j]),
         replay' = replay, lone' = lone, DeletedBadges(badges') = DeletedBadges(badges)
  PROVE  LoneInv'
<1>1. \A k \in Jobs \ {j} : jobs'[k] = jobs[k]
  BY DEF Moved
<1>2. LoneFits(jobs, badges, replay, lone)
  BY LoneIs
<1>3. ASSUME NEW k \in Jobs, InRun(jobs'[k]), jobs'[k].solo
      PROVE  /\ \A i \in Jobs \ {k} : ~InRun(jobs'[i])
             /\ AloneFits(jobs'[k], badges', replay')
  <2>1. k # j /\ jobs'[k] = jobs[k]
    BY <1>1, <1>3
  <2>2. /\ \A i \in Jobs \ {k} : ~InRun(jobs[i])
        /\ AloneFits(jobs[k], badges, replay)
    BY <1>2, <1>3, <2>1 DEF LoneFits
  <2> QED
    BY <1>1, <2>1, <2>2 DEF AloneFits
<1>4. lone' => KeysOf(badges') = issueBadges(replay'.score)
  <2>1. KeysOf(badges') = KeysOf(badges)
    BY DEF KeysOf
  <2>2. issueBadges(replay'.score) = issueBadges(replay.score)
    OBVIOUS
  <2> QED
    BY <1>2, <2>1, <2>2 DEF LoneFits
<1> QED
  BY <1>3, <1>4, LoneNext DEF LoneFits

\* A replay that goes on: its stamp stays, and so does what it found alone.
LEMMA LoneGoesOn ==
  ASSUME NEW j \in Jobs, NEW F, Moved(jobs, jobs', j, F), LoneInv,
         "now" \notin F, "solo" \notin F, InRun(jobs[j]),
         Stands(jobs'[j], "saveReplay") => jobs'[j].seen = DeletedBadges(badges),
         UNCHANGED <<replay, lone, badges>>
  PROVE  LoneInv'
<1>1. \A k \in Jobs \ {j} : jobs'[k] = jobs[k]
  BY DEF Moved
<1>2. LoneFits(jobs, badges, replay, lone)
  BY LoneIs
<1>3. jobs'[j].now = jobs[j].now /\ jobs'[j].solo = jobs[j].solo
  BY DEF Moved, Fields
<1>4. ASSUME NEW k \in Jobs, InRun(jobs'[k]), jobs'[k].solo
      PROVE  /\ \A i \in Jobs \ {k} : ~InRun(jobs'[i])
             /\ AloneFits(jobs'[k], badges', replay')
  <2>1. InRun(jobs[k]) /\ jobs[k].solo
    BY <1>1, <1>3, <1>4
  <2>2. /\ \A i \in Jobs \ {k} : ~InRun(jobs[i])
        /\ AloneFits(jobs[k], badges, replay)
    BY <1>2, <2>1 DEF LoneFits
  <2>3. k = j
    BY <2>2
  <2> QED
    BY <1>1, <1>3, <2>2, <2>3 DEF AloneFits
<1>5. lone' => KeysOf(badges') = issueBadges(replay'.score)
  BY <1>2 DEF LoneFits
<1> QED
  BY <1>4, <1>5, LoneNext DEF LoneFits

\* A replay that begins, alone or not.
LEMMA LoneStarts ==
  ASSUME Typed, LoneInv, NEW j \in Jobs, StartReplay(j)
  PROVE  LoneInv'
<1>1. /\ JobsFit(jobs, clock) /\ JobFits(jobs[j], clock) /\ replay.at \in Nat
      /\ replay.at <= clock /\ clock \in Nat
  BY TypedIs DEF JobsFit, DataFits
<1>2. UNCHANGED <<replay, lone, badges>>
  BY DEF StartReplay
<1>3. LoneFits(jobs, badges, replay, lone)
  BY LoneIs
<1>4. /\ Stands(jobs[j], "replayStart")
      /\ jobs'[j].pc = jobs[j].pc + 1 /\ jobs'[j].now = clock + 1
      /\ jobs'[j].kind = jobs[j].kind
      /\ jobs'[j].solo <=> {k \in Jobs \ {j} : InReplay(k)} = {}
      /\ \A k \in Jobs \ {j} :
            /\ jobs'[k].kind = jobs[k].kind /\ jobs'[k].pc = jobs[k].pc
            /\ InReplay(k) => ~jobs'[k].solo
  BY StartReplayDoes DEF Fields
<1>5. ~Stands(jobs'[j], "saveReplay")
  <2>1. Stands(jobs'[j], "saveReplay") => Stands(jobs[j], "deleteBadges")
    BY <1>1, <1>4, After DEF JobFits
  <2> QED
    BY <1>4, <2>1 DEF Stands
<1>6. \A k \in Jobs \ {j} : InRun(jobs'[k]) => InReplay(k)
  BY <1>1, <1>4, SamePlace, InReplayIs
<1>7. ASSUME NEW k \in Jobs, InRun(jobs'[k]), jobs'[k].solo
      PROVE  /\ \A i \in Jobs \ {k} : ~InRun(jobs'[i])
             /\ AloneFits(jobs'[k], badges', replay')
  <2>1. k = j
    BY <1>4, <1>6, <1>7
  <2>2. \A i \in Jobs \ {k} : ~InRun(jobs'[i])
    BY <1>4, <1>6, <1>7, <2>1
  <2>3. replay.at < jobs'[j].now
    BY <1>1, <1>4
  <2> QED
    BY <1>2, <1>5, <2>1, <2>2, <2>3 DEF AloneFits
<1>8. lone' => KeysOf(badges') = issueBadges(replay'.score)
  BY <1>2, <1>3 DEF LoneFits
<1> QED
  BY <1>7, <1>8, LoneNext DEF LoneFits

\* A replay that ends: alone, it leaves its own badges and its own run.
LEMMA LoneEnds ==
  ASSUME Typed, LoneInv, NEW j \in Jobs, SaveReplay(j)
  PROVE  LoneInv'
<1> DEFINE me == jobs[j]
<1> DEFINE keys == issueBadges(me.score)
<1> DEFINE new == {[key |-> k, run |-> me.now] : k \in keys}
<1>1. /\ JobsFit(jobs, clock) /\ JobFits(me, clock) /\ replay.at \in Nat /\ me.now \in Nat
  BY TypedIs DEF JobsFit, JobFits, DataFits
<1>2. LoneFits(jobs, badges, replay, lone)
  BY LoneIs
<1>3. /\ Stands(me, "saveReplay") /\ Moved(jobs, jobs', j, {"seen", "score", "now", "solo", "pc"})
      /\ jobs'[j].pc = me.pc + 1
  BY SaveReplayDoes
<1>4. /\ replay' = LatestReplay([at |-> me.now, score |-> me.score])
      /\ badges' = {b \in badges \ me.seen : b.key \notin keys} \cup new
  BY Zenon DEF SaveReplay, ReplaceBadges
<1>5. lone' = me.solo
  BY Zenon DEF SaveReplay
<1>6. \A k \in Jobs \ {j} : jobs'[k] = jobs[k]
  BY <1>3 DEF Moved
<1>7. ~InRun(jobs'[j])
  <2>1. jobs'[j].kind = me.kind
    BY <1>3 DEF Moved, Fields
  <2> QED
    BY <1>1, <1>3, <2>1, After DEF JobFits, InRun, Stands
<1>8. \A k \in Jobs : InRun(jobs'[k]) /\ jobs'[k].solo => FALSE
  <2>1. InRun(me)
    BY <1>3 DEF InRun
  <2> QED
    BY <1>2, <1>6, <1>7, <2>1 DEF LoneFits
<1>9. ASSUME lone' PROVE KeysOf(badges') = issueBadges(replay'.score)
  <2>1. replay.at < me.now /\ me.seen = DeletedBadges(badges)
    BY <1>2, <1>3, <1>5, <1>9 DEF LoneFits, AloneFits, InRun
  <2>2. replay'.score = me.score
    BY <1>4, <2>1 DEF LatestReplay
  <2>3. me.now > 0
    BY <1>1, <2>1
  <2> HIDE DEF keys, me
  <2>4. \A b \in new : b.run > 0
    BY <2>3
  <2>5. \A b \in badges \ me.seen : ~(b.run > 0)
    BY <2>1 DEF DeletedBadges
  <2>6. \A b \in new : b \in badges'
    BY <1>4
  <2>7. \A b \in badges' : b \in new \/ b \in badges \ me.seen
    BY <1>4
  <2>8. DeletedBadges(badges') = new
    <3> HIDE DEF new
    <3> QED
      BY <2>4, <2>5, <2>6, <2>7 DEF DeletedBadges
  <2>9. {b.key : b \in new} = keys
    <3>1. \A b \in new : b.key \in keys
      OBVIOUS
    <3>2. \A k \in keys : [key |-> k, run |-> me.now] \in new
      OBVIOUS
    <3>3. \A k \in keys : \E b \in new : b.key = k
      BY <3>2
    <3> HIDE DEF new
    <3> QED
      BY <3>1, <3>3
  <2>10. KeysOf(badges') = keys
    BY <2>8, <2>9 DEF KeysOf
  <2> QED
    BY <2>2, <2>10 DEF keys
<1> QED
  BY <1>8, <1>9, LoneNext DEF LoneFits

\* Quests give badges that no replay has issued.
LEMMA NewBoardIssues ==
  ASSUME NEW j \in Jobs, NewBoard(j)
  PROVE  DeletedBadges(badges') = DeletedBadges(badges)
<1> DEFINE quests == buildQuestsFromSnapshot(jobs[j].snap)
<1> DEFINE assigned == Board(jobs[j].snap, jobs[j].week, quests)
<1> DEFINE done == upsertQuestCompletion(jobs[j].snap, jobs[j].week, quests, assigned)
<1>1. badges' = badges \cup upsertQuestBadgeReward(done)
  BY DEF NewBoard, MaterializeQuestBoard
<1> HIDE DEF done
<1>2. ASSUME NEW b \in upsertQuestBadgeReward(done) PROVE ~(b.run > 0)
  <2>1. b.run = 0
    BY QuestBadge
  <2> QED
    BY <2>1
<1> QED
  BY <1>1, <1>2 DEF DeletedBadges

\* The step after one that a replay neither begins nor takes is no replay's.
LEMMA NotBegun ==
  ASSUME NEW j \in Jobs, NEW F, NEW step, JobFits(jobs[j], clock),
         Moved(jobs, jobs', j, F), "kind" \notin F, jobs'[j].pc = jobs[j].pc + 1,
         Stands(jobs[j], step),
         step \notin {"replayStart", "loadCandidates", "deleteBadges"}
  PROVE  ~InRun(jobs'[j])
<1>1. jobs'[j].kind = jobs[j].kind
  BY DEF Moved, Fields
<1>2. jobs[j].kind \in JobKinds /\ jobs[j].pc \in Nat /\ jobs[j].pc >= 1
  BY DEF JobFits
<1>3. /\ Stands(jobs'[j], "loadCandidates") => Stands(jobs[j], "replayStart")
      /\ Stands(jobs'[j], "deleteBadges") => Stands(jobs[j], "loadCandidates")
      /\ Stands(jobs'[j], "saveReplay") => Stands(jobs[j], "deleteBadges")
  BY <1>1, <1>2, After
<1>4. ASSUME NEW x, x # step PROVE ~Stands(jobs[j], x)
  BY <1>4 DEF Stands
<1> QED
  BY <1>3, <1>4 DEF InRun

\* Every step keeps what holds of replays alone.
LEMMA LoneStep ==
  ASSUME Typed, LoneInv, NEW j \in Jobs, Step(j)
  PROVE  LoneInv'
<1> DEFINE q == jobs[j]
<1> DEFINE p == jobs'[j]
<1>1. JobFits(q, clock)
  BY TypedIs DEF JobsFit
<1>2. CASE SyncPullRequest(j)
  <2> DEFINE F == {"row", "pc"}
  <2>1. Stands(q, "sync") /\ Moved(jobs, jobs', j, F) /\ p.pc = q.pc + 1
    BY <1>2, SyncPullRequestDoes
  <2>2. UNCHANGED <<replay, lone, badges>>
    BY <1>2 DEF SyncPullRequest
  <2>3. "kind" \notin F
    OBVIOUS
  <2> HIDE DEF F
  <2>4. ~InRun(p)
    BY <1>1, <2>1, <2>3, NotBegun
  <2> QED
    BY <2>1, <2>2, <2>4, LoneStays
<1>3. CASE SavePullRequestAnalysis(j)
  <2> DEFINE F == {"an", "pc"}
  <2>1. Stands(q, "analyze") /\ Moved(jobs, jobs', j, F) /\ p.pc = q.pc + 1
    BY <1>3, SavePullRequestAnalysisDoes
  <2>2. UNCHANGED <<replay, lone, badges>>
    BY <1>3 DEF SavePullRequestAnalysis
  <2>3. "kind" \notin F
    OBVIOUS
  <2> HIDE DEF F
  <2>4. ~InRun(p)
    BY <1>1, <2>1, <2>3, NotBegun
  <2> QED
    BY <2>1, <2>2, <2>4, LoneStays
<1>4. CASE StartRefresh(j)
  <2> DEFINE F == {"now", "week", "pc"}
  <2>1. Stands(q, "refreshStart") /\ Moved(jobs, jobs', j, F) /\ p.pc = q.pc + 1
    BY <1>4, StartRefreshDoes
  <2>2. UNCHANGED <<replay, lone, badges>>
    BY <1>4 DEF StartRefresh
  <2>3. "kind" \notin F
    OBVIOUS
  <2> HIDE DEF F
  <2>4. ~InRun(p)
    BY <1>1, <2>1, <2>3, NotBegun
  <2> QED
    BY <2>1, <2>2, <2>4, LoneStays
<1>5. CASE InsertSnapshot(j)
  <2> DEFINE F == {"pc"}
  <2>1. Stands(q, "insertSnapshot") /\ Moved(jobs, jobs', j, F) /\ p.pc = q.pc + 1
    BY <1>5, InsertSnapshotDoes
  <2>2. UNCHANGED <<replay, lone, badges>>
    BY <1>5 DEF InsertSnapshot
  <2>3. "kind" \notin F
    OBVIOUS
  <2> HIDE DEF F
  <2>4. ~InRun(p)
    BY <1>1, <2>1, <2>3, NotBegun
  <2> QED
    BY <2>1, <2>2, <2>4, LoneStays
<1>6. CASE RebuildLoad(j)
  <2> DEFINE F == {"snap", "pc"}
  <2>1. Stands(q, "rebuildLoad") /\ Moved(jobs, jobs', j, F) /\ p.pc = q.pc + 1
    BY <1>6, RebuildLoadDoes
  <2>2. UNCHANGED <<replay, lone, badges>>
    BY <1>6 DEF RebuildLoad
  <2>3. "kind" \notin F
    OBVIOUS
  <2> HIDE DEF F
  <2>4. ~InRun(p)
    BY <1>1, <2>1, <2>3, NotBegun
  <2> QED
    BY <2>1, <2>2, <2>4, LoneStays
<1>7. CASE MaterializeReports(j)
  <2> DEFINE F == {"report", "pc"}
  <2>1. Stands(q, "report") /\ Moved(jobs, jobs', j, F) /\ p.pc = q.pc + 1
    BY <1>7, MaterializeReportsDoes
  <2>2. UNCHANGED <<replay, lone, badges>>
    BY <1>7 DEF MaterializeReports
  <2>3. "kind" \notin F
    OBVIOUS
  <2> HIDE DEF F
  <2>4. ~InRun(p)
    BY <1>1, <2>1, <2>3, NotBegun
  <2> QED
    BY <2>1, <2>2, <2>4, LoneStays
<1>8. CASE LoadCandidates(j)
  <2> DEFINE F == {"score", "pc"}
  <2>1. Stands(q, "loadCandidates") /\ Moved(jobs, jobs', j, F) /\ p.pc = q.pc + 1
    BY <1>8, LoadCandidatesDoes
  <2>2. UNCHANGED <<replay, lone, badges>>
    BY <1>8 DEF LoadCandidates
  <2>3. "kind" \notin F /\ "now" \notin F /\ "solo" \notin F
    OBVIOUS
  <2> HIDE DEF F
  <2>4. p.kind = q.kind
    BY <2>1, <2>3 DEF Moved, Fields
  <2>5. Stands(p, "saveReplay") => Stands(q, "deleteBadges")
    BY <1>1, <2>1, <2>4, After DEF JobFits
  <2>6. ~Stands(p, "saveReplay") /\ InRun(q)
    BY <2>1, <2>5 DEF Stands, InRun
  <2> QED
    BY <2>1, <2>2, <2>3, <2>6, LoneGoesOn
<1>9. CASE DeleteBadges(j)
  <2> DEFINE F == {"seen", "pc"}
  <2>1. Stands(q, "deleteBadges") /\ Moved(jobs, jobs', j, F) /\ p.seen = DeletedBadges(badges)
    BY <1>9, DeleteBadgesDoes
  <2>2. UNCHANGED <<replay, lone, badges>>
    BY <1>9 DEF DeleteBadges
  <2>3. "now" \notin F /\ "solo" \notin F
    OBVIOUS
  <2> HIDE DEF F
  <2>4. InRun(q)
    BY <2>1 DEF InRun
  <2> QED
    BY <2>1, <2>2, <2>3, <2>4, LoneGoesOn
<1>10. CASE RefreshProfileByUserID(j)
  <2> DEFINE F == {"pc", "snap"}
  <2>1. /\ Stands(q, "refreshLoad") /\ Moved(jobs, jobs', j, F)
        /\ p.pc = q.pc + 1 \/ p.pc = q.pc + 3
    BY <1>10, RefreshProfileDoes
  <2>2. UNCHANGED <<replay, lone, badges>>
    BY <1>10 DEF RefreshProfileByUserID
  <2>3. "kind" \notin F
    OBVIOUS
  <2> HIDE DEF F
  <2>4. ASSUME p.pc = q.pc + 1 PROVE ~InRun(p)
    BY <1>1, <2>1, <2>3, <2>4, NotBegun
  <2>5. ASSUME p.pc = q.pc + 3 PROVE ~InRun(p)
    <3>1. p.kind = q.kind
      BY <2>1, <2>3 DEF Moved, Fields
    <3>2. Aside(p)
      BY <1>1, <2>1, <2>5, <3>1, Jumps DEF JobFits, Stands
    <3> QED
      BY <3>2, AsideNotInRun
  <2> QED
    BY <2>1, <2>2, <2>4, <2>5, LoneStays
<1>11. CASE EnsureSnapshot(j)
  <2> DEFINE F == {"now", "week", "pc", "snap", "old"}
  <2>1. /\ Stands(q, "ensureSnapshot") /\ Moved(jobs, jobs', j, F)
        /\ p.pc = q.pc + 1 \/ p.pc = q.pc + 4
    BY <1>11, EnsureSnapshotDoes
  <2>2. UNCHANGED <<replay, lone, badges>>
    BY <1>11 DEF EnsureSnapshot
  <2>3. "kind" \notin F
    OBVIOUS
  <2> HIDE DEF F
  <2>4. ASSUME p.pc = q.pc + 1 PROVE ~InRun(p)
    BY <1>1, <2>1, <2>3, <2>4, NotBegun
  <2>5. ASSUME p.pc = q.pc + 4 PROVE ~InRun(p)
    <3>1. p.kind = q.kind
      BY <2>1, <2>3 DEF Moved, Fields
    <3>2. Aside(p)
      BY <1>1, <2>1, <2>5, <3>1, Jumps DEF JobFits, Stands
    <3> QED
      BY <3>2, AsideNotInRun
  <2> QED
    BY <2>1, <2>2, <2>4, <2>5, LoneStays
<1>12. CASE NewBoard(j)
  <2> DEFINE F == {"snap", "old", "now", "pc"}
  <2>1. /\ Stands(q, "newBoard") \/ Stands(q, "questBoard")
        /\ Moved(jobs, jobs', j, F) /\ p.pc = q.pc + 1
    BY <1>12, NewBoardDoes
  <2>2. UNCHANGED <<replay, lone>>
    BY <1>12 DEF NewBoard
  <2>3. "kind" \notin F
    OBVIOUS
  <2> HIDE DEF F
  <2>4. ~InRun(p)
    BY <1>1, <2>1, <2>3, NotBegun
  <2> QED
    BY <1>12, <2>1, <2>2, <2>4, LoneStays, NewBoardIssues
<1>13. CASE Complete(j)
  <2> DEFINE F == {"pc"}
  <2>1. /\ q.pc = Len(Steps(q.kind)) + 1
        /\ Moved(jobs, jobs', j, F) /\ p.pc = q.pc + 1
    BY <1>13, CompleteDoes
  <2>2. UNCHANGED <<replay, lone, badges>>
    BY <1>13 DEF Complete
  <2>3. "kind" \notin F
    OBVIOUS
  <2> HIDE DEF F
  <2>4. p.kind = q.kind
    BY <2>1, <2>3 DEF Moved, Fields
  <2>5. Len(Steps(q.kind)) \in Nat
    BY <1>1, EveryOrder DEF JobFits, Orderly
  <2>6. ~(p.pc <= Len(Steps(p.kind)))
    BY <2>1, <2>4, <2>5
  <2>7. ~InRun(p)
    BY <2>6 DEF InRun, Stands
  <2> QED
    BY <2>1, <2>2, <2>7, LoneStays
<1> QED
  BY <1>2, <1>3, <1>4, <1>5, <1>6, <1>7, <1>8, <1>9, <1>10, <1>11, <1>12, <1>13,
     LoneStarts, LoneEnds, Zenon DEF Step

LEMMA NextLone ==
  ASSUME Typed, LoneInv, [Next]_vars
  PROVE  LoneInv'
<1>1. ASSUME NEW j \in Jobs, Fail(j) \/ RebuildFails(j) PROVE LoneInv'
  <2>1. JobFits(jobs[j], clock)
    BY TypedIs DEF JobsFit
  <2>2. jobs[j].pc \in Nat /\ jobs[j].kind \in JobKinds
    BY <2>1 DEF JobFits
  <2>3. UNCHANGED <<replay, lone, badges>>
    BY <1>1 DEF Fail, RebuildFails
  <2>4. CASE Fail(j)
    <3>1. /\ Moved(jobs, jobs', j, Fields \ {"kind", "pr", "row", "an"})
          /\ jobs'[j].pc = 1
      BY <2>4, FailDoes
    <3>2. jobs'[j].kind = jobs[j].kind
      BY <3>1 DEF Moved, Fields
    <3>3. 1 \in Nat /\ 1 >= 1 /\ 1 <= Len(Steps(jobs[j].kind))
      BY <2>2, EveryOrder DEF Orderly
    <3>4. Aside(jobs'[j])
      BY <2>2, <3>1, <3>2, <3>3, Jumps
    <3> QED
      BY <2>3, <3>1, <3>4, AsideNotInRun, LoneStays
  <2>5. CASE RebuildFails(j)
    <3>1. Moved(jobs, jobs', j, {"pc", "snap"})
      BY <2>5, RebuildFailsDoes
    <3>2. PICK i \in Nat : /\ i >= 1 /\ i <= Len(Steps(jobs[j].kind))
                           /\ Steps(jobs[j].kind)[i] = "ensureSnapshot"
                           /\ jobs'[j].pc = i + 4
      BY <2>5, RebuildFailsDoes
    <3>3. jobs'[j].kind = jobs[j].kind
      BY <3>1 DEF Moved, Fields
    <3>4. Aside(jobs'[j])
      BY <2>2, <3>2, <3>3, Jumps
    <3> QED
      BY <2>3, <3>1, <3>4, AsideNotInRun, LoneStays
  <2> QED
    BY <1>1, <2>4, <2>5
<1>2. ASSUME Age \/ UNCHANGED vars PROVE LoneInv'
  <2>1. UNCHANGED <<jobs, badges, replay, lone>>
    BY <1>2 DEF Age, vars
  <2> QED
    BY <2>1 DEF LoneInv
<1> QED
  BY <1>1, <1>2, LoneStep, Zenon DEF Next

\* Nothing is replayed yet, and nothing earns a badge.
LEMMA InitLone ==
  ASSUME Init
  PROVE  LoneInv
<1>1. PICK plan \in Plans :
        jobs = [j \in Jobs |-> Fresh(plan.jobs[j].kind, plan.jobs[j].pr)]
  BY DEF Init
<1>2. replay.score = NoScore /\ badges = {}
  BY DEF Init
<1>3. ASSUME NEW j \in Jobs PROVE ~InRun(jobs[j])
  <2>1. jobs[j].kind \in JobKinds /\ jobs[j].pc = 1
    BY <1>1, PlansAssumption DEF Fresh
  <2>2. 1 \in Nat /\ 1 >= 1 /\ 1 <= Len(Steps(jobs[j].kind))
    BY <2>1, EveryOrder DEF Orderly
  <2>3. Aside(jobs[j])
    BY <2>1, <2>2, Jumps
  <2> QED
    BY <2>3, AsideNotInRun
<1>4. KeysOf(badges) = {}
  BY <1>2 DEF KeysOf, DeletedBadges
<1>5. Earning(NoScore) = {}
  BY DEF Earning, Events, NoScore
<1>6. Cardinality(Earning(NoScore)) = 0
  BY <1>5, FS_EmptySet
<1>7. MinBadgePRs \in Nat \ {0}
  BY InsightsAssumption
<1>8. issueBadges(NoScore) = {}
  BY <1>6, <1>7 DEF issueBadges
<1>9. LoneFits(jobs, badges, replay, lone)
  BY <1>2, <1>3, <1>4, <1>8 DEF LoneFits
<1> QED
  BY <1>9 DEF LoneInv

----------------------------------------------------------------------------
(* Assignments.                                                            *)

\* An assignment is its key, and its progress is a number.
BoardFits(bd) ==
  \A a \in bd : a.progress \in Nat /\ \A b \in bd : b.key = a.key => b = a

BoardInv == \A bd : bd = board => BoardFits(bd)

LEMMA ProgressIsNat ==
  ASSUME NEW snap, NEW c, SnapFits(snap, c), NEW q, q.goal \in Nat
  PROVE  Progress(snap, q) \in Nat
<1> DEFINE prs == {p \in Events(snap.score) : LaneOf[p] = q.lane}
<1> DEFINE rews == {r \in snap.rewards : r.lane = q.lane}
<1> DEFINE n == Cardinality(prs) + Cardinality(rews)
<1>1. IsFiniteSet(prs)
  <2>1. prs \subseteq PRs
    BY DEF Events
  <2> QED
    BY <2>1, InsightsAssumption, FS_Subset
<1>2. IsFiniteSet(rews)
  BY FS_Subset DEF SnapFits
<1>3. Cardinality(prs) \in Nat /\ Cardinality(rews) \in Nat
  BY <1>1, <1>2, FS_CardinalityType
<1>4. /\ matchingEvidence(snap, q.lane).prs = prs
      /\ matchingEvidence(snap, q.lane).rewards = rews
  BY DEF matchingEvidence
<1>5. Progress(snap, q) = IF n < q.goal THEN n ELSE q.goal
  BY <1>4 DEF Progress
<1> HIDE DEF prs, rews
<1>6. n \in Nat
  BY <1>3
<1> QED
  BY <1>5, <1>6

LEMMA GoalIsNat ==
  ASSUME NEW snap, NEW q \in buildQuestsFromSnapshot(snap)
  PROVE  q.goal \in Nat
<1>1. q = weakLaneQuest(snap) \/ q \in Templates
  BY DEF buildQuestsFromSnapshot
<1>2. weakLaneQuest(snap).goal \in Nat
  BY DEF weakLaneQuest, WeakGoal
<1> QED
  BY <1>1, <1>2, TemplatesAssumption

\* An upsert leaves no less progress and no less completed.
LEMMA UpsertDoes ==
  ASSUME BoardInv, NEW key, NEW progress \in Nat, NEW goal
  PROVE  /\ upsertQuestAssignment(key, progress, goal).key = key
         /\ upsertQuestAssignment(key, progress, goal).progress \in Nat
         /\ \A a \in Assigned(key) :
               /\ upsertQuestAssignment(key, progress, goal).progress >= a.progress
               /\ a.completed => upsertQuestAssignment(key, progress, goal).completed
<1> DEFINE old == Assigned(key)
<1> DEFINE S == {progress} \cup {a.progress : a \in old}
<1> DEFINE all == progress >= goal \/ \E a \in old : a.completed
<1> DEFINE u == upsertQuestAssignment(key, progress, goal)
<1>1. u = [key |-> key, progress |-> MaxOf(S), completed |-> all]
  BY Zenon DEF upsertQuestAssignment
<1>2. u.key = key /\ u.progress = MaxOf(S)
  <2> HIDE DEF u, S, all
  <2> QED
    BY <1>1
<1>3. u.completed = all
  <2> HIDE DEF u, S, all
  <2> QED
    BY <1>1, Zenon
<1>4. \A a \in old : a.progress \in Nat /\ \A b \in old : b = a
  BY DEF BoardInv, BoardFits, Assigned
<1>5. \E x \in S : \A y \in S : y <= x
  <2>1. CASE old = {}
    BY <2>1
  <2>2. CASE old # {}
    <3>1. PICK a \in old : TRUE
      BY <2>2
    <3>2. S = {progress, a.progress} /\ a.progress \in Nat
      BY <1>4, <3>1
    <3>3. progress <= a.progress \/ a.progress <= progress
      BY <3>2
    <3> HIDE DEF S, old
    <3> QED
      BY <3>2, <3>3
  <2> QED
    BY <2>1, <2>2
<1>6. MaxOf(S) \in S /\ \A y \in S : y <= MaxOf(S)
  <2> HIDE DEF S
  <2> QED
    BY <1>5 DEF MaxOf
<1>7. S \subseteq Nat
  BY <1>4
<1>8. MaxOf(S) \in Nat
  BY <1>6, <1>7
<1>9. ASSUME NEW a \in old PROVE MaxOf(S) >= a.progress
  <2>1. a.progress \in S /\ a.progress \in Nat
    BY <1>4
  <2>2. a.progress <= MaxOf(S)
    BY <1>6, <2>1
  <2> HIDE DEF S
  <2> QED
    BY <1>8, <2>1, <2>2
<1>10. ASSUME NEW a \in old, a.completed PROVE u.completed
  <2>1. all
    BY <1>10
  <2> HIDE DEF all
  <2> QED
    BY <1>3, <2>1
<1> HIDE DEF u, S, all, old
<1>11. \A a \in old : u.progress >= a.progress /\ (a.completed => u.completed)
  BY <1>2, <1>9, <1>10
<1> QED
  BY <1>2, <1>8, <1>11 DEF u, old

\* What becomes of one assignment.
Outlived(a) ==
  \E b \in board' :
     /\ b.key = a.key /\ b.progress >= a.progress
     /\ a.completed => b.completed

LEMMA NewBoardAssigns ==
  ASSUME Typed, BoardInv, NEW j \in Jobs, NewBoard(j)
  PROVE  BoardInv' /\ \A a \in board : Outlived(a)
<1>1. PICK snap, w : snap = jobs[j].snap /\ w = jobs[j].week
  OBVIOUS
<1>2. SnapFits(snap, clock)
  BY <1>1, TypedIs DEF JobsFit, JobFits
<1> DEFINE quests == buildQuestsFromSnapshot(snap)
<1> DEFINE assigned == Board(snap, w, quests)
<1> DEFINE Up(q) == upsertQuestAssignment(questAssignmentKey(q, snap, w), Progress(snap, q), q.goal)
<1>3. board' = {a \in board : \A b \in assigned : b.key # a.key} \cup assigned
  BY <1>1 DEF NewBoard, MaterializeQuestBoard
<1>4. \A y \in assigned : \E q \in quests : y = Up(q)
  BY Zenon DEF Board
<1>5. ASSUME NEW q \in quests
      PROVE  /\ Up(q).key = [quest |-> q.id, window |-> w]
             /\ Up(q).progress \in Nat
             /\ \A a \in board : a.key = Up(q).key =>
                   Up(q).progress >= a.progress /\ (a.completed => Up(q).completed)
  <2> DEFINE key == questAssignmentKey(q, snap, w)
  <2>1. q.goal \in Nat
    BY GoalIsNat
  <2>2. Progress(snap, q) \in Nat
    BY <1>2, <2>1, ProgressIsNat
  <2>3. /\ Up(q).key = key /\ Up(q).progress \in Nat
        /\ \A a \in Assigned(key) :
              Up(q).progress >= a.progress /\ (a.completed => Up(q).completed)
    BY <2>2, UpsertDoes
  <2>4. key = [quest |-> q.id, window |-> w]
    BY DEF questAssignmentKey
  <2>5. \A a \in board : a.key = key => a \in Assigned(key)
    BY DEF Assigned
  <2> HIDE DEF Up, key
  <2> QED
    BY <2>3, <2>4, <2>5
<1>6. \A q \in quests, o \in quests : o.id = q.id => o = q
  BY <1>2, QuestIsItsName
<1> HIDE DEF Up, quests, assigned
<1>7. \A y \in assigned : /\ y.progress \in Nat
                          /\ \A z \in assigned : z.key = y.key => z = y
  <2> SUFFICES ASSUME NEW y \in assigned
               PROVE  y.progress \in Nat /\ \A z \in assigned : z.key = y.key => z = y
    OBVIOUS
  <2>1. PICK q \in quests : y = Up(q)
    BY <1>4
  <2>2. ASSUME NEW z \in assigned, z.key = y.key PROVE z = y
    <3>1. PICK o \in quests : z = Up(o)
      BY <1>4
    <3>2. [quest |-> o.id, window |-> w] = [quest |-> q.id, window |-> w]
      BY <1>5, <2>1, <2>2, <3>1
    <3>3. o.id = q.id
      BY <3>2
    <3> QED
      BY <1>6, <2>1, <3>1, <3>3
  <2> QED
    BY <1>5, <2>1, <2>2
<1>8. BoardFits(board)
  BY DEF BoardInv
<1>9. BoardFits(board')
  BY <1>3, <1>7, <1>8 DEF BoardFits
<1>10. ASSUME NEW a \in board PROVE Outlived(a)
  <2>1. CASE \A y \in assigned : y.key # a.key
    <3>1. a \in board' /\ a.progress \in Nat
      BY <1>3, <1>8, <2>1 DEF BoardFits
    <3> QED
      BY <3>1 DEF Outlived
  <2>2. CASE \E y \in assigned : y.key = a.key
    <3>1. PICK y \in assigned : y.key = a.key
      BY <2>2
    <3>2. PICK q \in quests : y = Up(q)
      BY <1>4
    <3>3. y.progress >= a.progress /\ (a.completed => y.completed)
      BY <1>5, <3>1, <3>2
    <3>4. y \in board'
      BY <1>3
    <3> QED
      BY <3>1, <3>3, <3>4 DEF Outlived
  <2> QED
    BY <2>1, <2>2
<1> QED
  BY <1>9, <1>10 DEF BoardInv

LEMMA SameBoard ==
  ASSUME BoardInv, board' = board
  PROVE  BoardInv' /\ \A a \in board : Outlived(a)
<1>1. \A a \in board : a.progress \in Nat
  BY DEF BoardInv, BoardFits
<1> QED
  BY <1>1 DEF BoardInv, Outlived

LEMMA NextBoard ==
  ASSUME Typed, BoardInv, [Next]_vars
  PROVE  BoardInv' /\ \A a \in board : Outlived(a)
<1>1. ASSUME NEW j \in Jobs, Step(j), ~NewBoard(j) PROVE board' = board
  BY <1>1, Zenon DEF Step, SyncPullRequest, SavePullRequestAnalysis, StartReplay,
     LoadCandidates, DeleteBadges, SaveReplay, StartRefresh, RefreshProfileByUserID,
     InsertSnapshot, EnsureSnapshot, RebuildLoad, MaterializeReports, Complete
<1>2. ASSUME NEW j \in Jobs, Fail(j) \/ RebuildFails(j) PROVE board' = board
  BY <1>2 DEF Fail, RebuildFails
<1>3. ASSUME Age \/ UNCHANGED vars PROVE board' = board
  BY <1>3 DEF Age, vars
<1>4. CASE \E j \in Jobs : NewBoard(j)
  BY <1>4, NewBoardAssigns
<1>5. CASE ~\E j \in Jobs : NewBoard(j)
  <2>1. board' = board
    BY <1>1, <1>2, <1>3, <1>5, Zenon DEF Next
  <2> QED
    BY <2>1, SameBoard
<1> QED
  BY <1>4, <1>5

----------------------------------------------------------------------------
(* The theorems.                                                           *)

\* The inductive invariant: the types, the assignments, the quests and their
\* rewards, where the grade jobs stand, and the replays that overlap no other.
Inv == Typed /\ BoardInv /\ QuestsInv /\ GradeInv /\ LoneInv

LEMMA InitBoard ==
  ASSUME Init
  PROVE  BoardInv
BY DEF Init, BoardInv, BoardFits

LEMMA InitQuests ==
  ASSUME Init
  PROVE  QuestsInv
BY DEF Init, QuestsInv, KeysAreWeeks, PaidOnceAWeek, QuestBadgesAreKept

\* Every job is of a known kind and at a step of it, every stamp was taken, and
\* the parts of the invariant hold whatever requests of the jobs and visits
\* interleave, fail and are retried.
THEOREM Invariance == Spec => []Inv
<1>1. Init => Inv
  BY InitTyped, InitBoard, InitQuests, InitGrade, InitLone DEF Inv
<1>2. Inv /\ [Next]_vars => Inv'
  <2> SUFFICES ASSUME Inv, [Next]_vars PROVE Inv'
    OBVIOUS
  <2>1. Typed /\ BoardInv /\ QuestsInv /\ GradeInv /\ LoneInv
    BY DEF Inv
  <2> QED
    BY <2>1, NextTyped, NextBoard, NextQuests, NextGrade, NextLone DEF Inv
<1> QED
  BY <1>1, <1>2, PTL DEF Spec

\* upsertQuestAssignment takes no progress and no completion back, whichever
\* snapshot a board was built from.
THEOREM AssignmentsStay == Spec => CompletedStays
<1>1. Inv /\ [Next]_vars =>
         [\A a \in board : \E b \in board' :
             /\ b.key = a.key /\ b.progress >= a.progress
             /\ a.completed => b.completed]_vars
  BY NextBoard DEF Inv, Outlived
<1> QED
  BY <1>1, Invariance, PTL DEF Spec, CompletedStays

\* A quest pays once a week, and only who has completed it: what
\* MaterializeQuestBoard's upserts by assignment key are for.
THEOREM QuestsPayOnce == Spec => []PaidOnceAWeek
<1>1. Inv => PaidOnceAWeek
  BY DEF Inv, QuestsInv
<1> QED
  BY <1>1, Invariance, PTL

\* What ReplaceBadges deletes and reissues never touches a badge a quest gave.
THEOREM QuestBadgesStay == Spec => []QuestBadgesAreKept
<1>1. Inv => QuestBadgesAreKept
  BY DEF Inv, QuestsInv
<1> QED
  BY <1>1, Invariance, PTL

\* Once executePullRequestGradeJob has completed, the latest snapshot covers the
\* row and the analysis it graded, whatever other requests write.
THEOREM ShowsGrades == Spec => []GradedIsShown
<1>1. Inv => GradedIsShown
  <2> SUFFICES ASSUME Inv, NEW p \in PRs
               PROVE  /\ snapshot.score[p].row >= graded[p].row
                      /\ snapshot.score[p].an >= graded[p].an
    BY DEF GradedIsShown
  <2>1. Shown(rows, analyses, replay, snapshot, jobs, p, graded[p].row, graded[p].an)
    BY GradeIs DEF Inv
  <2> QED
    BY <2>1 DEF Shown, SnapsCover, SnapCovers, Covers
<1> QED
  BY <1>1, Invariance, PTL

\* A completed grade job answers with a report that is not stale and shows the
\* analysis the job stored, or a later one.
THEOREM ReportsGrades == Spec => []GradedIsReported
<1>1. Inv => GradedIsReported
  <2> SUFFICES ASSUME Inv, NEW j \in Jobs, jobs[j].kind = "grade", Completed(j)
               PROVE  ~reportEvidenceState(jobs[j].report) /\ jobs[j].report.an >= jobs[j].an
    BY DEF GradedIsReported
  <2>1. GradeFits(jobs[j], rows, analyses, replay, snapshot, jobs, scored)
    BY GradeIs DEF Inv, GradesFit
  <2>2. Len(Steps(jobs[j].kind)) = 11
    BY GradeSteps
  <2>3. jobs[j].pc = Len(Steps(jobs[j].kind)) + 2
    BY Zenon DEF Completed
  <2>4. jobs[j].pc >= 12
    BY <2>2, <2>3
  <2> QED
    BY <2>1, <2>4 DEF GradeFits
<1> QED
  BY <1>1, Invariance, PTL

\* After a SaveReplay that overlapped no other, scoring-engine's badges are
\* those the latest run awards.
THEOREM LoneReplaysOwn == Spec => []LoneReplayOwnsBadges
<1>1. Inv => LoneReplayOwnsBadges
  <2> SUFFICES ASSUME Inv, lone
               PROVE  {b.key : b \in {x \in badges : x.run > 0}} = issueBadges(replay.score)
    BY DEF LoneReplayOwnsBadges
  <2>1. KeysOf(badges) = issueBadges(replay.score)
    BY LoneIs DEF Inv, LoneFits
  <2> QED
    BY <2>1 DEF KeysOf, DeletedBadges
<1> QED
  BY <1>1, Invariance, PTL
=============================================================================
