SPECIFICATION Spec
CONSTANTS
  PRs = {p1, p2}
  Lanes <- MCLanes
  LaneOf <- MCLaneOf
  Earns <- MCEarns
  MinBadgePRs = 2
  Templates <- MCTemplates
  Jobs = {1, 2}
  Plans <- MCPlans
  MaxFaults = 1
  MaxWeeks = 2
INVARIANT GradedIsShown
INVARIANT GradedIsReported
INVARIANT LoneReplayOwnsBadges
INVARIANT PaidOnceAWeek
INVARIANT QuestBadgesAreKept
PROPERTY CompletedStays
PROPERTY EventuallyShown
CHECK_DEADLOCK FALSE
