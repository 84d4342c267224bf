SPECIFICATION Spec
CONSTANTS
  Users = {1, 2}
  Repos = {1, 2}
  Requests = {1, 2, 3, 4}
  Plans <- MCPlans
  MaxLimit = 2
  Week = 4
  TTL = 1
  Start = 5
  MaxClock = 7
INVARIANT SeasonIsOneBoard
INVARIANT OptedOutLeavesBoard
INVARIANT PageIsAsRead
CONSTRAINT PagesInTwoSeconds
CHECK_DEADLOCK FALSE
