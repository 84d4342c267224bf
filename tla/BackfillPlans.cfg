\* Plans run by two tickers, in memory and in persistent mode.
SPECIFICATION PlansSpec
CONSTANTS
    PlanIds = {1, 2}
    Targets <- MCTargets
    Jobs <- MCJobs
    Scopes <- MCScopes
    UserTargets = {"repository"}
    Existing = 1
    Tickers = {1, 2}
    Modes <- MCModes
    Window = 2
    MaxHits = 1
    Period = 2
    Lag = 1
    MaxOps = 2
    MaxClock = 5
INVARIANT CountersAgree
PROPERTIES PausedPlansAreSilent SlotRunsOnce EverySlotIsServed
CHECK_DEADLOCK FALSE
