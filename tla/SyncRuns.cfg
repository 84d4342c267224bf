CONSTANTS
  Requests <- MCRequests
  Execs <- MCExecs
  Pod <- MCPod
  ActiveWindow = 1
  QueuedWindow = 1
  MaxRows = 2
  MaxFaults = 1
SPECIFICATION Spec
INVARIANTS OneSyncPerUser AnsweredIsShown
PROPERTIES FinishedRunsAreFinal EveryRunEnds
CHECK_DEADLOCK FALSE
