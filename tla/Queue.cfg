SPECIFICATION Spec
CONSTANTS
  Keys = {k1}
  NoKey = noKey
  Correlations = {c1}
  NoCorrelation = noCorrelation
  MaxAttempts = 2
  MaxConcurrency = 2
  LeaseTTL = 1
  RetryBackoff = 1
  MaxLag = 0
  MaxJobs = 3
INVARIANT UniqueActiveKey
INVARIANT LeaseBound
INVARIANT DeadLetterLedger
PROPERTY TerminalIsFinal
