SPECIFICATION Spec
SYMMETRY WorkerSymmetry
CONSTANTS
  Keys = {k1, k2}
  NoKey = noKey
  Correlations = {c1}
  NoCorrelation = noCorrelation
  MaxAttempts = 2
  MaxConcurrency = 2
  LeaseTTL = 2
  RetryBackoff = 1
  MaxLag = 2
  Workers = {w1, w2}
  PollInterval = 1
  MaxJobs = 2
  MaxLosses = 1
INVARIANT SucceededWasDone
PROPERTY ImplementsContract
