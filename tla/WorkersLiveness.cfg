SPECIFICATION Spec
CONSTANTS
  Keys = {k1, k2}
  NoKey = noKey
  Correlations = {c1}
  NoCorrelation = noCorrelation
  MaxAttempts = 2
  MaxConcurrency = 1
  LeaseTTL = 1
  RetryBackoff = 1
  MaxLag = 0
  Workers = {w1, w2}
  PollInterval = 1
  MaxJobs = 2
  MaxLosses = 1
PROPERTY EventuallySettled
