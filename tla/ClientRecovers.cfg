SPECIFICATION SpecPatient
CONSTANTS
  Callers = {c1, c2, c3}
  FailureLimit = 2
  OpenInterval = 2
  HalfOpenLimit = 2
  MaxConcurrency = 2
  MaxRequests = 3
  MaxFailures = 3
INVARIANT TypeOK
INVARIANT ProbesAreInFlight
PROPERTY Recovers
