\* Two workers, two jobs, and any one thing that goes wrong.
SPECIFICATION Spec
CONSTANTS
  w1 = w1
  w2 = w2
  Nobody = Nobody
  Workers <- TwoWorkers
  Caching <- OneCache
  NumJobs = 2
  Keys <- TwoKeys
  Networked <- Online
  Capacity = 1
  NumRules = 2
  MaxAttempts = 2
  MaxStrikes = 2
  MaxFaults = 1
INVARIANTS
  
  
  NetworkedOnlyFiltered
PROPERTIES
  EverythingEnds
CHECK_DEADLOCK FALSE
