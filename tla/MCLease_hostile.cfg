SPECIFICATION FairSpec
CONSTANTS
  w1 = w1
  w2 = w2
  k1 = k1
  k2 = k2
  NumExecutions = 1
  Workers <- TwoWorkers
  NoWorker = NoWorker
  Keys <- TwoKeys
  KeyOf <- DistinctKeys
  StableIds <- TwoWorkers
  Verdicts <- Succeeded
  MaxAttempts = 2
INVARIANTS
  NoDanglingResult
PROPERTIES
  AcceptedIsRecorded
  SettledIsFinal
  EventuallySettled
