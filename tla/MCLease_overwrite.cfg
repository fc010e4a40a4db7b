SPECIFICATION Spec
CONSTANTS
  w1 = w1
  w2 = w2
  k1 = k1
  k2 = k2
  NumExecutions = 2
  Workers <- TwoWorkers
  NoWorker = NoWorker
  Keys <- FirstKey
  KeyOf <- SharedKey
  StableIds <- Nobody
  Verdicts <- Succeeded
  MaxAttempts = 2
INVARIANTS
  StoredIsTheResult
CHECK_DEADLOCK FALSE
