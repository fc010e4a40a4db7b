\* Two reports of any outcome, a verification of an old run and the scheduler, all of them mortal.
SPECIFICATION FairSpec
CONSTANTS
  x1 = x1
  x2 = x2
  v1 = v1
  s1 = s1
  Nobody = Nobody
  Runs <- TwoRuns
  Verifiers <- OneVerifier
  Sweeps <- OneSweep
  Outcomes = {"proven","unproven","broken","replayed"}
  BoundaryLimit = 1
  MaxTime = 2
INVARIANTS
  NothingInvented
  NeverCountedTwice
  

  
CHECK_DEADLOCK FALSE
