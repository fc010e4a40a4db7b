\* Four requests, two windows of different lengths, one need, one crash.
SPECIFICATION Spec
CONSTANTS
  MaxRequests = 4
  Buckets <- TwoBuckets
  Limit <- Ceilings
  Seconds <- Lengths
  Recalling <- RecallBucket
  Needs <- OneNeed
  Longest = 4
  Retention = 2
  Delay = 1
  MaxTime = 5
  MaxCrashes = 1
INVARIANTS
  LimitIsKept
  CountsAddUp
PROPERTIES
  ForgottenInTheEnd
CHECK_DEADLOCK FALSE
