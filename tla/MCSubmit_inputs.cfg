\* A read of the staged inputs that fails.
SPECIFICATION Spec
CONSTANTS
  r1 = r1
  r2 = r2
  o1 = o1
  o2 = o2
  k1 = k1
  in1 = in1
  NoKey = NoKey
  Nothing = Nothing
  Requests <- TwoRequests
  Orgs <- TwoOrgs
  Keys <- OneKey
  Inputs <- OneInput
INVARIANTS
  JobsCarryTheirInputs
CHECK_DEADLOCK FALSE
