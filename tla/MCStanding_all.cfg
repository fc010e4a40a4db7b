\* Two gradings, an operator and two recordings at once.
SPECIFICATION Spec
CONSTANTS
  g1 = g1
  g2 = g2
  a1 = a1
  r1 = r1
  r2 = r2
  Nobody = Nobody
  Graders <- TwoGraders
  Admins <- OneAdmin
  Recorders <- TwoRecorders
  MaxVersion = 3
INVARIANTS
  OperatorsWordStandsAlone
  VersionsAreGivenOutOnce
PROPERTIES
  OnlyRecoveryReleases
CHECK_DEADLOCK FALSE
