\* Three halts, two answers and an edit at once, over two organizations.
SPECIFICATION Spec
CONSTANTS
  mine = mine
  peer = peer
  stranger = stranger
  ours = ours
  theirs = theirs
  h1 = h1
  h2 = h2
  h3 = h3
  r1 = r1
  r2 = r2
  e1 = e1
  e2 = e2
  need = need
  None = None
  Agents <- AllAgents
  OrgOf <- Home
  Needs <- OneNeed
  Halts <- ThreeHalts
  Replies <- TwoReplies
  Edits <- TwoEdits
SYMMETRY Interchangeable
INVARIANTS
  HaltsAddUp
  ServedIsTheBlastRadius
  AnsweredStaysAnswered
  LastWordStands
  
CHECK_DEADLOCK FALSE
