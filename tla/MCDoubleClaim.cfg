SPECIFICATION Spec
CONSTANTS
  u1 = u1
  u2 = u2
  t1 = t1
  t2 = t2
  Nobody = Nobody
  Stage <- mcStage
  Start = "s"
  EndStage = "e"
  kind <- mcKind
  nextOf <- mcNextOf
  branches <- mcBranches
  connector = {}
  service = {}
  showsError = {}
  stopsOnError = {}
  Thread = {t1, t2}
  User = {u1, u2}
  userOf <- mcTwoUsers
  assignee <- mcPool
  candidate <- mcCandidate
  MaxCalls = 2
  MaxFaults = 0
PROPERTY
  ClaimTakesFromNobody
CHECK_DEADLOCK FALSE
