SPECIFICATION FairSpec
CONSTANTS
  u1 = u1
  u2 = u2
  t1 = t1
  t2 = t2
  Nobody = Nobody
  Stage <- mcStage
  Start = "s"
  EndStage = "e"
  kind <- mcKind
  nextOf <- mcNextOf
  branches <- mcBranches
  connector = {"left"}
  service = {}
  showsError = {"left"}
  stopsOnError = {}
  Thread = {t1, t2}
  User = {u1, u2}
  userOf <- mcUserOf
  assignee <- mcAssignee
  candidate <- mcCandidate
  MaxCalls = 3
  MaxFaults = 0
PROPERTIES
  JoinFires
  HandlersFinish
CHECK_DEADLOCK FALSE
