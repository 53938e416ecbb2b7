SPECIFICATION Spec
CONSTANTS
  u1 = u1
  u2 = u2
  t1 = t1
  Nobody = Nobody
  Stage <- mcStage
  Start = "s"
  EndStage = "e"
  kind <- mcKind
  nextOf <- mcNextOf
  branches <- mcBranches
  connector = {"left", "right"}
  service = {"log"}
  showsError = {"right"}
  stopsOnError = {}
  Thread = {t1}
  User = {u1, u2}
  userOf <- mcUserOf
  assignee <- mcAssignee
  candidate <- mcCandidate
  MaxCalls = 8
  MaxFaults = 0
INVARIANT
  EndsClean
CHECK_DEADLOCK FALSE
