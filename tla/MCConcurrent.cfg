SPECIFICATION Spec
CONSTANTS
  u1 = u1
  u2 = u2
  t1 = t1
  t2 = t2
  Nobody = Nobody
  Stage <- mcStage
  Start = "s"
  EndStage = "e"
  kind <- mcKind
  nextOf <- mcNextOf
  branches <- mcBranches
  connector = {"left"}
  service = {}
  showsError = {"left"}
  stopsOnError = {}
  Thread = {t1, t2}
  User = {u1, u2}
  userOf <- mcUserOf
  assignee <- mcAssignee
  candidate <- mcCandidate
  MaxCalls = 3
  MaxFaults = 1
INVARIANTS
  TypeOK
  ControlJustified
  FinishedHasTask
PROPERTY
  FollowsRules
CHECK_DEADLOCK FALSE
