SPECIFICATION Spec
CONSTANTS
  u1 = u1
  u2 = u2
  t1 = t1
  Nobody = Nobody
  Stage <- mcStage
  Start = "s"
  EndStage = "e"
  kind <- mcKind
  nextOf <- mcNextOf
  branches <- mcBranches
  connector = {"left", "right"}
  service = {"log"}
  showsError = {"left"}
  stopsOnError = {"left", "log"}
  Thread = {t1}
  User = {u1, u2}
  userOf <- mcUserOf
  assignee <- mcAssignee
  candidate <- mcCandidate
  MaxCalls = 8
  MaxFaults = 0
INVARIANTS
  SerialInv
  TaskMirror
  FieldsKept
  EndsClean
PROPERTY
  JoinCurrent
CHECK_DEADLOCK FALSE
